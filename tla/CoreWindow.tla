------------------------------ MODULE CoreWindow ------------------------------
(***************************************************************************)
(* Lemmas about Core: the arithmetic of the ring pointers, what one cycle  *)
(* does to the window of entries between them, the map that the window's   *)
(* writers build, and the registers on the two free lists and in the maps. *)
(***************************************************************************)
EXTENDS Core, FiniteSetTheorems, WellFoundedInduction, TLAPS

(* Ring pointers carry one wrap bit more than slots (LG_ROB_PTR). *)
LEMMA Pointers ==
    /\ \A p \in Ptrs : Slot(p) = IF p < RobEntries THEN p ELSE p - RobEntries
    /\ \A p \in Ptrs, n \in 0 .. RobEntries + 1 :
          Plus(p, n) = IF p + n < 2 * RobEntries THEN p + n ELSE p + n - 2 * RobEntries
    /\ head \in Ptrs /\ tail \in Ptrs =>
          Count = IF head <= tail THEN tail - head ELSE tail - head + 2 * RobEntries
<1> USE SizeAssumption DEF Ptrs
<1>1. ASSUME NEW p \in Ptrs
      PROVE  Slot(p) = IF p < RobEntries THEN p ELSE p - RobEntries
  <2>1. RobEntries \in Nat \ {0} /\ p \in -RobEntries .. 4 * RobEntries - 1
    OBVIOUS
  <2> QED BY <2>1 DEF Slot
<1>2. 2 * RobEntries \in Nat \ {0}
  OBVIOUS
<1>3. ASSUME NEW p \in Ptrs, NEW n \in 0 .. RobEntries + 1
      PROVE  Plus(p, n) = IF p + n < 2 * RobEntries THEN p + n ELSE p + n - 2 * RobEntries
  <2>1. p + n \in -(2 * RobEntries) .. 4 * (2 * RobEntries) - 1
    OBVIOUS
  <2>2. p + n >= 0 /\ p + n < 2 * (2 * RobEntries)
    OBVIOUS
  <2> QED BY <1>2, <2>1, <2>2 DEF Plus
<1>4. ASSUME head \in Ptrs, tail \in Ptrs
      PROVE  Count = IF head <= tail THEN tail - head ELSE tail - head + 2 * RobEntries
  <2>1. tail - head \in -(2 * RobEntries) .. 4 * (2 * RobEntries) - 1
    BY <1>4
  <2>2. tail - head < 2 * RobEntries
    BY <1>4
  <2> QED BY <1>2, <1>4, <2>1, <2>2 DEF Count
<1> QED BY <1>1, <1>3, <1>4

(* The pointers and slots stay in the ranges of their registers. *)
LEMMA PointerTypes ==
    /\ \A p \in Ptrs : Slot(p) \in Slots
    /\ \A p \in Ptrs, n \in 0 .. RobEntries + 1 : Plus(p, n) \in Ptrs
    /\ head \in Ptrs /\ tail \in Ptrs => Count \in 0 .. 2 * RobEntries - 1
BY Pointers, SizeAssumption DEF Ptrs, Slots

(* Within one turn of the ring, different offsets are different slots. *)
LEMMA SlotsDiffer ==
    ASSUME NEW p \in Ptrs, NEW i \in 0 .. RobEntries + 1, NEW j \in 0 .. RobEntries + 1,
           i < j, j < i + RobEntries
    PROVE  Slot(Plus(p, i)) # Slot(Plus(p, j))
<1>1. Plus(p, i) \in Ptrs /\ Plus(p, j) \in Ptrs
  BY PointerTypes
<1>2. Slot(Plus(p, i)) = IF Plus(p, i) < RobEntries THEN Plus(p, i) ELSE Plus(p, i) - RobEntries
  BY <1>1, Pointers
<1>3. Slot(Plus(p, j)) = IF Plus(p, j) < RobEntries THEN Plus(p, j) ELSE Plus(p, j) - RobEntries
  BY <1>1, Pointers
<1>4. Plus(p, i) = IF p + i < 2 * RobEntries THEN p + i ELSE p + i - 2 * RobEntries
  BY Pointers
<1>5. Plus(p, j) = IF p + j < 2 * RobEntries THEN p + j ELSE p + j - 2 * RobEntries
  BY Pointers
<1> HIDE DEF Plus, Slot
<1> QED BY <1>1, <1>2, <1>3, <1>4, <1>5, SizeAssumption DEF Ptrs

(* What the full and empty tests of the pointers say of the window. *)
LEMMA Occupancy ==
    ASSUME head \in Ptrs, tail \in Ptrs, Count <= RobEntries
    PROVE  /\ Empty <=> Count = 0
           /\ NextEmpty <=> Count = 1
           /\ Full <=> Count = RobEntries
           /\ ~Full => (NextFull <=> Count + 1 = RobEntries)
<1> USE SizeAssumption DEF Ptrs
<1>1. Count = IF head <= tail THEN tail - head ELSE tail - head + 2 * RobEntries
  BY Pointers
<1>2. /\ Plus(head, 1) = IF head + 1 < 2 * RobEntries THEN head + 1 ELSE head + 1 - 2 * RobEntries
      /\ Plus(tail, 1) = IF tail + 1 < 2 * RobEntries THEN tail + 1 ELSE tail + 1 - 2 * RobEntries
      /\ Plus(tail, 1) \in Ptrs
  <2>1. 1 \in 0 .. RobEntries + 1
    OBVIOUS
  <2> QED BY <2>1, Pointers, PointerTypes
<1>3. /\ Slot(head) = IF head < RobEntries THEN head ELSE head - RobEntries
      /\ Slot(tail) = IF tail < RobEntries THEN tail ELSE tail - RobEntries
      /\ Slot(Plus(tail, 1)) = IF Plus(tail, 1) < RobEntries THEN Plus(tail, 1)
                               ELSE Plus(tail, 1) - RobEntries
  BY <1>2, Pointers
<1>4. Empty <=> Count = 0
  BY <1>1 DEF Empty
<1>5. NextEmpty <=> Count = 1
  BY <1>1, <1>2 DEF NextEmpty
<1>6. Full <=> Count = RobEntries
  BY <1>1, <1>3 DEF Full
<1>7. ~Full => (NextFull <=> Count + 1 = RobEntries)
  BY <1>1, <1>2, <1>3, <1>6 DEF NextFull
<1> QED BY <1>4, <1>5, <1>6, <1>7

-----------------------------------------------------------------------------
\* What a cycle may allocate: at most two uops.
Batch(al) == al \in Seq(Uops \cup {NoUop}) /\ Len(al) <= 2

(* What is allocated in a cycle, as a sequence of uops. *)
LEMMA BatchFacts ==
    ASSUME NEW al, Batch(al)
    PROVE  /\ Len(al) \in 0 .. 2
           /\ DOMAIN al = 1 .. Len(al)
           /\ \A n \in DOMAIN al : al[n] \in Uops \cup {NoUop}
<1> DEFINE S == Uops \cup {NoUop}
<1>1. al \in Seq(S) /\ Len(al) <= 2
  BY DEF Batch
<1> HIDE DEF S
<1>2. Len(al) \in Nat
  BY <1>1
<1>3. DOMAIN al = 1 .. Len(al)
  BY <1>1
<1>4. ASSUME NEW n \in 1 .. Len(al)
      PROVE  al[n] \in S
  BY <1>1
<1> QED BY <1>1, <1>2, <1>3, <1>4 DEF S

(* The window moves by what retires and grows by what is allocated. *)
LEMMA PointersMove ==
    ASSUME head \in Ptrs, tail \in Ptrs, NEW ret \in 0 .. 2, NEW k \in 0 .. 2,
           ret <= Count, Count + k <= RobEntries,
           head' = Plus(head, ret), tail' = Plus(tail, k)
    PROVE  /\ head' \in Ptrs /\ tail' \in Ptrs
           /\ Count' = Count - ret + k
           /\ \A i \in 0 .. RobEntries : i + ret <= RobEntries + 1 => Plus(head', i) = Plus(head, i + ret)
           /\ \A n \in 0 .. 1 : Plus(tail, n) = Plus(head, Count + n)
<1> USE SizeAssumption DEF Ptrs
<1>1. Count = IF head <= tail THEN tail - head ELSE tail - head + 2 * RobEntries
  BY Pointers
<1>2. ret \in 0 .. RobEntries + 1 /\ k \in 0 .. RobEntries + 1
  OBVIOUS
<1>3. /\ head' = IF head + ret < 2 * RobEntries THEN head + ret ELSE head + ret - 2 * RobEntries
      /\ tail' = IF tail + k < 2 * RobEntries THEN tail + k ELSE tail + k - 2 * RobEntries
      /\ head' \in Ptrs /\ tail' \in Ptrs
  BY <1>2, Pointers, PointerTypes
<1>4. Count' = IF head' <= tail' THEN tail' - head' ELSE tail' - head' + 2 * RobEntries
  <2>1. tail' - head' \in -(2 * RobEntries) .. 4 * (2 * RobEntries) - 1
    BY <1>3
  <2>2. tail' - head' < 2 * RobEntries /\ 2 * RobEntries \in Nat \ {0}
    BY <1>3
  <2> QED BY <1>3, <2>1, <2>2 DEF Count
<1>5. Count' = Count - ret + k
  BY <1>1, <1>3, <1>4
<1>6. ASSUME NEW i \in 0 .. RobEntries, i + ret <= RobEntries + 1
      PROVE  Plus(head', i) = Plus(head, i + ret)
  <2>1. i \in 0 .. RobEntries + 1 /\ i + ret \in 0 .. RobEntries + 1
    BY <1>6
  <2>2. Plus(head', i) = IF head' + i < 2 * RobEntries THEN head' + i ELSE head' + i - 2 * RobEntries
    BY <1>3, <2>1, Pointers
  <2>3. Plus(head, i + ret) = IF head + (i + ret) < 2 * RobEntries THEN head + (i + ret)
                              ELSE head + (i + ret) - 2 * RobEntries
    BY <2>1, Pointers
  <2> QED BY <1>3, <2>2, <2>3
<1>7. ASSUME NEW n \in 0 .. 1
      PROVE  Plus(tail, n) = Plus(head, Count + n)
  <2>1. n \in 0 .. RobEntries + 1 /\ Count + n \in 0 .. RobEntries + 1
    BY <1>1
  <2>2. Plus(tail, n) = IF tail + n < 2 * RobEntries THEN tail + n ELSE tail + n - 2 * RobEntries
    BY <2>1, Pointers
  <2>3. Plus(head, Count + n) = IF head + (Count + n) < 2 * RobEntries THEN head + (Count + n)
                                ELSE head + (Count + n) - 2 * RobEntries
    BY <2>1, Pointers
  <2> QED BY <1>1, <2>2, <2>3
<1> QED BY <1>3, <1>5, <1>6, <1>7

\* Position j of the window keeps its uop and its registers in position i.
Kept(i, j) ==
    /\ EntryAt(i)'.uop = EntryAt(j).uop
    /\ EntryAt(i)'.pdst = EntryAt(j).pdst
    /\ EntryAt(i)'.old = EntryAt(j).old

(* What RobStep does to the window: entries move towards the head and keep
   what they were allocated with; new ones follow them (t_rob_tail). *)
LEMMA WindowStep ==
    ASSUME TypeOK, NEW al, Batch(al), NEW ret \in 0 .. 2, NEW x, RobStep(al, ret, x),
           ret <= Count, Count + Len(al) <= RobEntries
    PROVE  /\ Count' = Count - ret + Len(al)
           /\ \A i \in 0 .. Count' - 1 :
                 /\ i + ret < Count => Kept(i, i + ret)
                 /\ i + ret >= Count => EntryAt(i)' = NewEntry(al, i + ret - Count + 1)
           /\ RobSlots' = (RobSlots \ Gone(ret)) \cup NewSlots(al)
           /\ RobSlots \cap NewSlots(al) = {}
<1> USE SizeAssumption
<1>1. head \in Ptrs /\ tail \in Ptrs /\ Count <= RobEntries /\ Len(al) \in 0 .. 2 /\ DOMAIN al = 1 .. Len(al)
  BY BatchFacts DEF TypeOK
<1>2. head' = Plus(head, ret) /\ tail' = Plus(tail, Len(al))
  BY DEF RobStep
<1>3. Count \in 0 .. RobEntries
  BY <1>1, PointerTypes
<1>4. /\ head' \in Ptrs /\ tail' \in Ptrs
      /\ Count' = Count - ret + Len(al)
      /\ \A i \in 0 .. RobEntries : i + ret <= RobEntries + 1 => Plus(head', i) = Plus(head, i + ret)
      /\ \A n \in 0 .. 1 : Plus(tail, n) = Plus(head, Count + n)
  <2> HIDE DEF Count
  <2> QED BY <1>1, <1>2, PointersMove
<1> DEFINE At(j) == Slot(Plus(head, j))
<1>5. \A i, j \in 0 .. RobEntries + 1 : i < j /\ j < i + RobEntries => At(i) # At(j)
  BY <1>1, SlotsDiffer
<1>6. \A j \in 0 .. RobEntries + 1 : At(j) \in Slots
  BY <1>1, PointerTypes
<1>7. NewSlots(al) = {At(Count + n - 1) : n \in 1 .. Len(al)}
  <2>1. \A n \in 1 .. Len(al) : Plus(tail, n - 1) = Plus(head, Count + n - 1)
    <3> SUFFICES ASSUME NEW n \in 1 .. Len(al)
                 PROVE  Plus(tail, n - 1) = Plus(head, Count + n - 1)
      OBVIOUS
    <3>1. n - 1 \in 0 .. 1 /\ Count + (n - 1) = Count + n - 1
      BY <1>1, <1>3
    <3> QED BY <1>4, <3>1
  <2> QED BY <1>1, <2>1 DEF NewSlots
<1>8. Slot(tail) = At(Count)
  <2>1. Plus(tail, 0) = tail
    BY <1>1, Pointers DEF Ptrs
  <2>2. Plus(tail, 0) = Plus(head, Count)
    BY <1>3, <1>4
  <2> QED BY <2>1, <2>2
<1> HIDE DEF At
<1>9. ASSUME NEW j \in 0 .. Count - 1
      PROVE  At(j) \notin NewSlots(al) /\ (j >= ret => At(j) \notin Gone(ret))
  <2>1. At(j) \notin NewSlots(al)
    <3> SUFFICES ASSUME NEW n \in 1 .. Len(al) PROVE At(j) # At(Count + n - 1)
      BY <1>7
    <3>1. j \in 0 .. RobEntries + 1 /\ Count + n - 1 \in 0 .. RobEntries + 1
          /\ j < Count + n - 1 /\ Count + n - 1 < j + RobEntries
      BY <1>1, <1>3
    <3> QED BY <1>5, <3>1
  <2>2. ASSUME j >= ret, NEW i \in 0 .. ret - 1
        PROVE  At(j) # At(i)
    BY <1>3, <1>5, <2>2
  <2> QED BY <2>1, <2>2 DEF Gone, At
<1>10. \A i \in 0 .. Count' - 1 : EntryAt(i)' = rob'[At(i + ret)]
  <2> SUFFICES ASSUME NEW i \in 0 .. Count' - 1 PROVE EntryAt(i)' = rob'[At(i + ret)]
    OBVIOUS
  <2>1. i \in 0 .. RobEntries /\ i + ret <= RobEntries + 1
    BY <1>1, <1>3, <1>4
  <2> QED BY <1>4, <2>1 DEF EntryAt, At, Slot
<1>11. ASSUME NEW i \in 0 .. Count' - 1, i + ret < Count
      PROVE  Kept(i, i + ret)
  <2>1. i + ret \in 0 .. Count - 1 /\ i + ret >= ret /\ i + ret \in 0 .. RobEntries + 1
    BY <1>1, <1>3, <1>4, <1>11
  <2>2. At(i + ret) \notin NewSlots(al) /\ At(i + ret) \notin Gone(ret) /\ At(i + ret) \in Slots
    BY <1>6, <1>9, <2>1
  <2>3. rob'[At(i + ret)] = [rob[At(i + ret)] EXCEPT !.faulted = 
            IF At(i + ret) \in x.done /\ At(i + ret) \in RobSlots THEN At(i + ret) \in x.faulted ELSE @]
    BY <2>2 DEF RobStep
  <2>4. rob[At(i + ret)] \in Entries
    BY <2>2 DEF TypeOK
  <2>5. EntryAt(i + ret) = rob[At(i + ret)]
    BY DEF EntryAt, At
  <2> QED BY <1>10, <2>3, <2>4, <2>5 DEF Kept, Entries
<1>12. ASSUME NEW i \in 0 .. Count' - 1, i + ret >= Count
      PROVE  EntryAt(i)' = NewEntry(al, i + ret - Count + 1)
  <2> DEFINE n == i + ret - Count + 1
  <2>1. n \in 1 .. Len(al) /\ At(i + ret) = At(Count + n - 1) /\ i + ret \in 0 .. RobEntries + 1
    BY <1>1, <1>3, <1>4, <1>12
  <2>2. At(i + ret) \in NewSlots(al) /\ At(i + ret) \in Slots
    BY <1>6, <1>7, <2>1
  <2>3. At(i + ret) = Slot(tail) <=> n = 1
    <3>1. CASE n = 1
      <4>1. Count + n - 1 = Count
        BY <1>3, <3>1
      <4> QED BY <1>8, <2>1, <3>1, <4>1
    <3>2. CASE n = 2
      <4>1. Count + n - 1 = Count + 1 /\ Count \in 0 .. RobEntries + 1 /\ Count + 1 \in 0 .. RobEntries + 1
        BY <1>3, <3>2
      <4>2. At(Count) # At(Count + 1)
        BY <1>5, <4>1
      <4> QED BY <1>8, <2>1, <3>2, <4>1, <4>2
    <3> QED BY <1>1, <2>1, <3>1, <3>2
  <2>4. rob'[At(i + ret)] = NewEntry(al, IF At(i + ret) = Slot(tail) THEN 1 ELSE 2)
    BY <2>2 DEF RobStep
  <2>5. n = IF n = 1 THEN 1 ELSE 2
    BY <1>1, <2>1
  <2> HIDE DEF n
  <2>6. EntryAt(i)' = NewEntry(al, n)
    BY <1>10, <2>3, <2>4, <2>5
  <2> QED BY <2>6 DEF n
<1>13. RobSlots = {At(i) : i \in 0 .. Count - 1} /\ RobSlots' = {At(i) : i \in ret .. Count + Len(al) - 1}
  <2>1. RobSlots = {At(i) : i \in 0 .. Count - 1}
    BY DEF RobSlots, At
  <2>2. RobSlots' = {At(i + ret) : i \in 0 .. Count' - 1}
    <3>1. \A i \in 0 .. Count' - 1 : Plus(head', i) = Plus(head, i + ret)
      BY <1>1, <1>3, <1>4
    <3> QED BY <3>1 DEF RobSlots, At, Slot, Plus
  <2>3. \A i \in 0 .. Count' - 1 : i + ret \in ret .. Count + Len(al) - 1
    BY <1>1, <1>3, <1>4
  <2>4. \A i \in ret .. Count + Len(al) - 1 : i - ret \in 0 .. Count' - 1 /\ (i - ret) + ret = i
    BY <1>1, <1>3, <1>4
  <2>5. {At(i + ret) : i \in 0 .. Count' - 1} = {At(i) : i \in ret .. Count + Len(al) - 1}
    BY <2>3, <2>4
  <2> QED BY <2>1, <2>2, <2>5
<1>14. RobSlots \cap NewSlots(al) = {}
  BY <1>9, <1>13
<1>15. RobSlots' = (RobSlots \ Gone(ret)) \cup NewSlots(al)
  <2>1. Gone(ret) = {At(i) : i \in 0 .. ret - 1}
    BY DEF Gone, At
  <2>2. \A n \in 1 .. Len(al) : Count + n - 1 \in ret .. Count + Len(al) - 1
    BY <1>1, <1>3
  <2>3. \A i \in ret .. Count + Len(al) - 1 :
           i \in 0 .. Count - 1 \/ (i - Count + 1 \in 1 .. Len(al) /\ Count + (i - Count + 1) - 1 = i)
    BY <1>1, <1>3
  <2>4. \A i \in 0 .. Count - 1 : i \in ret .. Count + Len(al) - 1 \/ i \in 0 .. ret - 1
    BY <1>1, <1>3
  <2>5. RobSlots' \subseteq (RobSlots \ Gone(ret)) \cup NewSlots(al)
    <3> SUFFICES ASSUME NEW i \in ret .. Count + Len(al) - 1
                 PROVE  At(i) \in (RobSlots \ Gone(ret)) \cup NewSlots(al)
      BY <1>13
    <3>1. CASE i \in 0 .. Count - 1
      BY <1>9, <1>13, <3>1
    <3>2. CASE i - Count + 1 \in 1 .. Len(al) /\ Count + (i - Count + 1) - 1 = i
      BY <1>7, <3>2
    <3> QED BY <2>3, <3>1, <3>2
  <2>6. RobSlots \ Gone(ret) \subseteq RobSlots'
    BY <1>13, <2>1, <2>4
  <2>7. NewSlots(al) \subseteq RobSlots'
    BY <1>7, <1>13, <2>2
  <2> QED BY <2>5, <2>6, <2>7
<1> QED BY <1>4, <1>11, <1>12, <1>14, <1>15

-----------------------------------------------------------------------------
(* A bounded set of naturals that is not empty has a greatest element, and
   CHOOSE finds it. *)
LEMMA Greatest ==
    ASSUME NEW n \in Nat, NEW s \in SUBSET (0 .. n), s # {}
    PROVE  LET m == CHOOSE i \in s : \A j \in s : j <= i
           IN  m \in s /\ \A j \in s : j <= m
<1> DEFINE Above(i) == i .. n
           T == {Above(i) : i \in s}
<1>1. T \subseteq FiniteSubsetsOf(0 .. n)
  <2> SUFFICES ASSUME NEW i \in s
               PROVE  Above(i) \in FiniteSubsetsOf(0 .. n)
    OBVIOUS
  <2>1. Above(i) \subseteq 0 .. n /\ IsFiniteSet(Above(i))
    BY FS_Interval
  <2> QED BY <2>1 DEF FiniteSubsetsOf
<1>2. T # {}
  OBVIOUS
<1>3. PICK t \in T : \A y \in T : <<y, t>> \notin StrictSubsetOrdering(0 .. n)
  <2> HIDE DEF T
  <2> QED BY <1>1, <1>2, FS_StrictSubsetOrderingWellFounded, WFMin
<1>4. PICK i \in s : t = Above(i)
  OBVIOUS
<1>5. ASSUME NEW j \in s, j > i
      PROVE  FALSE
  <2>1. Above(j) \subseteq Above(i) /\ i \in Above(i) /\ i \notin Above(j)
    BY <1>5
  <2>2. Above(j) \in SUBSET (0 .. n) /\ Above(i) \in SUBSET (0 .. n)
    OBVIOUS
  <2>3. <<Above(j), Above(i)>> \in StrictSubsetOrdering(0 .. n)
    BY <2>1, <2>2 DEF StrictSubsetOrdering
  <2> QED BY <1>3, <1>4, <2>3
<1>6. \A j \in s : j <= i
  BY <1>5
<1> QED BY <1>4, <1>6

(* A set of window positions that is not empty has a youngest one. *)
LEMMA GreatestExists ==
    ASSUME NEW n \in Nat, NEW s, s \subseteq 0 .. n - 1, s # {}
    PROVE  \E m \in s : \A j \in s : j <= m
<1>1. s \in SUBSET (0 .. n)
  OBVIOUS
<1> QED BY <1>1, Greatest

(* ... and an oldest one. *)
LEMMA LeastExists ==
    ASSUME NEW n \in Nat, NEW s, s \subseteq 0 .. n - 1, s # {}
    PROVE  \E m \in s : \A j \in s : m <= j
<1> DEFINE t == {n - 1 - i : i \in s}
<1>1. t \subseteq 0 .. n - 1 /\ t # {}
  <2>1. \A i \in s : n - 1 - i \in 0 .. n - 1
    <3> TAKE i \in s
    <3>1. i \in 0 .. n - 1
      OBVIOUS
    <3> QED BY <3>1
  <2> QED BY <2>1
<1>2. PICK g \in t : \A j \in t : j <= g
  <2> HIDE DEF t
  <2> QED BY <1>1, GreatestExists
<1>3. PICK m \in s : g = n - 1 - m
  OBVIOUS
<1>4. \A j \in s : m <= j
  BY <1>2, <1>3
<1> QED BY <1>4

(* The greatest element is the only one that all others are below. *)
LEMMA GreatestIs ==
    ASSUME NEW s \in SUBSET Nat, NEW m \in s, \A j \in s : j <= m
    PROVE  (CHOOSE i \in s : \A j \in s : j <= i) = m
<1>1. \A i \in s : (\A j \in s : j <= i) => i = m
  OBVIOUS
<1> QED BY <1>1

\* The writers of l among the n oldest entries.
WritersOf(l, n) == {i \in WritersUpTo(n) : EntryAt(i).uop.dst = l}

(* MapAfter is the register of the youngest writer, or the committed one. *)
LEMMA MapAfterDef ==
    ASSUME NEW l, NEW n \in Nat
    PROVE  /\ WritersOf(l, n) \subseteq 0 .. n - 1
           /\ WritersOf(l, n) = {} => MapAfter(l, n) = rrat[l]
           /\ \A m \in WritersOf(l, n) :
                 (\A j \in WritersOf(l, n) : j <= m) => MapAfter(l, n) = EntryAt(m).pdst
<1>1. WritersOf(l, n) \subseteq 0 .. n - 1
  BY DEF WritersOf, WritersUpTo
<1>2. MapAfter(l, n) = IF WritersOf(l, n) = {} THEN rrat[l]
        ELSE EntryAt(CHOOSE i \in WritersOf(l, n) : \A j \in WritersOf(l, n) : j <= i).pdst
  BY DEF MapAfter, WritersOf
<1>3. \A m \in WritersOf(l, n) : (\A j \in WritersOf(l, n) : j <= m) =>
         (CHOOSE i \in WritersOf(l, n) : \A j \in WritersOf(l, n) : j <= i) = m
  BY <1>1, GreatestIs
<1> QED BY <1>1, <1>2, <1>3

(* Two prefixes of the window with the same writers give the same map. *)
LEMMA SameWriters ==
    ASSUME NEW l, NEW a \in Nat, NEW b \in Nat, WritersOf(l, a) = WritersOf(l, b)
    PROVE  MapAfter(l, a) = MapAfter(l, b)
<1>1. CASE WritersOf(l, a) = {}
  BY <1>1, MapAfterDef
<1>2. CASE WritersOf(l, a) # {}
  <2>1. PICK m \in WritersOf(l, a) : \A j \in WritersOf(l, a) : j <= m
    BY <1>2, MapAfterDef, GreatestExists
  <2> QED BY <2>1, MapAfterDef
<1> QED BY <1>1, <1>2

(* MapAfterDef, of the next state. *)
LEMMA MapAfterDefPrime ==
    ASSUME NEW l, NEW n \in Nat
    PROVE  /\ WritersOf(l, n)' \subseteq 0 .. n - 1
           /\ WritersOf(l, n)' = {} => MapAfter(l, n)' = rrat'[l]
           /\ \A m \in WritersOf(l, n)' :
                 (\A j \in WritersOf(l, n)' : j <= m) => MapAfter(l, n)' = EntryAt(m)'.pdst
<1>1. WritersOf(l, n)' \subseteq 0 .. n - 1
  BY DEF WritersOf, WritersUpTo
<1>2. /\ WritersOf(l, n)' = {} => MapAfter(l, n)' = rrat'[l]
      /\ WritersOf(l, n)' # {} =>
            \E m : /\ m = CHOOSE i \in WritersOf(l, n)' : \A j \in WritersOf(l, n)' : j <= i
                  /\ MapAfter(l, n)' = EntryAt(m)'.pdst
  BY DEF MapAfter, WritersOf
<1>3. \A m \in WritersOf(l, n)' : (\A j \in WritersOf(l, n)' : j <= m) =>
         (CHOOSE i \in WritersOf(l, n)' : \A j \in WritersOf(l, n)' : j <= i) = m
  BY <1>1, GreatestIs
<1> QED BY <1>1, <1>2, <1>3

(* The map along the window, one entry at a time. *)
LEMMA MapGrows ==
    ASSUME NEW l, NEW n \in Nat
    PROVE  MapAfter(l, n + 1) =
              IF Writes(EntryAt(n).uop) /\ EntryAt(n).uop.dst = l THEN EntryAt(n).pdst
              ELSE MapAfter(l, n)
<1> DEFINE w == WritersOf(l, n)  v == WritersOf(l, n + 1)
<1>1. CASE Writes(EntryAt(n).uop) /\ EntryAt(n).uop.dst = l
  <2>1. n \in v /\ v \subseteq 0 .. (n + 1) - 1
    BY <1>1, MapAfterDef DEF WritersOf, WritersUpTo
  <2>2. \A j \in v : j <= n
    BY <2>1
  <2> QED BY <1>1, <2>1, <2>2, MapAfterDef
<1>2. CASE ~(Writes(EntryAt(n).uop) /\ EntryAt(n).uop.dst = l)
  <2>1. v = w
    BY <1>2 DEF WritersOf, WritersUpTo
  <2> QED BY <1>2, <2>1, SameWriters
<1> QED BY <1>1, <1>2

(* MapGrows, of the next state. *)
LEMMA MapGrowsPrime ==
    ASSUME NEW l, NEW n \in Nat
    PROVE  MapAfter(l, n + 1)' =
              IF Writes(EntryAt(n)'.uop) /\ EntryAt(n)'.uop.dst = l THEN EntryAt(n)'.pdst
              ELSE MapAfter(l, n)'
<1> DEFINE w == WritersOf(l, n)'  v == WritersOf(l, n + 1)'
<1>1. CASE Writes(EntryAt(n)'.uop) /\ EntryAt(n)'.uop.dst = l
  <2>1. n \in v /\ v \subseteq 0 .. (n + 1) - 1
    BY <1>1, MapAfterDefPrime DEF WritersOf, WritersUpTo, Writes
  <2>2. \A j \in v : j <= n
    BY <2>1
  <2> QED BY <1>1, <2>1, <2>2, MapAfterDefPrime
<1>2. CASE ~(Writes(EntryAt(n)'.uop) /\ EntryAt(n)'.uop.dst = l)
  <2>1. v = w
    BY <1>2 DEF WritersOf, WritersUpTo, Writes
  <2>2. CASE w = {}
    BY <1>2, <2>1, <2>2, MapAfterDefPrime
  <2>3. CASE w # {}
    <3>1. PICK m \in w : \A j \in w : j <= m
      BY <2>3, MapAfterDefPrime, GreatestExists
    <3>2. MapAfter(l, n)' = EntryAt(m)'.pdst
      BY <3>1, MapAfterDefPrime
    <3>3. MapAfter(l, n + 1)' = EntryAt(m)'.pdst
      BY <2>1, <3>1, MapAfterDefPrime
    <3> QED BY <1>2, <3>2, <3>3
  <2> QED BY <2>2, <2>3
<1> QED BY <1>1, <1>2

(* When the ret oldest entries retire and their mappings are committed, the map
   after each of the others is what it was. *)
LEMMA MapMoves ==
    ASSUME NEW l, NEW ret \in Nat, NEW n \in Nat, ret <= n,
           \A i \in 0 .. n - ret - 1 : Kept(i, i + ret),
           rrat'[l] = MapAfter(l, ret)
    PROVE  MapAfter(l, n - ret)' = MapAfter(l, n)
<1> DEFINE w == WritersOf(l, n)  c == WritersOf(l, ret)  v == WritersOf(l, n - ret)'
<1>1. n - ret \in Nat
  OBVIOUS
<1>2. \A i \in 0 .. n - ret - 1 : i \in v <=> i + ret \in w
  <2> SUFFICES ASSUME NEW i \in 0 .. n - ret - 1
               PROVE  i \in v <=> i + ret \in w
    OBVIOUS
  <2>1. EntryAt(i)'.uop = EntryAt(i + ret).uop /\ i + ret \in 0 .. n - 1
    BY DEF Kept
  <2> QED BY <2>1 DEF WritersOf, WritersUpTo, Writes
<1>3. w \subseteq 0 .. n - 1 /\ c \subseteq 0 .. ret - 1 /\ v \subseteq 0 .. n - ret - 1
  BY <1>1, MapAfterDef, MapAfterDefPrime
<1>4. c = w \cap (0 .. ret - 1)
  BY DEF WritersOf, WritersUpTo
<1>5. CASE v # {}
  <2>1. PICK m \in v : \A j \in v : j <= m
    BY <1>1, <1>3, <1>5, GreatestExists
  <2>2. MapAfter(l, n - ret)' = EntryAt(m)'.pdst
    BY <1>1, <2>1, MapAfterDefPrime
  <2>3. m \in 0 .. n - ret - 1 /\ m + ret \in w
    BY <1>2, <1>3, <2>1
  <2>4. ASSUME NEW j \in w
        PROVE  j <= m + ret
    <3>1. CASE j >= ret
      <4>1. j - ret \in 0 .. n - ret - 1 /\ (j - ret) + ret = j
        BY <1>3, <3>1
      <4>2. j - ret \in v
        BY <1>2, <4>1
      <4> QED BY <1>3, <2>1, <2>3, <4>2
    <3> QED BY <1>3, <2>3, <3>1
  <2>5. MapAfter(l, n) = EntryAt(m + ret).pdst
    BY <2>3, <2>4, MapAfterDef
  <2> QED BY <2>2, <2>3, <2>5 DEF Kept
<1>6. CASE v = {}
  <2>1. MapAfter(l, n - ret)' = MapAfter(l, ret)
    BY <1>1, <1>6, MapAfterDefPrime
  <2>2. w \subseteq 0 .. ret - 1
    <3> SUFFICES ASSUME NEW j \in w, j >= ret PROVE FALSE
      BY <1>3
    <3>1. j - ret \in 0 .. n - ret - 1 /\ (j - ret) + ret = j
      BY <1>3
    <3> QED BY <1>2, <1>6, <3>1
  <2>3. w = c
    BY <1>4, <2>2
  <2>4. MapAfter(l, n) = MapAfter(l, ret)
    BY <2>3, SameWriters
  <2> QED BY <2>1, <2>4
<1> QED BY <1>5, <1>6

-----------------------------------------------------------------------------
(* What the fields of a uop range over. *)
LEMMA UopTypes ==
    ASSUME NEW u \in Uops \cup {NoUop}
    PROVE  u \in [op : Ops, dst : Lregs] /\ u.op \in Ops /\ u.dst \in Lregs
BY SizeAssumption, InputAssumption DEF NoUop, Ops, Lregs

(* What the fields of an entry range over. *)
LEMMA EntryTypes ==
    ASSUME TypeOK, NEW i \in 0 .. RobEntries + 1
    PROVE  /\ EntryAt(i) \in Entries
           /\ EntryAt(i).uop \in Uops \cup {NoUop} /\ EntryAt(i).uop.dst \in Lregs
           /\ EntryAt(i).pdst \in Pregs /\ EntryAt(i).old \in Pregs
<1>1. head \in Ptrs /\ rob \in [Slots -> Entries]
  BY DEF TypeOK
<1>2. Slot(Plus(head, i)) \in Slots
  BY <1>1, PointerTypes
<1>3. EntryAt(i) \in Entries
  BY <1>1, <1>2 DEF EntryAt
<1>4. EntryAt(i).uop \in Uops \cup {NoUop} /\ EntryAt(i).pdst \in Pregs /\ EntryAt(i).old \in Pregs
  BY <1>3 DEF Entries
<1> QED BY <1>3, <1>4, UopTypes

(* The two oldest positions are those that the retirement logic reads
   (t_rob_head, t_rob_next_head). *)
LEMMA HeadEntries ==
    ASSUME head \in Ptrs
    PROVE  EntryAt(0) = RobHead /\ EntryAt(1) = RobNextHead
<1>1. Plus(head, 0) = head
  BY Pointers, SizeAssumption DEF Ptrs
<1> QED BY <1>1 DEF EntryAt, RobHead, RobNextHead

(* The map along the first two entries. *)
LEMMA MapAfterFirst ==
    ASSUME head \in Ptrs, NEW l
    PROVE  /\ MapAfter(l, 0) = rrat[l]
           /\ MapAfter(l, 1) = IF Writes(RobHead.uop) /\ RobHead.uop.dst = l THEN RobHead.pdst
                               ELSE rrat[l]
           /\ MapAfter(l, 2) = IF Writes(RobNextHead.uop) /\ RobNextHead.uop.dst = l THEN RobNextHead.pdst
                               ELSE MapAfter(l, 1)
<1>1. MapAfter(l, 0) = rrat[l]
  BY MapAfterDef
<1>2. MapAfter(l, 0 + 1) = IF Writes(EntryAt(0).uop) /\ EntryAt(0).uop.dst = l THEN EntryAt(0).pdst
                           ELSE MapAfter(l, 0)
  BY MapGrows
<1>3. MapAfter(l, 1 + 1) = IF Writes(EntryAt(1).uop) /\ EntryAt(1).uop.dst = l THEN EntryAt(1).pdst
                           ELSE MapAfter(l, 1)
  BY MapGrows
<1> QED BY <1>1, <1>2, <1>3, HeadEntries

\* The retirement map takes over the mappings of the ret oldest entries.
Committed(ret) == \A l \in Lregs : rrat'[l] = MapAfter(l, ret)

(* What t_retire and t_retire_two commit, in this order (n_retire_rat). *)
LEMMA RetireCommits ==
    ASSUME TypeOK, NEW al, NEW ret \in 0 .. 2, RegStep(al, ret)
    PROVE  Committed(ret)
<1> SUFFICES ASSUME NEW l \in Lregs PROVE rrat'[l] = MapAfter(l, ret)
  BY DEF Committed
<1> DEFINE h == Writes(RobHead.uop) /\ RobHead.uop.dst = l
           n == Writes(RobNextHead.uop) /\ RobNextHead.uop.dst = l
<1>1. head \in Ptrs
  BY DEF TypeOK
<1>2. rrat'[l] = IF ret = 2 /\ n THEN RobNextHead.pdst
                 ELSE IF ret >= 1 /\ h THEN RobHead.pdst ELSE rrat[l]
  <2>1. rrat \in [Lregs -> Pregs]
    BY DEF TypeOK
  <2> HIDE DEF RobHead, RobNextHead
  <2>2. CommitMap(RobHead, rrat)[l] = IF h THEN RobHead.pdst ELSE rrat[l]
    BY <2>1 DEF CommitMap
  <2>3. CommitMap(RobNextHead, CommitMap(RobHead, rrat))[l] =
           IF n THEN RobNextHead.pdst ELSE CommitMap(RobHead, rrat)[l]
    BY <2>1 DEF CommitMap
  <2> HIDE DEF h, n
  <2>4. rrat' = IF ret = 0 THEN rrat ELSE IF ret = 1 THEN CommitMap(RobHead, rrat)
                ELSE CommitMap(RobNextHead, CommitMap(RobHead, rrat))
    BY DEF RegStep, Retirees
  <2> QED BY <2>2, <2>3, <2>4
<1>3. CASE ret = 0
  BY <1>1, <1>2, <1>3, MapAfterFirst
<1>4. CASE ret = 1
  BY <1>1, <1>2, <1>4, MapAfterFirst
<1>5. CASE ret = 2
  BY <1>1, <1>2, <1>5, MapAfterFirst
<1> QED BY <1>3, <1>4, <1>5

(* The priority encoders over the two banks (t_prf_ffs): a free register of the
   bank, if there is one. *)
LEMMA PrfEntryFree ==
    ASSUME free \subseteq Pregs, NEW n \in {1, 2}
    PROVE  /\ PrfEntry(n) \in Pregs
           /\ free \cap Bank(n) # {} => PrfEntry(n) \in free \cap Bank(n)
           /\ free \cap Bank(n) = {} => PrfEntry(n) = 0
<1> DEFINE s == free \cap Bank(n)
<1>1. 0 \in Pregs
  BY SizeAssumption DEF Pregs
<1>2. CASE s = {}
  BY <1>1, <1>2 DEF PrfEntry
<1>3. CASE s # {}
  <2>1. s \subseteq 0 .. NumPregs - 1 /\ NumPregs \in Nat
    BY SizeAssumption DEF Pregs
  <2>2. \E p \in s : \A q \in s : q <= p
    BY <1>3, <2>1, GreatestExists
  <2>3. PrfEntry(n) \in s
    BY <1>3, <2>2 DEF PrfEntry
  <2> QED BY <1>3, <2>3
<1> QED BY <1>2, <1>3

(* Renaming (t_alloc_uop, n_alloc_rat): the allocation map stays the retirement
   map with the window's writers applied, and every entry records what it
   superseded. *)
LEMMA RenameStep ==
    ASSUME TypeOK, MapTracksBuffer, NEW al, Batch(al), NEW ret \in 0 .. 2, NEW x,
           RobStep(al, ret, x), arat' = NewMap(al), Committed(ret),
           ret <= Count, Count + Len(al) <= RobEntries
    PROVE  MapTracksBuffer'
<1>0. Count \in 0 .. RobEntries
  BY PointerTypes DEF TypeOK
<1> PICK c \in Nat : c = Count - ret
  BY <1>0
<1>1. /\ Count \in 0 .. RobEntries /\ Len(al) \in 0 .. 2 /\ Count' = c + Len(al)
      /\ DOMAIN al = 1 .. Len(al)
  BY <1>0, WindowStep, BatchFacts
<1>2. \A i \in 0 .. Count' - 1 :
         /\ i + ret < Count => Kept(i, i + ret)
         /\ i + ret >= Count => EntryAt(i)' = NewEntry(al, i + ret - Count + 1)
  BY WindowStep
<1>3. ASSUME NEW l \in Lregs, NEW n \in ret .. Count
      PROVE  MapAfter(l, n - ret)' = MapAfter(l, n)
  <2>1. \A i \in 0 .. n - ret - 1 : Kept(i, i + ret)
    BY <1>1, <1>2
  <2>2. rrat'[l] = MapAfter(l, ret)
    BY DEF Committed
  <2> QED BY <1>1, <2>1, <2>2, MapMoves
<1>4. \A l \in Lregs : MapAfter(l, c)' = arat[l]
  <2>1. Count \in ret .. Count
    BY <1>1
  <2> QED BY <1>3, <2>1 DEF MapTracksBuffer
<1>5. Len(al) >= 1 => EntryAt(c)' = NewEntry(al, 1)
  <2>1. Len(al) >= 1 => c \in 0 .. Count' - 1 /\ c + ret >= Count /\ c + ret - Count + 1 = 1
    BY <1>1
  <2> QED BY <1>2, <2>1
<1>6. Len(al) = 2 => EntryAt(c + 1)' = NewEntry(al, 2)
  <2>1. Len(al) = 2 => c + 1 \in 0 .. Count' - 1 /\ (c + 1) + ret >= Count /\ (c + 1) + ret - Count + 1 = 2
    BY <1>1
  <2> QED BY <1>2, <2>1
<1>7. ASSUME NEW l \in Lregs, Len(al) >= 1
      PROVE  MapAfter(l, c + 1)' = IF l # 0 /\ al[1].dst = l THEN PrfEntry(1) ELSE arat[l]
  <2>1. MapAfter(l, c + 1)' = IF Writes(EntryAt(c)'.uop) /\ EntryAt(c)'.uop.dst = l THEN EntryAt(c)'.pdst
                              ELSE MapAfter(l, c)'
    BY <1>1, MapGrowsPrime
  <2>2. EntryAt(c)'.uop = al[1] /\ (Writes(al[1]) => EntryAt(c)'.pdst = PrfEntry(1))
    BY <1>5, <1>7 DEF NewEntry
  <2> QED BY <1>4, <2>1, <2>2 DEF Writes
<1>8. ASSUME NEW l \in Lregs, Len(al) = 2
      PROVE  MapAfter(l, c + 2)' = IF l # 0 /\ al[2].dst = l THEN PrfEntry(2) ELSE MapAfter(l, c + 1)'
  <2>1. MapAfter(l, (c + 1) + 1)' = IF Writes(EntryAt(c + 1)'.uop) /\ EntryAt(c + 1)'.uop.dst = l THEN EntryAt(c + 1)'.pdst
                              ELSE MapAfter(l, c + 1)'
    BY <1>1, MapGrowsPrime
  <2>2. EntryAt(c + 1)'.uop = al[2] /\ (Writes(al[2]) => EntryAt(c + 1)'.pdst = PrfEntry(2))
    BY <1>6, <1>8 DEF NewEntry
  <2>3. (c + 1) + 1 = c + 2
    BY <1>1
  <2> QED BY <2>1, <2>2, <2>3 DEF Writes
<1>9. ASSUME NEW l \in Lregs
      PROVE  arat'[l] = MapAfter(l, Count)'
  <2>1. arat'[l] = IF Len(al) = 2 /\ l # 0 /\ al[2].dst = l THEN PrfEntry(2)
                   ELSE IF Len(al) >= 1 /\ l # 0 /\ al[1].dst = l THEN PrfEntry(1)
                   ELSE arat[l]
    BY DEF NewMap
  <2>2. MapAfter(l, Count)' = MapAfter(l, c + Len(al))'
    BY <1>1
  <2>3. CASE Len(al) = 0
    BY <1>1, <1>4, <2>1, <2>2, <2>3
  <2>4. CASE Len(al) = 1
    BY <1>7, <2>1, <2>2, <2>4
  <2>5. CASE Len(al) = 2
    BY <1>7, <1>8, <2>1, <2>2, <2>5
  <2> QED BY <1>1, <2>3, <2>4, <2>5
<1>10. ASSUME NEW i \in WritersUpTo(Count)', NEW l, l = EntryAt(i)'.uop.dst
       PROVE  EntryAt(i)'.old = MapAfter(l, i)'
  <2>1. i \in 0 .. Count' - 1 /\ Writes(EntryAt(i)'.uop) /\ l # 0
    BY <1>10 DEF WritersUpTo, Writes
  <2>2. CASE i + ret < Count
    <3>1. Kept(i, i + ret)
      BY <1>2, <2>1, <2>2
    <3>2. i + ret \in WritersUpTo(Count) /\ i + ret \in ret .. Count /\ (i + ret) - ret = i
      BY <1>1, <2>1, <2>2, <3>1 DEF Kept, WritersUpTo
    <3>3. EntryAt(i + ret).old = MapAfter(l, i + ret)
      BY <1>10, <3>1, <3>2 DEF MapTracksBuffer, Kept
    <3>4. l \in Lregs
      <4>1. i + ret \in 0 .. RobEntries + 1
        BY SizeAssumption, <1>1, <2>1, <2>2
      <4> QED BY <1>10, <3>1, <4>1, EntryTypes DEF Kept
    <3>5. MapAfter(l, i)' = MapAfter(l, i + ret)
      BY <1>3, <3>2, <3>4
    <3> QED BY <3>1, <3>3, <3>5 DEF Kept
  <2>3. CASE i = c /\ Len(al) >= 1
    <3>1. al[1] \in Uops \cup {NoUop} /\ l = al[1].dst
      BY <1>1, <1>5, <1>10, <2>3, BatchFacts DEF NewEntry
    <3>2. EntryAt(i)'.old = arat[l]
      BY <1>5, <2>1, <2>3, <3>1 DEF NewEntry, Writes
    <3> QED BY <1>4, <2>3, <3>1, <3>2, UopTypes
  <2>4. CASE i = c + 1 /\ Len(al) = 2
    <3>1. al[2] \in Uops \cup {NoUop} /\ l = al[2].dst
      BY <1>1, <1>6, <1>10, <2>4, BatchFacts DEF NewEntry
    <3>2. EntryAt(i)'.old = IF al[1].dst = l THEN PrfEntry(1) ELSE arat[l]
      BY <1>6, <2>1, <2>4, <3>1 DEF NewEntry, Writes
    <3> QED BY <1>7, <2>1, <2>4, <3>1, <3>2, UopTypes
  <2>5. i + ret >= Count => (i = c /\ Len(al) >= 1) \/ (i = c + 1 /\ Len(al) = 2)
    <3> PICK n \in Nat : Count = n
      BY SizeAssumption, <1>1
    <3> PICK k \in 0 .. 2 : Len(al) = k
      BY <1>1
    <3>1. i \in Nat /\ i < c + k
      BY <1>1, <2>1
    <3>2. i + ret >= n => i >= c
      BY <3>1
    <3>3. i >= c => (i = c /\ k >= 1) \/ (i = c + 1 /\ k = 2)
      BY <3>1
    <3> QED BY <3>2, <3>3
  <2> QED BY <1>1, <2>1, <2>2, <2>3, <2>4, <2>5
<1>11. ASSUME NEW i \in WritersUpTo(Count)'
       PROVE  (EntryAt(i).old = MapAfter(EntryAt(i).uop.dst, i))'
  BY <1>10
<1> QED BY <1>9, <1>11 DEF MapTracksBuffer

-----------------------------------------------------------------------------
(* The writers of the window after a cycle: those that stay and those that are
   new, each with its register. *)
LEMMA WritersStep ==
    ASSUME TypeOK, NEW al, Batch(al), NEW ret \in 0 .. 2, NEW x, RobStep(al, ret, x),
           ret <= Count, Count + Len(al) <= RobEntries
    PROVE  /\ \A i \in WritersUpTo(Count)' :
                 \/ i + ret \in WritersUpTo(Count) /\ EntryAt(i)'.pdst = EntryAt(i + ret).pdst
                 \/ \E n \in DOMAIN al : /\ i = Count - ret + n - 1 /\ Writes(al[n])
                                        /\ EntryAt(i)'.pdst = PrfEntry(n)
           /\ \A j \in WritersUpTo(Count) : j >= ret =>
                 j - ret \in WritersUpTo(Count)' /\ EntryAt(j - ret)'.pdst = EntryAt(j).pdst
           /\ \A n \in DOMAIN al : Writes(al[n]) =>
                 \E i \in WritersUpTo(Count)' : EntryAt(i)'.pdst = PrfEntry(n)
<1> USE SizeAssumption
<1>1. PICK c \in 0 .. RobEntries : Count = c
  BY PointerTypes DEF TypeOK
<1>2. PICK k \in 0 .. 2 : Len(al) = k
  BY BatchFacts
<1>3. DOMAIN al = 1 .. k /\ Count' = c - ret + k
  BY <1>1, <1>2, BatchFacts, WindowStep
<1>4. \A i \in 0 .. c - ret + k - 1 :
         /\ i + ret < c => Kept(i, i + ret)
         /\ i + ret >= c => EntryAt(i)' = NewEntry(al, i + ret - c + 1)
  BY <1>1, <1>3, WindowStep
<1>5. \A n \in 1 .. k : LET e == NewEntry(al, n)
                       IN  e.uop = al[n] /\ (Writes(al[n]) => e.pdst = PrfEntry(n))
  BY DEF NewEntry
<1>6. /\ WritersUpTo(Count)' = {i \in 0 .. c - ret + k - 1 : Writes(EntryAt(i)'.uop)}
      /\ WritersUpTo(Count) = {i \in 0 .. c - 1 : Writes(EntryAt(i).uop)}
  BY <1>1, <1>3 DEF WritersUpTo, Writes
<1>7. ASSUME NEW i \in WritersUpTo(Count)'
      PROVE  \/ i + ret \in WritersUpTo(Count) /\ EntryAt(i)'.pdst = EntryAt(i + ret).pdst
             \/ \E n \in DOMAIN al : /\ i = Count - ret + n - 1 /\ Writes(al[n])
                                    /\ EntryAt(i)'.pdst = PrfEntry(n)
  <2>1. i \in 0 .. c - ret + k - 1
    BY <1>6
  <2>2. CASE i + ret < c
    <3>1. Kept(i, i + ret) /\ i + ret \in 0 .. c - 1
      BY <1>4, <2>1, <2>2
    <3> QED BY <1>6, <3>1 DEF Kept
  <2>3. CASE i + ret >= c
    <3>1. PICK n \in 1 .. k : n = i + ret - c + 1 /\ i = c - ret + n - 1
      BY <2>1, <2>3
    <3>2. EntryAt(i)' = NewEntry(al, n)
      BY <1>4, <2>1, <2>3, <3>1
    <3>3. Writes(EntryAt(i)'.uop)
      BY <1>6
    <3> QED BY <1>1, <1>3, <1>5, <3>1, <3>2, <3>3
  <2> QED BY <2>1, <2>2, <2>3
<1>8. ASSUME NEW j \in WritersUpTo(Count), j >= ret
      PROVE  j - ret \in WritersUpTo(Count)' /\ EntryAt(j - ret)'.pdst = EntryAt(j).pdst
  <2>1. PICK i \in 0 .. c - ret + k - 1 : i = j - ret /\ i + ret = j /\ i + ret < c
    <3>1. j \in 0 .. c - 1 /\ j - ret \in 0 .. c - ret + k - 1
      BY <1>1, <1>6, <1>8
    <3> DEFINE i == j - ret
    <3>2. i \in 0 .. c - ret + k - 1 /\ i = j - ret /\ i + ret = j /\ i + ret < c
      BY <3>1
    <3> QED BY <3>2
  <2>2. Kept(i, j)
    BY <1>4, <2>1
  <2>3. Writes(EntryAt(i)'.uop)
    BY <1>6, <2>2 DEF Kept
  <2> QED BY <1>6, <2>1, <2>2, <2>3 DEF Kept
<1>9. ASSUME NEW n \in DOMAIN al, Writes(al[n])
      PROVE  \E i \in WritersUpTo(Count)' : EntryAt(i)'.pdst = PrfEntry(n)
  <2>1. PICK i \in 0 .. c - ret + k - 1 : i + ret >= c /\ i + ret - c + 1 = n
    <3>1. n \in 1 .. k
      BY <1>3
    <3> DEFINE i == c - ret + n - 1
    <3>2. i \in 0 .. c - ret + k - 1 /\ i + ret >= c /\ i + ret - c + 1 = n
      BY <1>1, <3>1
    <3> QED BY <3>2
  <2>2. EntryAt(i)' = NewEntry(al, n)
    BY <1>4, <2>1
  <2>3. Writes(EntryAt(i)'.uop) /\ EntryAt(i)'.pdst = PrfEntry(n)
    BY <1>3, <1>5, <1>9, <2>2
  <2> QED BY <1>6, <2>3
<1> QED BY <1>7, <1>8, <1>9
-----------------------------------------------------------------------------
(***************************************************************************)
(* What a cycle does to the two free lists and the two maps, so that no    *)
(* register is lost and none is in two places.                             *)
(***************************************************************************)
(* Committing an entry loses no register: the one it supersedes is freed
   (n_retire_prf_free). *)
LEMMA CommitKeeps ==
    ASSUME NEW m \in [Lregs -> Pregs], NEW f \in SUBSET Pregs, NEW e \in Entries,
           Writes(e.uop) => e.old = m[e.uop.dst],
           Pregs \subseteq f \cup Mapped(m)
    PROVE  /\ CommitMap(e, m) \in [Lregs -> Pregs] /\ CommitFree(e, f) \in SUBSET Pregs
           /\ Pregs \subseteq CommitFree(e, f) \cup Mapped(CommitMap(e, m))
<1> DEFINE d == e.uop.dst  r == CommitMap(e, m)  g == CommitFree(e, f)
<1>1. e.uop \in Uops \cup {NoUop} /\ e.pdst \in Pregs /\ e.old \in Pregs
  BY DEF Entries
<1>2. d \in Lregs
  BY <1>1, UopTypes
<1>3. CASE Writes(e.uop)
  <2>1. r = [m EXCEPT ![d] = e.pdst] /\ g = (f \ {e.pdst}) \cup {m[d]}
    BY <1>3 DEF CommitMap, CommitFree
  <2>2. r[d] = e.pdst /\ \A l \in Lregs : l # d => r[l] = m[l]
    BY <1>2, <2>1
  <2>3. r \in [Lregs -> Pregs] /\ g \in SUBSET Pregs
    BY <1>1, <1>2, <2>1
  <2>4. ASSUME NEW p \in Pregs
        PROVE  p \in g \/ \E l \in Lregs : r[l] = p
    <3>1. p \in f \/ \E l \in Lregs : m[l] = p
      BY DEF Mapped
    <3> QED BY <1>2, <2>1, <2>2, <3>1
  <2> HIDE DEF r, g
  <2>5. Pregs \subseteq g \cup Mapped(r)
    BY <2>4 DEF Mapped
  <2> QED BY <2>3, <2>5 DEF r, g
<1>4. CASE ~Writes(e.uop)
  BY <1>4 DEF CommitMap, CommitFree
<1> QED BY <1>3, <1>4

(* Committing a register that nothing else holds leaves the committed map and
   its free list apart. *)
LEMMA CommitExclusive ==
    ASSUME NEW m \in [Lregs -> Pregs], NEW f \in SUBSET Pregs, NEW e \in Entries,
           Writes(e.uop) => e.old = m[e.uop.dst] /\ e.pdst \notin Mapped(m),
           Injective(m), f \cap Mapped(m) = {}
    PROVE  Injective(CommitMap(e, m)) /\ CommitFree(e, f) \cap Mapped(CommitMap(e, m)) = {}
<1> DEFINE d == e.uop.dst  r == CommitMap(e, m)  g == CommitFree(e, f)
<1>1. d \in Lregs
  BY UopTypes DEF Entries
<1>2. CASE Writes(e.uop)
  <2>1. r = [m EXCEPT ![d] = e.pdst] /\ g = (f \ {e.pdst}) \cup {m[d]}
    BY <1>2 DEF CommitMap, CommitFree
  <2>2. r[d] = e.pdst /\ \A l \in Lregs : l # d => r[l] = m[l]
    BY <1>1, <2>1
  <2>3. \A l \in Lregs : m[l] # e.pdst /\ m[l] \notin f
    BY <1>2 DEF Mapped
  <2>4. \A k, l \in Lregs : m[k] = m[l] => k = l
    BY DEF Injective
  <2>5. \A k, l \in Lregs : r[k] = r[l] => k = l
    BY <1>1, <2>2, <2>3, <2>4
  <2>6. \A l \in Lregs : r[l] \notin g
    BY <1>1, <2>1, <2>2, <2>3, <2>4
  <2> HIDE DEF r, g
  <2>7. Injective(r) /\ g \cap Mapped(r) = {}
    BY <2>5, <2>6 DEF Injective, Mapped
  <2> QED BY <2>7 DEF r, g
<1>3. CASE ~Writes(e.uop)
  BY <1>3 DEF CommitMap, CommitFree
<1> QED BY <1>2, <1>3

\* A cycle that moves the window: r of the ret entries that leave it commit
\* their mappings.  Only an entry without a mapping may leave uncommitted.
Advance(al, ret, r, x) ==
    /\ Batch(al) /\ ret \in 0 .. 2 /\ r \in 0 .. 2
    /\ ret <= Count /\ Count + Len(al) <= RobEntries
    /\ r = ret \/ (r = 0 /\ ret = 1 /\ ~Writes(RobHead.uop))
    /\ RobStep(al, ret, x) /\ RegStep(al, r)

News(al) == {PrfEntry(n) : n \in {m \in DOMAIN al : Writes(al[m])}}

(* The part of RegStep that the invariant looks at. *)
LEMMA RegFacts ==
    ASSUME TypeOK, NEW al, NEW ret, NEW r, NEW x, Advance(al, ret, r, x)
    PROVE  /\ arat' = NewMap(al)
           /\ Committed(ret)
           /\ free' = (free \ News(al)) \cup {EntryAt(i).old : i \in WritersUpTo(ret)}
           /\ r = 0 => rrat' = rrat /\ rfree' = rfree
           /\ r = 1 => rrat' = CommitMap(RobHead, rrat) /\ rfree' = CommitFree(RobHead, rfree)
           /\ r = 2 => /\ rrat' = CommitMap(RobNextHead, CommitMap(RobHead, rrat))
                      /\ rfree' = CommitFree(RobNextHead, CommitFree(RobHead, rfree))
<1> USE DEF Advance
<1>1. head \in Ptrs /\ r \in 0 .. 2 /\ ret \in 0 .. 2
  BY DEF TypeOK
<1>2. Committed(ret)
  <2>1. Committed(r)
    BY <1>1, RetireCommits
  <2>2. r = 0 /\ ret = 1 /\ ~Writes(RobHead.uop) => Committed(ret)
    BY <1>1, <2>1, MapAfterFirst DEF Committed
  <2> QED BY <2>1, <2>2
<1>3. arat' = NewMap(al)
  BY DEF RegStep
<1>4. free' = (free \ News(al)) \cup {EntryAt(i).old : i \in WritersUpTo(ret)}
  <2> DEFINE olds == {Retirees(r)[n].old : n \in {m \in DOMAIN Retirees(r) : Writes(Retirees(r)[m].uop)}}
  <2>1. free' = (free \ News(al)) \cup olds
    BY DEF RegStep, News
  <2>2. EntryAt(0) = RobHead /\ EntryAt(1) = RobNextHead
    BY <1>1, HeadEntries
  <2>3. WritersUpTo(ret) = {i \in 0 .. ret - 1 : Writes(EntryAt(i).uop)}
    BY DEF WritersUpTo
  <2> HIDE DEF EntryAt, Writes, RobHead, RobNextHead, RobStep, RegStep
  <2> DEFINE freed == {EntryAt(i).old : i \in WritersUpTo(ret)}
  <2>4. olds = freed
    <3>1. CASE r = 0 /\ ret = 0
      BY <2>3, <3>1 DEF Retirees
    <3>2. CASE r = 0 /\ ret = 1 /\ ~Writes(RobHead.uop)
      BY <2>2, <2>3, <3>2 DEF Retirees
    <3>3. CASE r = 1 /\ ret = 1
      <4>1. DOMAIN Retirees(r) = {1} /\ Retirees(r)[1] = RobHead /\ 0 .. ret - 1 = {0}
        BY <3>3 DEF Retirees
      <4> QED BY <2>2, <2>3, <4>1
    <3>4. CASE r = 2 /\ ret = 2
      <4>1. /\ DOMAIN Retirees(r) = {1, 2} /\ Retirees(r)[1] = RobHead /\ Retirees(r)[2] = RobNextHead
            /\ 0 .. ret - 1 = {0, 1}
        BY <3>4 DEF Retirees
      <4> QED BY <2>2, <2>3, <4>1
    <3>5. \/ r = 0 /\ ret = 0
          \/ r = 0 /\ ret = 1 /\ ~Writes(RobHead.uop)
          \/ r = 1 /\ ret = 1
          \/ r = 2 /\ ret = 2
      BY <1>1
    <3> HIDE DEF olds, freed
    <3> QED BY <3>1, <3>2, <3>3, <3>4, <3>5
  <2> QED BY <2>1, <2>4
<1>5. /\ rrat' = IF r = 0 THEN rrat ELSE IF r = 1 THEN CommitMap(RobHead, rrat)
                ELSE CommitMap(RobNextHead, CommitMap(RobHead, rrat))
      /\ rfree' = IF r = 0 THEN rfree ELSE IF r = 1 THEN CommitFree(RobHead, rfree)
                 ELSE CommitFree(RobNextHead, CommitFree(RobHead, rfree))
  BY DEF RegStep, Retirees
<1> QED BY <1>2, <1>3, <1>4, <1>5

(* What the retiring entries superseded is what the retirement map holds. *)
LEMMA RetireeOld ==
    ASSUME TypeOK, MapTracksBuffer
    PROVE  /\ Count >= 1 /\ Writes(RobHead.uop) => RobHead.old = rrat[RobHead.uop.dst]
           /\ Count >= 2 /\ Writes(RobNextHead.uop) =>
                 RobNextHead.old = CommitMap(RobHead, rrat)[RobNextHead.uop.dst]
           /\ RobHead \in Entries /\ RobNextHead \in Entries
           /\ RobHead.uop.dst \in Lregs /\ RobNextHead.uop.dst \in Lregs
<1>1. head \in Ptrs /\ rrat \in [Lregs -> Pregs] /\ Count \in 0 .. RobEntries
  BY PointerTypes DEF TypeOK
<1>2. EntryAt(0) = RobHead /\ EntryAt(1) = RobNextHead
  BY <1>1, HeadEntries
<1>3. /\ RobHead \in Entries /\ RobNextHead \in Entries
      /\ RobHead.uop.dst \in Lregs /\ RobNextHead.uop.dst \in Lregs
  <2>1. 0 \in 0 .. RobEntries + 1 /\ 1 \in 0 .. RobEntries + 1
    BY SizeAssumption
  <2> QED BY <1>2, <2>1, EntryTypes
<1>4. \A i \in 0 .. 1 : i < Count /\ Writes(EntryAt(i).uop) => i \in WritersUpTo(Count)
  BY <1>1, SizeAssumption DEF WritersUpTo
<1>5. ASSUME Count >= 1, Writes(RobHead.uop)
      PROVE  RobHead.old = rrat[RobHead.uop.dst]
  <2>1. 0 \in WritersUpTo(Count)
    BY <1>1, <1>2, <1>4, <1>5, SizeAssumption
  <2> QED BY <1>1, <1>2, <2>1, MapAfterFirst DEF MapTracksBuffer
<1>6. ASSUME Count >= 2, Writes(RobNextHead.uop)
      PROVE  RobNextHead.old = CommitMap(RobHead, rrat)[RobNextHead.uop.dst]
  <2> DEFINE d == RobNextHead.uop.dst
  <2>1. 1 \in WritersUpTo(Count)
    BY <1>1, <1>2, <1>4, <1>6, SizeAssumption
  <2>2. RobNextHead.old = MapAfter(d, 1)
    BY <1>2, <2>1 DEF MapTracksBuffer
  <2>3. MapAfter(d, 1) = IF Writes(RobHead.uop) /\ RobHead.uop.dst = d THEN RobHead.pdst ELSE rrat[d]
    BY <1>1, MapAfterFirst
  <2> HIDE DEF RobHead, RobNextHead
  <2>4. CommitMap(RobHead, rrat)[d] =
           IF Writes(RobHead.uop) /\ RobHead.uop.dst = d THEN RobHead.pdst ELSE rrat[d]
    BY <1>1, <1>3 DEF CommitMap
  <2> QED BY <2>2, <2>3, <2>4
<1> QED BY <1>3, <1>5, <1>6

(* Every register stays in a place from which it comes back: retirement frees
   what it supersedes, allocation puts what it takes into the window. *)
LEMMA NoLeakStep ==
    ASSUME TypeOK, MapTracksBuffer, NoLeak, NEW al, NEW ret, NEW r, NEW x, Advance(al, ret, r, x)
    PROVE  NoLeak'
<1> DEFINE m1 == CommitMap(RobHead, rrat)  f1 == CommitFree(RobHead, rfree)
           h == RobHead  n == RobNextHead
<1>1. /\ Batch(al) /\ ret \in 0 .. 2 /\ r \in 0 .. 2
      /\ ret <= Count /\ Count + Len(al) <= RobEntries
      /\ r = ret \/ (r = 0 /\ ret = 1 /\ ~Writes(h.uop))
      /\ RobStep(al, ret, x)
      /\ head \in Ptrs /\ rrat \in [Lregs -> Pregs] /\ rfree \in SUBSET Pregs
      /\ Count \in Nat
  BY PointerTypes, SizeAssumption DEF Advance, TypeOK
<1>2. Pregs \subseteq rfree \cup Mapped(rrat) /\ Pregs \subseteq free \cup Mapped(rrat) \cup Pdsts
  BY DEF NoLeak
<1>3. /\ ret >= 1 /\ Writes(h.uop) => h.old = rrat[h.uop.dst]
      /\ ret = 2 /\ Writes(n.uop) => n.old = m1[n.uop.dst]
      /\ h \in Entries /\ n \in Entries /\ h.uop.dst \in Lregs /\ n.uop.dst \in Lregs
  BY <1>1, RetireeOld
<1>4. /\ rrat' = IF r = 0 THEN rrat ELSE IF r = 1 THEN m1 ELSE CommitMap(n, m1)
      /\ rfree' = IF r = 0 THEN rfree ELSE IF r = 1 THEN f1 ELSE CommitFree(n, f1)
      /\ free' = (free \ News(al)) \cup {EntryAt(i).old : i \in WritersUpTo(ret)}
      /\ Committed(ret)
  BY <1>1, RegFacts
<1>5. Pregs \subseteq (rfree \cup Mapped(rrat))'
  <2> HIDE DEF h, n
  <2>1. r >= 1 => /\ m1 \in [Lregs -> Pregs] /\ f1 \in SUBSET Pregs
                  /\ Pregs \subseteq f1 \cup Mapped(m1)
    BY <1>1, <1>2, <1>3, CommitKeeps DEF h
  <2>2. r = 2 => Pregs \subseteq CommitFree(n, f1) \cup Mapped(CommitMap(n, m1))
    BY <1>1, <1>3, <2>1, CommitKeeps
  <2>3. Pregs \subseteq rfree' \cup Mapped(rrat')
    <3>1. CASE r = 0
      BY <1>2, <1>4, <3>1
    <3>2. CASE r = 1
      BY <1>4, <2>1, <3>2
    <3>3. CASE r = 2
      BY <1>4, <2>2, <3>3
    <3> QED BY <1>1, <3>1, <3>2, <3>3
  <2> QED BY <2>3 DEF Mapped
<1>6. ASSUME NEW p \in Pregs
      PROVE  p \in free' \/ p \in Mapped(rrat)' \/ p \in Pdsts'
  <2>0. 0 \in WritersUpTo(ret) <=> ret >= 1 /\ Writes(h.uop)
    BY <1>1, HeadEntries DEF WritersUpTo
  <2>00. 1 \in WritersUpTo(ret) <=> ret = 2 /\ Writes(n.uop)
    BY <1>1, HeadEntries DEF WritersUpTo
  <2>1. CASE p \in News(al)
    <3>1. PICK k \in DOMAIN al : Writes(al[k]) /\ p = PrfEntry(k)
      BY <2>1 DEF News
    <3>2. \E i \in WritersUpTo(Count)' : EntryAt(i)'.pdst = PrfEntry(k)
      BY <1>1, <3>1, WritersStep
    <3> QED BY <3>1, <3>2 DEF Pdsts
  <2>2. CASE p \in free \ News(al)
    BY <1>4, <2>2
  <2>3. CASE p \in Mapped(rrat)
    <3>1. PICK l \in Lregs : p = rrat[l]
      BY <2>3 DEF Mapped
    <3> SUFFICES ASSUME rrat'[l] # p
                 PROVE  p \in free'
      BY DEF Mapped
    <3>2. MapAfter(l, ret) # rrat[l] /\ ret \in 0 .. 2
      BY <1>1, <1>4, <3>1 DEF Committed
    <3>3. CASE ret >= 1 /\ Writes(h.uop) /\ h.uop.dst = l
      BY <1>1, <1>3, <1>4, <2>0, <3>1, <3>3, HeadEntries
    <3>4. CASE ret = 2 /\ ~(Writes(h.uop) /\ h.uop.dst = l) /\ Writes(n.uop) /\ n.uop.dst = l
      <4>1. m1[l] = rrat[l]
        BY <1>1, <1>3, <3>4 DEF CommitMap
      <4> QED BY <1>1, <1>3, <1>4, <2>00, <3>1, <3>4, <4>1, HeadEntries
    <3> QED BY <1>1, <3>2, <3>3, <3>4, MapAfterFirst
  <2>4. CASE p \in Pdsts
    <3>1. PICK j \in WritersUpTo(Count) : p = EntryAt(j).pdst
      BY <2>4 DEF Pdsts
    <3>2. j \in Nat /\ j < Count /\ Writes(EntryAt(j).uop)
      BY <1>1 DEF WritersUpTo
    <3>3. CASE j >= ret
      BY <1>1, <3>1, <3>3, WritersStep DEF Pdsts
    <3>4. CASE j < ret
      <4>1. j = 0 \/ (j = 1 /\ ret = 2)
        BY <1>1, <3>2, <3>4
      <4>2. CASE j = 1 /\ ret = 2
        <5>1. Writes(n.uop) /\ p = n.pdst
          BY <1>1, <3>1, <3>2, <4>2, HeadEntries
        <5>2. rrat'[n.uop.dst] = p
          BY <1>1, <1>3, <1>4, <4>2, <5>1, MapAfterFirst DEF Committed
        <5> QED BY <1>3, <5>2 DEF Mapped
      <4>3. CASE j = 0
        <5>1. Writes(h.uop) /\ p = h.pdst /\ ret >= 1
          BY <1>1, <3>1, <3>2, <3>4, <4>3, HeadEntries
        <5>2. CASE ret = 2 /\ Writes(n.uop) /\ n.uop.dst = h.uop.dst
          <6>1. m1[h.uop.dst] = p
            BY <1>1, <1>3, <5>1 DEF CommitMap
          <6> QED BY <1>1, <1>3, <1>4, <2>00, <5>2, <6>1, HeadEntries
        <5>3. CASE ~(ret = 2 /\ Writes(n.uop) /\ n.uop.dst = h.uop.dst)
          <6>1. rrat'[h.uop.dst] = p
            BY <1>1, <1>3, <1>4, <5>1, <5>3, MapAfterFirst DEF Committed
          <6> QED BY <1>3, <6>1 DEF Mapped
        <5> QED BY <5>2, <5>3
      <4> QED BY <4>1, <4>2, <4>3
    <3> QED BY <1>1, <3>2, <3>3, <3>4
  <2> QED BY <1>2, <2>1, <2>2, <2>3, <2>4
<1> QED BY <1>5, <1>6 DEF NoLeak

\* No uop is allocated a register that its bank does not have.
Fits(al) == \A n \in DOMAIN al : Writes(al[n]) => free \cap Bank(n) # {}

(* What is allocated was free, and the two uops of a cycle get two registers
   (r_bank_sel). *)
LEMMA NewsFree ==
    ASSUME TypeOK, NEW al, Batch(al), Fits(al)
    PROVE  /\ News(al) \subseteq free
           /\ \A i, j \in DOMAIN al : Writes(al[i]) /\ Writes(al[j]) /\ PrfEntry(i) = PrfEntry(j) => i = j
<1>1. DOMAIN al \subseteq {1, 2} /\ free \subseteq Pregs
  BY BatchFacts DEF TypeOK
<1>2. \A n \in DOMAIN al : Writes(al[n]) => PrfEntry(n) \in free \cap Bank(n)
  BY <1>1, PrfEntryFree DEF Fits
<1>3. Bank(1) \cap Bank(2) = {}
  BY DEF Bank
<1> QED BY <1>1, <1>2, <1>3 DEF News

(* No register is ever in two places, as long as allocation finds a free one in
   the bank it looks at. *)
LEMMA NoSharingStep ==
    ASSUME TypeOK, MapTracksBuffer, NoSharing, NEW al, NEW ret, NEW r, NEW x,
           Advance(al, ret, r, x), Fits(al)
    PROVE  NoSharing'
<1> DEFINE h == RobHead  n == RobNextHead
           m1 == CommitMap(h, rrat)  f1 == CommitFree(h, rfree)
<1>1. /\ Batch(al) /\ ret \in 0 .. 2 /\ r \in 0 .. 2
      /\ ret <= Count /\ Count + Len(al) <= RobEntries
      /\ r = ret \/ (r = 0 /\ ret = 1 /\ ~Writes(h.uop))
      /\ RobStep(al, ret, x)
      /\ head \in Ptrs /\ rrat \in [Lregs -> Pregs] /\ rfree \in SUBSET Pregs
      /\ Count \in Nat
  BY PointerTypes, SizeAssumption DEF Advance, TypeOK
<1>2. /\ Injective(rrat) /\ rfree \cap Mapped(rrat) = {}
      /\ free \cap Mapped(rrat) = {} /\ free \cap Pdsts = {} /\ Mapped(rrat) \cap Pdsts = {}
      /\ \A i, j \in WritersUpTo(Count) : EntryAt(i).pdst = EntryAt(j).pdst => i = j
  BY DEF NoSharing
<1>3. /\ ret >= 1 /\ Writes(h.uop) => h.old = rrat[h.uop.dst]
      /\ ret = 2 /\ Writes(n.uop) => n.old = m1[n.uop.dst]
      /\ h \in Entries /\ n \in Entries /\ h.uop.dst \in Lregs /\ n.uop.dst \in Lregs
  BY <1>1, RetireeOld
<1>4. /\ rrat' = IF r = 0 THEN rrat ELSE IF r = 1 THEN m1 ELSE CommitMap(n, m1)
      /\ rfree' = IF r = 0 THEN rfree ELSE IF r = 1 THEN f1 ELSE CommitFree(n, f1)
      /\ free' = (free \ News(al)) \cup {EntryAt(i).old : i \in WritersUpTo(ret)}
      /\ Committed(ret)
  BY <1>1, RegFacts
<1>5. News(al) \subseteq free
  BY <1>1, NewsFree
<1>6. /\ 0 \in WritersUpTo(ret) <=> ret >= 1 /\ Writes(h.uop)
      /\ 1 \in WritersUpTo(ret) <=> ret = 2 /\ Writes(n.uop)
      /\ WritersUpTo(ret) \subseteq {0, 1}
      /\ WritersUpTo(ret) \subseteq WritersUpTo(Count)
      /\ EntryAt(0) = h /\ EntryAt(1) = n
  BY <1>1, HeadEntries DEF WritersUpTo
\* Where the registers of the retiring entries are, and are not.
<1>7. /\ \A i \in WritersUpTo(Count) : EntryAt(i).pdst \in Pdsts
      /\ \A l \in Lregs : rrat[l] \in Mapped(rrat)
  BY DEF Pdsts, Mapped
<1>8. r >= 1 => /\ m1 \in [Lregs -> Pregs] /\ f1 \in SUBSET Pregs
                /\ Injective(m1) /\ f1 \cap Mapped(m1) = {}
  <2>1. r >= 1 /\ Writes(h.uop) => h.pdst \notin Mapped(rrat)
    BY <1>1, <1>2, <1>6, <1>7
  <2> HIDE DEF h, n
  <2>2. r >= 1 => m1 \in [Lregs -> Pregs] /\ f1 \in SUBSET Pregs
    <3>1. h.pdst \in Pregs /\ h.old \in Pregs
      BY <1>3 DEF Entries
    <3> QED BY <1>1, <1>3, <3>1 DEF CommitMap, CommitFree
  <2> QED BY <1>1, <1>2, <1>3, <2>1, <2>2, CommitExclusive
<1>9. \A l \in Lregs : m1[l] = IF Writes(h.uop) /\ h.uop.dst = l THEN h.pdst ELSE rrat[l]
  <2> HIDE DEF h
  <2> QED BY <1>1, <1>3 DEF CommitMap
<1>10. r = 2 => Injective(CommitMap(n, m1)) /\ CommitFree(n, f1) \cap Mapped(CommitMap(n, m1)) = {}
  <2>1. r = 2 /\ Writes(n.uop) => n.pdst \notin Mapped(m1)
    <3> SUFFICES ASSUME r = 2, Writes(n.uop), NEW l \in Lregs, m1[l] = n.pdst
                 PROVE  FALSE
      BY DEF Mapped
    <3>1. n.pdst \in Pdsts /\ (Writes(h.uop) => h.pdst # n.pdst)
      BY <1>1, <1>2, <1>6, <1>7
    <3> QED BY <1>2, <1>7, <1>9, <3>1
  <2> SUFFICES ASSUME r = 2
               PROVE  Injective(CommitMap(n, m1)) /\ CommitFree(n, f1) \cap Mapped(CommitMap(n, m1)) = {}
    OBVIOUS
  <2>2. /\ m1 \in [Lregs -> Pregs] /\ f1 \in SUBSET Pregs /\ Injective(m1) /\ f1 \cap Mapped(m1) = {}
        /\ ret = 2 /\ n \in Entries
        /\ Writes(n.uop) => n.old = m1[n.uop.dst] /\ n.pdst \notin Mapped(m1)
    BY <1>1, <1>3, <1>8, <2>1
  <2> HIDE DEF h, n, m1, f1
  <2> QED BY <2>2, CommitExclusive
<1>11. Injective(rrat)' /\ (rfree \cap Mapped(rrat) = {})'
  <2>1. Injective(rrat') /\ rfree' \cap Mapped(rrat') = {}
    <3> HIDE DEF m1, f1, h, n
    <3>1. CASE r = 0
      BY <1>2, <1>4, <3>1
    <3>2. CASE r = 1
      BY <1>4, <1>8, <3>2
    <3>3. CASE r = 2
      BY <1>4, <1>10, <3>3
    <3> QED BY <1>1, <3>1, <3>2, <3>3
  <2> QED BY <2>1 DEF Injective, Mapped
<1>12. \A l \in Lregs : rrat'[l] = IF ret = 2 /\ Writes(n.uop) /\ n.uop.dst = l THEN n.pdst
                                 ELSE IF ret >= 1 /\ Writes(h.uop) /\ h.uop.dst = l THEN h.pdst
                                 ELSE rrat[l]
  <2> TAKE l \in Lregs
  <2>1. rrat'[l] = MapAfter(l, ret)
    BY <1>4 DEF Committed
  <2> QED BY <1>1, <2>1, MapAfterFirst
<1>13. ASSUME NEW q \in Pdsts'
       PROVE  q \in News(al) \/ \E j \in WritersUpTo(Count) : j >= ret /\ q = EntryAt(j).pdst
  <2>1. PICK i \in WritersUpTo(Count)' : q = EntryAt(i)'.pdst
    BY DEF Pdsts
  <2>2. i \in Nat
    BY DEF WritersUpTo
  <2>3. \/ i + ret \in WritersUpTo(Count) /\ EntryAt(i)'.pdst = EntryAt(i + ret).pdst
        \/ \E k \in DOMAIN al : Writes(al[k]) /\ EntryAt(i)'.pdst = PrfEntry(k)
    BY <1>1, WritersStep
  <2> QED BY <1>1, <2>1, <2>2, <2>3 DEF News
\* A register that is freed was superseded: it is in no other place.
<1>14. ASSUME NEW q \in free'
       PROVE  \/ q \in free \ News(al)
              \/ ret >= 1 /\ Writes(h.uop) /\ q = rrat[h.uop.dst]
              \/ ret = 2 /\ Writes(n.uop) /\ q = m1[n.uop.dst]
  BY <1>3, <1>4, <1>6
<1>15. (free \cap Mapped(rrat) = {})'
  <2> SUFFICES ASSUME NEW l \in Lregs, rrat'[l] \in free'
               PROVE  FALSE
    BY DEF Mapped
  <2>1. /\ ret >= 1 /\ Writes(h.uop) => h.pdst \in Pdsts
        /\ ret = 2 /\ Writes(n.uop) => n.pdst \in Pdsts
        /\ ret = 2 /\ Writes(h.uop) /\ Writes(n.uop) => h.pdst # n.pdst
    BY <1>1, <1>2, <1>6, <1>7
  <2>2. \A k \in Lregs : rrat[k] = rrat[l] => k = l
    BY <1>2 DEF Injective
  <2> HIDE DEF h, n, m1
  <2>3. CASE rrat'[l] \in free \ News(al)
    BY <1>1, <1>2, <1>7, <1>12, <2>1, <2>3
  <2>4. CASE ret >= 1 /\ Writes(h.uop) /\ rrat'[l] = rrat[h.uop.dst]
    BY <1>1, <1>2, <1>3, <1>7, <1>12, <2>1, <2>2, <2>4
  <2>5. CASE ret = 2 /\ Writes(n.uop) /\ rrat'[l] = m1[n.uop.dst]
    BY <1>1, <1>2, <1>3, <1>7, <1>9, <1>12, <2>1, <2>2, <2>5
  <2> QED BY <1>14, <2>3, <2>4, <2>5
<1>16. (free \cap Pdsts = {})'
  <2> SUFFICES ASSUME NEW q \in Pdsts', q \in free'
               PROVE  FALSE
    OBVIOUS
  <2>1. /\ q \in News(al) => q \in free
        /\ q \notin News(al) => q \in Pdsts
    BY <1>5, <1>7, <1>13
  <2>2. CASE q \in free \ News(al)
    BY <1>2, <2>1, <2>2
  <2>3. CASE ret >= 1 /\ Writes(h.uop) /\ q = rrat[h.uop.dst]
    BY <1>2, <1>3, <1>7, <2>1, <2>3
  <2>4. CASE ret = 2 /\ Writes(n.uop) /\ q = m1[n.uop.dst]
    <3>1. CASE Writes(h.uop) /\ h.uop.dst = n.uop.dst
      <4>1. q = EntryAt(0).pdst /\ 0 \in WritersUpTo(Count) /\ q \in Pdsts
        BY <1>3, <1>6, <1>7, <1>9, <2>4, <3>1
      <4>2. PICK j \in WritersUpTo(Count) : j >= ret /\ q = EntryAt(j).pdst
        BY <1>2, <1>13, <2>1, <4>1
      <4> QED BY <1>2, <2>4, <4>1, <4>2
    <3>2. CASE ~(Writes(h.uop) /\ h.uop.dst = n.uop.dst)
      BY <1>2, <1>3, <1>7, <1>9, <2>1, <2>4, <3>2
    <3> QED BY <3>1, <3>2
  <2> QED BY <1>14, <2>2, <2>3, <2>4
<1>17. (Mapped(rrat) \cap Pdsts = {})'
  <2> SUFFICES ASSUME NEW l \in Lregs, rrat'[l] \in Pdsts'
               PROVE  FALSE
    BY DEF Mapped
  <2>1. rrat'[l] \in Mapped(rrat) \/ \E i \in WritersUpTo(ret) : rrat'[l] = EntryAt(i).pdst
    BY <1>1, <1>6, <1>7, <1>12
  <2>2. CASE rrat'[l] \in News(al)
    BY <1>2, <1>5, <1>6, <1>7, <2>1, <2>2
  <2>3. CASE \E j \in WritersUpTo(Count) : j >= ret /\ rrat'[l] = EntryAt(j).pdst
    <3>1. \A i \in WritersUpTo(ret) : i < ret
      BY <1>1 DEF WritersUpTo
    <3>2. \A i \in WritersUpTo(Count) : i \in Nat
      BY DEF WritersUpTo
    <3> QED BY <1>1, <1>2, <1>6, <1>7, <2>1, <2>3, <3>1, <3>2
  <2> QED BY <1>13, <2>2, <2>3
<1>18. ASSUME NEW i \in WritersUpTo(Count)', NEW j \in WritersUpTo(Count)',
              EntryAt(i)'.pdst = EntryAt(j)'.pdst
       PROVE  i = j
  <2> DEFINE Stays(k) == k + ret \in WritersUpTo(Count) /\ EntryAt(k)'.pdst = EntryAt(k + ret).pdst
             New(k, m) == k = Count - ret + m - 1 /\ Writes(al[m]) /\ EntryAt(k)'.pdst = PrfEntry(m)
  <2>1. /\ Stays(i) \/ \E m \in DOMAIN al : New(i, m)
        /\ Stays(j) \/ \E m \in DOMAIN al : New(j, m)
    BY <1>1, WritersStep
  <2>2. i \in Nat /\ j \in Nat
    BY DEF WritersUpTo
  <2>3. CASE Stays(i) /\ Stays(j)
    <3>1. i + ret = j + ret
      BY <1>2, <1>18, <2>3
    <3> QED BY <1>1, <2>2, <3>1
  <2>4. ASSUME NEW m \in DOMAIN al, NEW k \in DOMAIN al, New(i, m), New(j, k)
        PROVE  i = j
    BY <1>1, <1>18, <2>4, NewsFree
  <2>5. ASSUME NEW k, Stays(k)
        PROVE  EntryAt(k)'.pdst \notin free
    BY <1>2, <1>7, <2>5
  <2>6. ASSUME NEW k, NEW m \in DOMAIN al, New(k, m)
        PROVE  EntryAt(k)'.pdst \in free
    BY <1>5, <2>6 DEF News
  <2> HIDE DEF Stays, New
  <2> QED BY <1>18, <2>1, <2>3, <2>4, <2>5, <2>6
<1> QED BY <1>11, <1>15, <1>16, <1>17, <1>18 DEF NoSharing

-----------------------------------------------------------------------------
(* Where MapAfter finds the register. *)
LEMMA MapAfterSource ==
    ASSUME TypeOK, NEW l \in Lregs, NEW a \in 0 .. Count
    PROVE  \/ WritersOf(l, a) = {} /\ MapAfter(l, a) = rrat[l] /\ rrat[l] \in Mapped(rrat)
           \/ \E m \in WritersOf(l, a) :
                 /\ \A j \in WritersOf(l, a) : j <= m
                 /\ MapAfter(l, a) = EntryAt(m).pdst
                 /\ m \in WritersUpTo(Count) /\ EntryAt(m).uop.dst = l /\ EntryAt(m).pdst \in Pdsts
<1>1. Count \in Nat /\ a \in Nat /\ a <= Count
  BY PointerTypes, SizeAssumption DEF TypeOK
<1>2. CASE WritersOf(l, a) = {}
  BY <1>1, <1>2, MapAfterDef DEF Mapped
<1>3. CASE WritersOf(l, a) # {}
  <2>1. PICK m \in WritersOf(l, a) : \A j \in WritersOf(l, a) : j <= m
    BY <1>1, <1>3, MapAfterDef, GreatestExists
  <2>2. m \in WritersUpTo(Count) /\ EntryAt(m).uop.dst = l
    BY <1>1 DEF WritersOf, WritersUpTo
  <2>3. MapAfter(l, a) = EntryAt(m).pdst
    BY <1>1, <2>1, MapAfterDef
  <2> QED BY <2>1, <2>2, <2>3 DEF Pdsts
<1> QED BY <1>2, <1>3

(* Two maps along the window agree only where no writer is between them. *)
LEMMA MapAfterInjective ==
    ASSUME TypeOK, NoSharing, NEW k \in Lregs, NEW l \in Lregs,
           NEW a \in 0 .. Count, NEW b \in 0 .. Count, MapAfter(k, a) = MapAfter(l, b)
    PROVE  k = l /\ \A j \in WritersOf(l, b) : j < a
<1>1. /\ \A i, j \in WritersUpTo(Count) : EntryAt(i).pdst = EntryAt(j).pdst => i = j
      /\ Mapped(rrat) \cap Pdsts = {}
      /\ \A i, j \in Lregs : rrat[i] = rrat[j] => i = j
  BY DEF NoSharing, Injective
<1>2. WritersOf(k, a) \subseteq 0 .. a - 1 /\ WritersOf(l, b) \subseteq 0 .. b - 1 /\ a \in Nat /\ b \in Nat
  <2>1. Count \in Nat
    BY PointerTypes, SizeAssumption DEF TypeOK
  <2> QED BY <2>1, MapAfterDef
<1>3. CASE WritersOf(l, b) = {} /\ MapAfter(l, b) = rrat[l] /\ rrat[l] \in Mapped(rrat)
  BY <1>1, <1>3, MapAfterSource
<1>4. ASSUME NEW m \in WritersOf(l, b), \A j \in WritersOf(l, b) : j <= m,
             MapAfter(l, b) = EntryAt(m).pdst,
             m \in WritersUpTo(Count), EntryAt(m).uop.dst = l, EntryAt(m).pdst \in Pdsts
      PROVE  k = l /\ \A j \in WritersOf(l, b) : j < a
  <2>1. PICK i \in WritersOf(k, a) : /\ MapAfter(k, a) = EntryAt(i).pdst
                                    /\ i \in WritersUpTo(Count) /\ EntryAt(i).uop.dst = k
    BY <1>1, <1>4, MapAfterSource
  <2>2. i = m
    BY <1>1, <1>4, <2>1
  <2> QED BY <1>2, <1>4, <2>1, <2>2
<1> QED BY <1>3, <1>4, MapAfterSource

(* A register in the window is current or superseded by a later writer. *)
LEMMA NextWriter ==
    ASSUME TypeOK, MapTracksBuffer, NEW l \in Lregs, NEW a \in 0 .. Count
    PROVE  MapAfter(l, a) \in Mapped(arat) \cup {EntryAt(i).old : i \in WritersUpTo(Count)}
<1> DEFINE later == {i \in WritersOf(l, Count) : i >= a}
<1>1. Count \in Nat /\ a \in Nat /\ a <= Count
  BY PointerTypes, SizeAssumption DEF TypeOK
<1>2. WritersOf(l, Count) \subseteq 0 .. Count - 1
  BY <1>1, MapAfterDef
<1>3. CASE later = {}
  <2>1. WritersOf(l, a) = WritersOf(l, Count)
    BY <1>1, <1>2, <1>3 DEF WritersOf, WritersUpTo
  <2>2. MapAfter(l, a) = MapAfter(l, Count)
    BY <1>1, <2>1, SameWriters
  <2>3. MapAfter(l, Count) = arat[l]
    BY DEF MapTracksBuffer
  <2> QED BY <2>2, <2>3 DEF Mapped
<1>4. CASE later # {}
  <2>1. PICK i \in later : \A j \in later : i <= j
    <3>1. later \subseteq 0 .. Count - 1
      BY <1>2
    <3> HIDE DEF later
    <3> QED BY <1>1, <1>4, <3>1, LeastExists
  <2>2. WritersOf(l, a) = WritersOf(l, i)
    BY <1>1, <1>2, <2>1 DEF WritersOf, WritersUpTo
  <2>3. MapAfter(l, a) = MapAfter(l, i)
    <3>1. i \in Nat
      BY <1>2, <2>1
    <3> QED BY <1>1, <2>2, <3>1, SameWriters
  <2>4. i \in WritersUpTo(Count) /\ EntryAt(i).uop.dst = l
    BY <2>1 DEF WritersOf
  <2>5. EntryAt(i).old = MapAfter(l, i)
    BY <2>4 DEF MapTracksBuffer
  <2> QED BY <2>3, <2>4, <2>5
<1> QED BY <1>3, <1>4

(* The partition that n_prf_free keeps, seen from the allocation map: it is the
   one seen from the retirement map, one entry later. *)
LEMMA PartitionFromWindow ==
    ASSUME TypeOK, MapTracksBuffer, NoLeak, NoSharing
    PROVE  FreePartition
<1> DEFINE w == WritersUpTo(Count)
           olds == {EntryAt(i).old : i \in w}
<1>1. Count \in Nat
  BY PointerTypes, SizeAssumption DEF TypeOK
<1>2. \A l \in Lregs : arat[l] = MapAfter(l, Count)
  BY DEF MapTracksBuffer
<1>3. ASSUME NEW i \in w
      PROVE  /\ i \in 0 .. Count - 1 /\ EntryAt(i).uop.dst \in Lregs /\ EntryAt(i).old \in Pregs
             /\ EntryAt(i).old = MapAfter(EntryAt(i).uop.dst, i)
             /\ EntryAt(i).pdst = MapAfter(EntryAt(i).uop.dst, i + 1)
  <2>1. i \in 0 .. Count - 1 /\ Writes(EntryAt(i).uop) /\ i \in 0 .. RobEntries + 1
    BY <1>1, SizeAssumption DEF WritersUpTo, TypeOK
  <2>2. EntryAt(i).pdst = MapAfter(EntryAt(i).uop.dst, i + 1)
    <3>1. i \in Nat
      BY <2>1
    <3>2. \A l : Writes(EntryAt(i).uop) /\ EntryAt(i).uop.dst = l => EntryAt(i).pdst = MapAfter(l, i + 1)
      BY <3>1, MapGrows
    <3> QED BY <2>1, <3>2
  <2> QED BY <2>1, <2>2, EntryTypes DEF MapTracksBuffer
<1>4. \A l \in Lregs, a \in 0 .. Count : MapAfter(l, a) \in Mapped(rrat) \cup Pdsts
  BY MapAfterSource
<1>5. Injective(arat)
  <2>1. ASSUME NEW k \in Lregs, NEW l \in Lregs, arat[k] = arat[l]
        PROVE  k = l
    BY <1>1, <1>2, <2>1, MapAfterInjective
  <2> QED BY <2>1 DEF Injective
<1>6. ASSUME NEW i \in w, NEW j \in w, EntryAt(i).old = EntryAt(j).old, i < j
      PROVE  FALSE
  <2>1. EntryAt(i).uop.dst = EntryAt(j).uop.dst /\ \A k \in WritersOf(EntryAt(i).uop.dst, i) : k < j
    BY <1>1, <1>3, <1>6, MapAfterInjective
  <2>2. \A k \in WritersOf(EntryAt(j).uop.dst, j) : k < i
    BY <1>1, <1>3, <1>6, MapAfterInjective
  <2>3. i \in WritersOf(EntryAt(j).uop.dst, j)
    BY <1>1, <1>3, <1>6, <2>1 DEF WritersOf, WritersUpTo
  <2> QED BY <1>3, <2>2, <2>3
<1>7. \A i, j \in w : EntryAt(i).old = EntryAt(j).old => i = j
  <2> SUFFICES ASSUME NEW i \in w, NEW j \in w, EntryAt(i).old = EntryAt(j).old, i # j
               PROVE  FALSE
    OBVIOUS
  <2>1. i < j \/ j < i
    BY <1>1, <1>3
  <2> QED BY <1>6, <2>1
<1>8. Mapped(arat) \cap olds = {}
  <2> SUFFICES ASSUME NEW l \in Lregs, NEW i \in w, arat[l] = EntryAt(i).old
               PROVE  FALSE
    BY DEF Mapped
  <2>1. l = EntryAt(i).uop.dst /\ \A k \in WritersOf(l, Count) : k < i
    BY <1>1, <1>2, <1>3, MapAfterInjective
  <2>2. i \in WritersOf(l, Count)
    BY <2>1 DEF WritersOf
  <2> QED BY <1>3, <2>1, <2>2
<1>9. free \cap (Mapped(arat) \cup olds) = {}
  <2>1. Mapped(arat) \subseteq Mapped(rrat) \cup Pdsts
    BY <1>1, <1>2, <1>4 DEF Mapped
  <2>2. olds \subseteq Mapped(rrat) \cup Pdsts
    BY <1>1, <1>3, <1>4
  <2> QED BY <2>1, <2>2 DEF NoSharing
<1>10. Pregs \subseteq free \cup Mapped(arat) \cup olds
  <2>1. Mapped(rrat) \subseteq Mapped(arat) \cup olds
    <3> SUFFICES ASSUME NEW l \in Lregs
                 PROVE  rrat[l] \in Mapped(arat) \cup olds
      BY DEF Mapped
    <3>1. MapAfter(l, 0) = rrat[l]
      BY MapAfterDef
    <3> QED BY <1>1, <3>1, NextWriter
  <2>2. Pdsts \subseteq Mapped(arat) \cup olds
    <3> SUFFICES ASSUME NEW i \in w
                 PROVE  EntryAt(i).pdst \in Mapped(arat) \cup olds
      BY DEF Pdsts
    <3> QED BY <1>1, <1>3, NextWriter
  <2> QED BY <2>1, <2>2 DEF NoLeak
<1>11. free \cup Mapped(arat) \cup olds \subseteq Pregs
  BY <1>3 DEF TypeOK, Mapped
<1> QED BY <1>5, <1>7, <1>8, <1>9, <1>10, <1>11 DEF FreePartition
===============================================================================
