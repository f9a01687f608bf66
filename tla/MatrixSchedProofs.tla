--------------------------- MODULE MatrixSchedProofs ---------------------------
(***************************************************************************)
(* Proofs about MatrixSched, for every number of scheduler entries: the    *)
(* age matrix is a total order, one uop is the oldest that is ready, and   *)
(* the scheduler is a queue served oldest ready first.                     *)
(***************************************************************************)
EXTENDS MatrixSched, FiniteSetTheorems, SequenceTheorems, TLAPS

(* The priority encoder returns a bit that is set, if one is. *)
LEMMA FindFirstSetIsSet ==
    ASSUME NEW s, s \subseteq Entries, s # {}
    PROVE  FindFirstSet(s) \in s
<1> USE NumEntriesAssumption
<1> DEFINE Above(i) == i .. NumEntries - 1
           T == {Above(i) : i \in s}
<1>1. T \subseteq FiniteSubsetsOf(Entries)
  <2> SUFFICES ASSUME NEW i \in s
               PROVE  Above(i) \in FiniteSubsetsOf(Entries)
    OBVIOUS
  <2>1. i \in Nat /\ Above(i) \subseteq Entries
    BY DEF Entries
  <2>2. IsFiniteSet(Above(i))
    BY <2>1, FS_Interval
  <2> QED BY <2>1, <2>2 DEF FiniteSubsetsOf
<1>2. T # {}
  OBVIOUS
<1>3. PICK x \in T : \A y \in T : <<y, x>> \notin StrictSubsetOrdering(Entries)
  <2> HIDE DEF T
  <2> QED BY <1>1, <1>2, FS_StrictSubsetOrderingWellFounded, WFMin
<1>4. PICK i \in s : x = Above(i)
  OBVIOUS
<1>5. ASSUME NEW j \in s, j > i
      PROVE  FALSE
  <2>1. i \in Entries /\ j \in Entries
    OBVIOUS
  <2>2. Above(j) \subseteq Above(i) /\ i \in Above(i) /\ i \notin Above(j)
    BY <1>5, <2>1 DEF Entries
  <2>3. Above(j) \in SUBSET Entries /\ Above(i) \in SUBSET Entries
    BY <2>1 DEF Entries
  <2>4. <<Above(j), Above(i)>> \in StrictSubsetOrdering(Entries)
    BY <2>2, <2>3 DEF StrictSubsetOrdering
  <2> QED BY <1>3, <1>4, <2>4
<1>6. \A j \in s : j <= i
  BY <1>5 DEF Entries
<1> QED BY <1>4, <1>6 DEF FindFirstSet

(* The strict order of the rows has a least element in every set of ready
   entries, and only one: the oldest. *)
LEMMA OldestExists ==
    ASSUME IInv, NEW rdy \in SUBSET valid, rdy # {}
    PROVE  \E i \in rdy : OldestReady(rdy) = {i}
<1> USE NumEntriesAssumption
<1> DEFINE T == {matrix[i] : i \in rdy}
<1>1. T \subseteq FiniteSubsetsOf(Entries)
  <2> SUFFICES ASSUME NEW i \in rdy
               PROVE  matrix[i] \in FiniteSubsetsOf(Entries)
    OBVIOUS
  <2>1. matrix[i] \in SUBSET Entries
    BY DEF IInv, TypeOK
  <2>2. IsFiniteSet(Entries)
    BY FS_Interval DEF Entries
  <2>3. IsFiniteSet(matrix[i])
    BY <2>1, <2>2, FS_Subset
  <2> QED BY <2>1, <2>3 DEF FiniteSubsetsOf
<1>2. PICK x \in T : \A y \in T : <<y, x>> \notin StrictSubsetOrdering(Entries)
  <2>1. T # {}
    OBVIOUS
  <2> HIDE DEF T
  <2> QED BY <1>1, <2>1, FS_StrictSubsetOrderingWellFounded, WFMin
<1>3. PICK i \in rdy : x = matrix[i]
  OBVIOUS
<1>4. \A j \in rdy : j \notin matrix[i]
  <2> SUFFICES ASSUME NEW j \in rdy, j \in matrix[i]
               PROVE  FALSE
    OBVIOUS
  <2>1. i # j /\ i \in valid /\ j \in valid
    BY DEF IInv, RowsFresh
  <2>2. matrix[j] \subseteq matrix[i]
    BY <2>1 DEF IInv, TotalOrder
  <2>3. j \notin matrix[j]
    BY <2>1 DEF IInv, RowsFresh
  <2>4. matrix[i] \in SUBSET Entries /\ matrix[j] \in SUBSET Entries
    BY DEF IInv, TypeOK
  <2>5. <<matrix[j], matrix[i]>> \in StrictSubsetOrdering(Entries)
    BY <2>2, <2>3, <2>4 DEF StrictSubsetOrdering
  <2> QED BY <1>2, <1>3, <2>5
<1>5. i \in OldestReady(rdy)
  BY <1>4 DEF OldestReady
<1>6. ASSUME NEW j \in OldestReady(rdy)
      PROVE  j = i
  <2>1. j \in rdy /\ i \notin matrix[j] /\ j \notin matrix[i]
    BY <1>4, <1>6 DEF OldestReady
  <2> QED BY <2>1 DEF IInv, TotalOrder
<1> QED BY <1>5, <1>6

(* What is selected is a ready entry, and one that no ready entry precedes. *)
LEMMA SelectedIsOldest ==
    ASSUME IInv, NEW rdy \in SUBSET valid
    PROVE  /\ SelectEntry(rdy) \subseteq OldestReady(rdy)
           /\ rdy # {} => SelectEntry(rdy) # {}
<1>1. CASE rdy = {}
  BY <1>1 DEF SelectEntry
<1>2. CASE rdy # {}
  <2>1. OldestReady(rdy) # {}
    BY <1>2, OldestExists
  <2>2. OldestReady(rdy) \subseteq Entries
    BY DEF OldestReady, IInv, TypeOK
  <2>3. FindFirstSet(OldestReady(rdy)) \in OldestReady(rdy)
    BY <2>1, <2>2, FindFirstSetIsSet
  <2> QED BY <1>2, <2>3 DEF SelectEntry
<1> QED BY <1>1, <1>2

-----------------------------------------------------------------------------
(* The scheduler starts empty. *)
LEMMA InitIInv == Init => IInv
BY DEF Init, IInv, TypeOK, RowsFresh, TotalOrder

(* An entry allocated while another leaves: its row is what remains. *)
LEMMA PushKeeps ==
    ASSUME IInv, NEW rdy \in SUBSET valid, Push(rdy)
    PROVE  IInv'
<1> DEFINE sel == SelectEntry(rdy)
           e == AllocEntry
<1>1. sel \subseteq rdy /\ rdy \subseteq valid
  BY SelectedIsOldest DEF OldestReady
<1>2. e \in Entries /\ e \notin valid
  <2>1. Entries \ valid # {} /\ Entries \ valid \subseteq Entries
    BY DEF Push, Full, IInv, TypeOK
  <2> QED BY <2>1, FindFirstSetIsSet DEF AllocEntry
<1>3. valid' = (valid \cup {e}) \ sel
  BY DEF Push
<1>4. matrix' = [i \in Entries |-> IF i = e THEN valid \ sel ELSE matrix[i] \ sel]
  BY DEF Push
<1>5. ready' = rdy /\ picked' = sel
  BY DEF Push
<1> HIDE DEF sel, e
<1>6. TypeOK'
  <2>1. valid' \subseteq Entries /\ ready' \subseteq Entries /\ picked' \subseteq ready'
    BY <1>1, <1>2, <1>3, <1>5 DEF IInv, TypeOK
  <2>2. valid \ sel \in SUBSET Entries
    BY DEF IInv, TypeOK
  <2>3. \A i \in Entries : matrix[i] \ sel \in SUBSET Entries
    BY DEF IInv, TypeOK
  <2>4. matrix' \in [Entries -> SUBSET Entries]
    BY <1>4, <2>2, <2>3
  <2> QED BY <2>1, <2>4 DEF TypeOK
<1>7. \A i \in valid' : matrix'[i] = IF i = e THEN valid \ sel ELSE matrix[i] \ sel
  BY <1>2, <1>3, <1>4 DEF IInv, TypeOK
<1>8. RowsFresh'
  <2> SUFFICES ASSUME NEW i \in valid'
               PROVE  matrix'[i] \subseteq valid' \ {i}
    BY DEF RowsFresh
  <2>1. CASE i = e
    BY <1>2, <1>3, <1>7, <2>1
  <2>2. CASE i # e
    <3>1. i \in valid /\ matrix'[i] = matrix[i] \ sel
      BY <1>3, <1>7, <2>2
    <3>2. matrix[i] \subseteq valid \ {i}
      BY <3>1 DEF IInv, RowsFresh
    <3> QED BY <1>3, <3>1, <3>2
  <2> QED BY <2>1, <2>2
<1>9. TotalOrder'
  <2> SUFFICES ASSUME NEW i \in valid', NEW j \in valid', i # j
               PROVE  /\ i \in matrix'[j] <=> j \notin matrix'[i]
                      /\ i \in matrix'[j] => matrix'[i] \subseteq matrix'[j]
    BY DEF TotalOrder
  <2>0. \A k \in valid' : k # e =>
          k \in valid \ sel /\ matrix'[k] = matrix[k] \ sel /\ e \notin matrix'[k]
    BY <1>2, <1>3, <1>7 DEF IInv, RowsFresh
  <2>1. CASE i = e
    <3>1. matrix'[i] = valid \ sel
      BY <1>7, <2>1
    <3> QED BY <2>0, <2>1, <3>1
  <2>2. CASE j = e
    <3>1. matrix'[j] = valid \ sel
      BY <1>7, <2>2
    <3>2. matrix[i] \subseteq valid
      BY <2>0, <2>2 DEF IInv, RowsFresh
    <3> QED BY <2>0, <2>2, <3>1, <3>2
  <2>3. CASE i # e /\ j # e
    <3>1. /\ i \in matrix[j] <=> j \notin matrix[i]
          /\ i \in matrix[j] => matrix[i] \subseteq matrix[j]
      BY <2>0, <2>3 DEF IInv, TotalOrder
    <3> QED BY <2>0, <2>3, <3>1
  <2> QED BY <2>1, <2>2, <2>3
<1> QED BY <1>6, <1>8, <1>9 DEF IInv

(* A cycle without an allocation only removes what was selected. *)
LEMMA NoPushKeeps ==
    ASSUME IInv, NEW rdy \in SUBSET valid, NoPush(rdy)
    PROVE  IInv'
<1> DEFINE sel == SelectEntry(rdy)
<1>1. sel \subseteq rdy /\ rdy \subseteq valid
  BY SelectedIsOldest DEF OldestReady
<1>2. /\ valid' = valid \ sel
      /\ matrix' = [i \in Entries |-> matrix[i] \ sel]
      /\ ready' = rdy /\ picked' = sel
  BY DEF NoPush
<1> HIDE DEF sel
<1>3. TypeOK'
  BY <1>1, <1>2 DEF IInv, TypeOK
<1>4. \A i \in valid' : i \in valid /\ i \notin sel /\ matrix'[i] = matrix[i] \ sel
  BY <1>2 DEF IInv, TypeOK
<1>5. RowsFresh'
  BY <1>2, <1>4 DEF IInv, RowsFresh
<1>6. TotalOrder'
  BY <1>4 DEF IInv, TotalOrder
<1> QED BY <1>3, <1>5, <1>6 DEF IInv

(* Every action preserves the order. *)
LEMMA NextIInv == IInv /\ [Next]_vars => IInv'
<1> SUFFICES ASSUME IInv, [Next]_vars PROVE IInv'
  OBVIOUS
<1>1. CASE \E rdy \in SUBSET valid : Push(rdy) \/ NoPush(rdy)
  BY <1>1, PushKeeps, NoPushKeeps
<1>2. CASE FlashClear
  BY <1>2 DEF FlashClear, IInv, TypeOK, RowsFresh, TotalOrder
<1>3. CASE UNCHANGED vars
  BY <1>3 DEF vars, IInv, TypeOK, RowsFresh, TotalOrder
<1> QED BY <1>1, <1>2, <1>3 DEF Next

(* The inductive invariant of a scheduler. *)
THEOREM Invariant == Spec => []IInv
BY InitIInv, NextIInv, PTL DEF Spec

(* For every number of entries the matrix holds one strict total order of the
   valid entries. *)
THEOREM AlwaysTotalOrder == Spec => []TotalOrder
<1>1. IInv => TotalOrder
  BY DEF IInv
<1> QED BY <1>1, Invariant, PTL

(* Whenever entries are ready the scheduler has exactly one to select. *)
THEOREM AlwaysUniqueOldest == Spec => []UniqueOldest
<1>1. IInv => UniqueOldest
  BY OldestExists DEF UniqueOldest
<1> QED BY <1>1, Invariant, PTL

-----------------------------------------------------------------------------
\* What a matrix has to be for its rows to stand for a queue of v.
Ordered(v, rows) ==
    /\ IsFiniteSet(v)
    /\ \A i \in v : rows[i] \subseteq v \ {i}
    /\ \A i, j \in v : i # j =>
          /\ i \in rows[j] <=> j \notin rows[i]
          /\ i \in rows[j] => rows[i] \subseteq rows[j]

(* The rows of the valid entries are such a matrix (r_alu_sched_matrix). *)
LEMMA InvOrdered == IInv => Ordered(valid, matrix)
<1>1. IsFiniteSet(Entries)
  BY NumEntriesAssumption, FS_Interval DEF Entries
<1> QED BY <1>1, FS_Subset DEF IInv, TypeOK, RowsFresh, TotalOrder, Ordered

(* So are the rows after a cycle (n_alu_sched_matrix). *)
LEMMA InvOrderedNext == IInv' => Ordered(valid', matrix')
<1>1. IsFiniteSet(Entries)
  BY NumEntriesAssumption, FS_Interval DEF Entries
<1> QED BY <1>1, FS_Subset DEF IInv, TypeOK, RowsFresh, TotalOrder, Ordered

(* An older entry has fewer older ones: the ranks of a matrix tell its entries
   apart, and are below their number. *)
LEMMA Ranks ==
    ASSUME NEW v, NEW rows, Ordered(v, rows), NEW i \in v
    PROVE  /\ IsFiniteSet(rows[i]) /\ Cardinality(rows[i]) \in 0 .. Cardinality(v) - 1
           /\ Cardinality(v) \in Nat
           /\ \A j \in v : i # j =>
                 /\ Cardinality(rows[i]) # Cardinality(rows[j])
                 /\ i \in rows[j] <=> Cardinality(rows[i]) < Cardinality(rows[j])
<1>1. IsFiniteSet(v) /\ Cardinality(v) \in Nat
  BY FS_CardinalityType DEF Ordered
<1>2. ASSUME NEW j \in v PROVE IsFiniteSet(rows[j]) /\ Cardinality(rows[j]) \in 0 .. Cardinality(v) - 1
  <2>1. rows[j] \in SUBSET v /\ rows[j] # v
    BY DEF Ordered
  <2>2. IsFiniteSet(rows[j]) /\ Cardinality(rows[j]) <= Cardinality(v) /\ Cardinality(rows[j]) # Cardinality(v)
    BY <1>1, <2>1, FS_Subset
  <2>3. Cardinality(rows[j]) \in Nat
    BY <2>2, FS_CardinalityType
  <2> QED BY <1>1, <2>2, <2>3
<1>3. ASSUME NEW j \in v, NEW k \in v, j # k, j \in rows[k]
      PROVE  Cardinality(rows[j]) < Cardinality(rows[k])
  <2>1. rows[j] \in SUBSET rows[k] /\ j \notin rows[j]
    BY <1>3 DEF Ordered
  <2>2. IsFiniteSet(rows[k])
    BY <1>2
  <2>3. /\ Cardinality(rows[j]) <= Cardinality(rows[k])
        /\ Cardinality(rows[k]) = Cardinality(rows[j]) => rows[j] = rows[k]
    BY <2>1, <2>2, FS_Subset
  <2>4. Cardinality(rows[j]) \in Int /\ Cardinality(rows[k]) \in Int
    BY <1>2
  <2> QED BY <1>3, <2>1, <2>3, <2>4
<1>4. ASSUME NEW j \in v, i # j
      PROVE  /\ Cardinality(rows[i]) # Cardinality(rows[j])
             /\ i \in rows[j] <=> Cardinality(rows[i]) < Cardinality(rows[j])
  <2>1. i \in rows[j] <=> j \notin rows[i]
    BY <1>4 DEF Ordered
  <2>2. i \in rows[j] => Cardinality(rows[i]) < Cardinality(rows[j])
    BY <1>3, <1>4
  <2>3. j \in rows[i] => Cardinality(rows[j]) < Cardinality(rows[i])
    BY <1>3, <1>4
  <2>4. Cardinality(rows[i]) \in Int /\ Cardinality(rows[j]) \in Int
    BY <1>2
  <2> QED BY <2>1, <2>2, <2>3, <2>4
<1> QED BY <1>1, <1>2, <1>4

(* Every rank below the number of entries is taken: the queue of a matrix is a
   sequence of its entries, each at the place of its rank. *)
LEMMA QueueIs ==
    ASSUME NEW v, NEW rows, Ordered(v, rows)
    PROVE  /\ QueueOf(v, rows) \in Seq(v)
           /\ Cardinality(v) \in Nat
           /\ Len(QueueOf(v, rows)) = Cardinality(v)
           /\ DOMAIN QueueOf(v, rows) = 1 .. Cardinality(v)
           /\ \A k \in 1 .. Cardinality(v) :
                 /\ QueueOf(v, rows)[k] \in v
                 /\ Cardinality(rows[QueueOf(v, rows)[k]]) = k - 1
           /\ \A i \in v :
                 /\ Cardinality(rows[i]) + 1 \in 1 .. Cardinality(v)
                 /\ QueueOf(v, rows)[Cardinality(rows[i]) + 1] = i
<1> DEFINE n == Cardinality(v)
           rank == [i \in v |-> Cardinality(rows[i])]
           q == QueueOf(v, rows)
<1>1. IsFiniteSet(v) /\ n \in Nat
  BY FS_CardinalityType DEF Ordered
<1>2. ASSUME NEW i \in v
      PROVE  /\ Cardinality(rows[i]) \in 0 .. n - 1
             /\ \A j \in v : i # j => Cardinality(rows[i]) # Cardinality(rows[j])
  BY Ranks
<1>3. IsFiniteSet(0 .. n - 1) /\ Cardinality(0 .. n - 1) = n
  BY <1>1, FS_Interval
<1>4. rank \in Injection(v, 0 .. n - 1)
  BY <1>2 DEF Injection, IsInjective
<1>5. rank \in Surjection(v, 0 .. n - 1)
  <2> HIDE DEF rank
  <2> QED BY <1>3, <1>4, FS_Injection
<1>6. ASSUME NEW k \in 1 .. n
      PROVE  q[k] \in v /\ Cardinality(rows[q[k]]) = k - 1
  <2>1. k - 1 \in 0 .. n - 1
    BY <1>1
  <2>2. \E i \in v : rank[i] = k - 1
    <3> HIDE DEF rank
    <3> QED BY <1>5, <2>1 DEF Surjection
  <2>3. \E i \in v : Cardinality(rows[i]) = k - 1
    BY <2>2
  <2>4. q[k] = CHOOSE i \in v : Cardinality(rows[i]) = k - 1
    BY DEF QueueOf
  <2> QED BY <2>3, <2>4
<1>7. q = [k \in 1 .. n |-> q[k]]
  BY DEF QueueOf
<1> HIDE DEF q
<1>8. q \in [1 .. n -> v]
  BY <1>6, <1>7
<1>9. q \in Seq(v) /\ Len(q) = n /\ DOMAIN q = 1 .. n
  BY <1>1, <1>8
<1>10. ASSUME NEW i \in v
       PROVE  Cardinality(rows[i]) + 1 \in 1 .. n /\ q[Cardinality(rows[i]) + 1] = i
  <2>1. Cardinality(rows[i]) + 1 \in 1 .. n
    BY <1>1, <1>2
  <2>2. PICK k \in 1 .. n : k = Cardinality(rows[i]) + 1
    BY <2>1
  <2>3. q[k] \in v /\ Cardinality(rows[q[k]]) = k - 1
    BY <1>6
  <2>4. k - 1 = Cardinality(rows[i])
    BY <1>2, <2>2
  <2>5. q[k] = i
    BY <1>2, <2>3, <2>4
  <2> QED BY <2>1, <2>2, <2>5
<1> QED BY <1>1, <1>6, <1>9, <1>10 DEF q

(* A sequence that puts every entry at the place of its rank is that queue. *)
LEMMA QueueUnique ==
    ASSUME NEW v, NEW rows, Ordered(v, rows), NEW q \in Seq(v), Len(q) = Cardinality(v),
           \A k \in 1 .. Cardinality(v) : Cardinality(rows[q[k]]) = k - 1
    PROVE  QueueOf(v, rows) = q
<1> DEFINE r == QueueOf(v, rows)
<1>1. r \in Seq(v) /\ Len(r) = Cardinality(v)
  BY QueueIs
<1>2. ASSUME NEW k \in 1 .. Len(r) PROVE r[k] = q[k]
  <2>0. k \in 1 .. Cardinality(v)
    BY <1>1
  <2>1. r[k] \in v /\ Cardinality(rows[r[k]]) = k - 1
    BY <2>0, QueueIs
  <2>2. q[k] \in v /\ Cardinality(rows[q[k]]) = k - 1
    BY <1>1, <2>0, ElementOfSeq
  <2>3. \A j \in v : r[k] # j => Cardinality(rows[r[k]]) # Cardinality(rows[j])
    BY <2>1, Ranks
  <2> QED BY <2>1, <2>2, <2>3
<1> HIDE DEF r
<1>3. r = q
  BY <1>1, <1>2, SeqEqual
<1> QED BY <1>3 DEF r

(* The queue depends on the rows of its entries alone. *)
LEMMA SameQueue ==
    ASSUME NEW v, NEW rows, Ordered(v, rows), NEW rows2, \A i \in v : rows2[i] = rows[i]
    PROVE  Ordered(v, rows2) /\ QueueOf(v, rows2) = QueueOf(v, rows)
<1>1. Ordered(v, rows2)
  BY DEF Ordered
<1> DEFINE q == QueueOf(v, rows)
<1>2. /\ q \in Seq(v) /\ Len(q) = Cardinality(v)
      /\ \A k \in 1 .. Cardinality(v) : q[k] \in v /\ Cardinality(rows[q[k]]) = k - 1
  BY QueueIs
<1> HIDE DEF q
<1>3. \A k \in 1 .. Cardinality(v) : Cardinality(rows2[q[k]]) = k - 1
  BY <1>2
<1>4. QueueOf(v, rows2) = q
  BY <1>1, <1>2, <1>3, QueueUnique
<1> QED BY <1>1, <1>4 DEF q

(* When an entry leaves and its column is cleared, the others keep their order:
   those that were younger move up one place (n_alu_sched_matrix). *)
LEMMA RemovedQueue ==
    ASSUME NEW v, NEW rows, Ordered(v, rows), NEW e \in v,
           NEW rows2, \A i \in v \ {e} : rows2[i] = rows[i] \ {e},
           NEW k \in 1 .. Cardinality(v), QueueOf(v, rows)[k] = e
    PROVE  /\ Ordered(v \ {e}, rows2)
           /\ QueueOf(v \ {e}, rows2) =
                [j \in 1 .. Len(QueueOf(v, rows)) - 1 |->
                    QueueOf(v, rows)[IF j < k THEN j ELSE j + 1]]
<1> DEFINE w == v \ {e}
           n == Cardinality(v)
           q == QueueOf(v, rows)
           p == [j \in 1 .. n - 1 |-> q[IF j < k THEN j ELSE j + 1]]
<1>1. n \in Nat /\ IsFiniteSet(w) /\ Cardinality(w) = n - 1
  BY FS_RemoveElement, FS_CardinalityType DEF Ordered
<1>2. Ordered(w, rows2)
  BY <1>1 DEF Ordered
<1>3. /\ q \in Seq(v) /\ Len(q) = n
      /\ \A j \in 1 .. n : q[j] \in v /\ Cardinality(rows[q[j]]) = j - 1
  BY QueueIs
<1>4. Cardinality(rows[e]) = k - 1 /\ q[k] = e
  BY <1>3
<1>5. ASSUME NEW i \in w
      PROVE  /\ IsFiniteSet(rows[i])
             /\ Cardinality(rows[i]) \in Nat
             /\ e \in rows[i] <=> k - 1 < Cardinality(rows[i])
  <2>1. i \in v /\ e # i
    OBVIOUS
  <2>2. IsFiniteSet(rows[i]) /\ Cardinality(rows[i]) \in 0 .. n - 1
    BY <2>1, Ranks
  <2>3. e \in rows[i] <=> Cardinality(rows[e]) < Cardinality(rows[i])
    BY <2>1, Ranks
  <2> QED BY <1>1, <1>4, <2>2, <2>3
<1> HIDE DEF q, n
<1>6. ASSUME NEW i \in w
      PROVE  Cardinality(rows2[i]) = IF k - 1 < Cardinality(rows[i])
                                     THEN Cardinality(rows[i]) - 1 ELSE Cardinality(rows[i])
  <2>1. rows2[i] = rows[i] \ {e}
    OBVIOUS
  <2>2. Cardinality(rows[i] \ {e}) =
           IF e \in rows[i] THEN Cardinality(rows[i]) - 1 ELSE Cardinality(rows[i])
    BY <1>5, FS_RemoveElement
  <2> QED BY <1>5, <2>1, <2>2
<1>7. ASSUME NEW j \in 1 .. n - 1
      PROVE  p[j] \in w /\ Cardinality(rows2[p[j]]) = j - 1
  <2>0. k \in 1 .. n
    BY DEF n
  <2>1. PICK m \in 1 .. n : m = IF j < k THEN j ELSE j + 1
    BY <1>1
  <2>2. p[j] = q[m] /\ m # k
    BY <1>1, <2>0, <2>1
  <2>3. q[m] \in v /\ Cardinality(rows[q[m]]) = m - 1
    BY <1>3
  <2>4. q[m] # e
    BY <1>1, <1>4, <2>0, <2>2, <2>3
  <2>5. k - 1 < m - 1 <=> ~(j < k)
    BY <1>1, <2>0, <2>1
  <2>6. Cardinality(rows2[q[m]]) = IF k - 1 < m - 1 THEN (m - 1) - 1 ELSE m - 1
    BY <1>6, <2>3, <2>4
  <2>7. Cardinality(rows2[q[m]]) = j - 1
    BY <1>1, <2>0, <2>1, <2>5, <2>6
  <2> QED BY <2>2, <2>3, <2>4, <2>7
<1>8. p \in [1 .. n - 1 -> w]
  <2>1. p = [j \in 1 .. n - 1 |-> p[j]]
    OBVIOUS
  <2> HIDE DEF p
  <2> QED BY <1>7, <2>1
<1> HIDE DEF p, w
<1>9. p \in Seq(w) /\ Len(p) = Cardinality(w)
  <2>1. n - 1 \in Nat
    BY <1>1 DEF n
  <2> QED BY <1>1, <1>8, <2>1
<1>10. QueueOf(w, rows2) = p
  BY <1>1, <1>2, <1>7, <1>9, QueueUnique
<1> QED BY <1>2, <1>3, <1>10 DEF p, w, q

(* An entry whose row holds all the others is the last of the queue
   (t_alu_sched_mask_valid). *)
LEMMA AppendedQueue ==
    ASSUME NEW v, NEW rows, Ordered(v, rows), NEW a, a \notin v,
           NEW rows2, v = rows2[a], NEW w, w = v \cup {a}, \A i \in v : rows2[i] = rows[i]
    PROVE  QueueOf(w, rows2) = QueueOf(v, rows) \o <<a>>
<1> DEFINE n == Cardinality(v)
           q == QueueOf(v, rows)
           p == q \o <<a>>
<1>1. IsFiniteSet(v) /\ n \in Nat /\ IsFiniteSet(w) /\ Cardinality(w) = n + 1
  BY FS_AddElement, FS_CardinalityType DEF Ordered
<1>2. Ordered(w, rows2)
  BY <1>1 DEF Ordered
<1>3. /\ q \in Seq(v) /\ Len(q) = n
      /\ \A j \in 1 .. n : q[j] \in v /\ Cardinality(rows[q[j]]) = j - 1
  BY QueueIs
<1> HIDE DEF q, n
<1>4. q \in Seq(w) /\ <<a>> \in Seq(w) /\ Len(<<a>>) = 1 /\ <<a>>[1] = a
  BY <1>3, SeqMonotonic
<1>5. /\ p \in Seq(w) /\ Len(p) = n + 1
      /\ \A j \in 1 .. n + 1 : p[j] = IF j <= n THEN q[j] ELSE <<a>>[j - n]
  BY <1>3, <1>4, ConcatProperties
<1> HIDE DEF p
<1>6. ASSUME NEW j \in 1 .. n + 1 PROVE Cardinality(rows2[p[j]]) = j - 1
  <2>1. CASE j <= n
    <3>1. j \in 1 .. n
      BY <1>1, <2>1
    <3> QED BY <1>3, <1>5, <3>1
  <2>2. CASE ~(j <= n)
    <3>1. j - n = 1 /\ j - 1 = n
      BY <1>1, <2>2
    <3>2. p[j] = a
      BY <1>4, <1>5, <2>2, <3>1
    <3> QED BY <3>1, <3>2 DEF n
  <2> QED BY <2>1, <2>2
<1>7. Len(p) = Cardinality(w)
  BY <1>1, <1>5
<1>8. \A j \in 1 .. Cardinality(w) : Cardinality(rows2[p[j]]) = j - 1
  BY <1>1, <1>6
<1>9. QueueOf(w, rows2) = p
  BY <1>2, <1>5, <1>7, <1>8, QueueUnique
<1> QED BY <1>9 DEF p, q

(* Selecting the oldest ready entry and clearing its column is what the queue
   does when the first ready one leaves. *)
LEMMA SelectLeaves ==
    ASSUME IInv, NEW rdy \in SUBSET valid, NEW rows2,
           \A i \in valid \ SelectEntry(rdy) : rows2[i] = matrix[i] \ SelectEntry(rdy),
           NEW new, ready' = rdy, picked' = SelectEntry(rdy),
           QueueOf(valid', matrix') = QueueOf(valid \ SelectEntry(rdy), rows2) \o new,
           QueueOf(valid \ SelectEntry(rdy), rows2) \in Seq(Entries)
    PROVE  Abstract!Cycle(rdy, new)
<1> DEFINE q == QueueOf(valid, matrix)
           sel == SelectEntry(rdy)
<1>1. Ordered(valid, matrix)
  BY InvOrdered
<1>2. CASE rdy = {}
  <2>1. sel = {}
    BY <1>2 DEF SelectEntry
  <2>2. QueueOf(valid, rows2) = q
    BY <1>1, <2>1, SameQueue
  <2> QED BY <1>2, <2>1, <2>2 DEF Abstract!Cycle
<1>3. CASE rdy # {}
  <2>1. PICK e \in rdy : sel = {e} /\ e \in OldestReady(rdy)
    <3>1. sel \subseteq OldestReady(rdy) /\ sel # {}
      BY <1>3, SelectedIsOldest
    <3>2. sel = {FindFirstSet(OldestReady(rdy))}
      BY <1>3 DEF SelectEntry
    <3> QED BY <3>1, <3>2 DEF OldestReady
  <2>2. PICK k \in 1 .. Cardinality(valid) : k = Cardinality(matrix[e]) + 1 /\ q[k] = e
    <3>1. e \in valid
      OBVIOUS
    <3>2. /\ Cardinality(matrix[e]) + 1 \in 1 .. Cardinality(valid)
          /\ q[Cardinality(matrix[e]) + 1] = e
      BY <1>1, <3>1, QueueIs
    <3> QED BY <3>2
  <2>3. Cardinality(valid) \in Nat /\ DOMAIN q = 1 .. Cardinality(valid)
    BY <1>1, QueueIs
  <2>4. ASSUME NEW j \in 1 .. k - 1 PROVE q[j] \notin rdy
    <3>1. j \in 1 .. Cardinality(valid)
      BY <2>2, <2>3
    <3>2. q[j] \in valid /\ Cardinality(matrix[q[j]]) = j - 1
      BY <1>1, <3>1, QueueIs
    <3>3. Cardinality(matrix[e]) = k - 1
      <4>1. Cardinality(matrix[e]) \in 0 .. Cardinality(valid) - 1
        BY <1>1, Ranks
      <4> QED BY <2>2, <4>1
    <3>4. j - 1 < k - 1
      BY <2>2, <2>3
    <3>5. q[j] # e
      BY <2>2, <2>3, <3>2, <3>3, <3>4
    <3>6. q[j] \in matrix[e] <=> Cardinality(matrix[q[j]]) < Cardinality(matrix[e])
      BY <1>1, <3>2, <3>5, Ranks
    <3> QED BY <2>1, <3>2, <3>3, <3>4, <3>6 DEF OldestReady
  <2>5. QueueOf(valid \ {e}, rows2) =
           [j \in 1 .. Len(q) - 1 |-> q[IF j < k THEN j ELSE j + 1]]
    <3>1. \A i \in valid \ {e} : rows2[i] = matrix[i] \ {e}
      BY <2>1
    <3>2. e \in valid /\ QueueOf(valid, matrix)[k] = e
      BY <2>2
    <3> HIDE DEF q, sel
    <3>3. QueueOf(valid \ {e}, rows2) =
             [j \in 1 .. Len(QueueOf(valid, matrix)) - 1 |->
                 QueueOf(valid, matrix)[IF j < k THEN j ELSE j + 1]]
      BY ONLY <1>1, <3>1, <3>2, k \in 1 .. Cardinality(valid), RemovedQueue
    <3> QED BY ONLY <3>3 DEF q
  <2> HIDE DEF q, sel
  <2>6. QueueOf(valid \ sel, rows2) = Abstract!Without(k)
    BY <2>1, <2>5 DEF Abstract!Without, q
  <2>7. picked' = {q[k]} /\ q[k] \in rdy
    BY <2>1, <2>2 DEF sel
  <2> QED BY <2>2, <2>3, <2>4, <2>6, <2>7 DEF Abstract!Cycle, q, sel
<1> QED BY <1>2, <1>3

(* The queue holds the valid entries. *)
LEMMA QueueHolds == IInv => Abstract!Occupied = valid
<1> SUFFICES ASSUME IInv PROVE Abstract!Occupied = valid
  OBVIOUS
<1> DEFINE q == QueueOf(valid, matrix)
<1>1. Ordered(valid, matrix)
  BY InvOrdered
<1>2. /\ DOMAIN q = 1 .. Cardinality(valid)
      /\ \A k \in 1 .. Cardinality(valid) : q[k] \in valid
      /\ \A i \in valid : /\ Cardinality(matrix[i]) + 1 \in 1 .. Cardinality(valid)
                          /\ q[Cardinality(matrix[i]) + 1] = i
  BY <1>1, QueueIs
<1> HIDE DEF q
<1>3. {q[k] : k \in DOMAIN q} = valid
  BY <1>2
<1> QED BY <1>3 DEF q, Abstract!Occupied

(* The scheduler implements AgeQueue: whatever entries its uops are put in,
   they leave oldest ready first (t_alu_select_entry). *)
THEOREM LeavesOldestFirst == Spec => OldestReadyFirst
<1>1. Init => Abstract!Init
  <2> SUFFICES ASSUME Init PROVE QueueOf(valid, matrix) = <<>> /\ ready = {} /\ picked = {}
    BY DEF Abstract!Init
  <2>1. Cardinality(valid) = 0
    BY FS_EmptySet DEF Init
  <2>2. QueueOf(valid, matrix) = <<>>
    <3>1. 1 .. Cardinality(valid) = {}
      BY <2>1
    <3> QED BY <3>1 DEF QueueOf
  <2> QED BY <2>2 DEF Init
<1>2. IInv /\ IInv' /\ [Next]_vars => [Abstract!Next]_(Abstract!vars)
  <2> SUFFICES ASSUME IInv, IInv', [Next]_vars PROVE [Abstract!Next]_(Abstract!vars)
    OBVIOUS
  <2>0. Ordered(valid, matrix) /\ Abstract!Occupied = valid
    BY InvOrdered, QueueHolds
  <2>1. ASSUME NEW rdy \in SUBSET valid, Push(rdy) \/ NoPush(rdy)
        PROVE  Abstract!Next
    <3> DEFINE sel == SelectEntry(rdy)
               rest == valid \ sel
               cut == [i \in Entries |-> matrix[i] \ sel]
    <3>0. valid \subseteq Entries
      BY DEF IInv, TypeOK
    <3>1. /\ \A i \in rest : cut[i] = matrix[i] \ sel
          /\ ready' = rdy /\ picked' = sel
      BY <2>1, <3>0 DEF Push, NoPush
    <3>2. Ordered(rest, cut)
      <4>1. IsFiniteSet(rest)
        BY <2>0, FS_Subset DEF Ordered
      <4> QED BY <2>0, <3>1, <4>1 DEF Ordered
    <3>3. QueueOf(rest, cut) \in Seq(Entries)
      <4>1. QueueOf(rest, cut) \in Seq(rest)
        BY <3>2, QueueIs
      <4> QED BY <3>0, <4>1, SeqMonotonic
    <3>4. CASE NoPush(rdy)
      <4>1. valid' = rest /\ matrix' = cut
        BY <3>4 DEF NoPush
      <4>2. QueueOf(valid', matrix') = QueueOf(rest, cut) \o <<>>
        BY <3>3, <4>1, ConcatEmptySeq
      <4>3. Abstract!Cycle(rdy, <<>>)
        BY <3>1, <3>3, <4>2, SelectLeaves
      <4> QED BY <2>0, <4>3 DEF Abstract!Next
    <3>5. CASE Push(rdy)
      <4> DEFINE entry == AllocEntry
      <4>1. entry \in Entries \ valid
        <5>1. Entries \ valid # {} /\ Entries \ valid \subseteq Entries
          BY <3>0, <3>5 DEF Push, Full
        <5> QED BY <5>1, FindFirstSetIsSet DEF AllocEntry
      <4>2. /\ valid' = (valid \cup {entry}) \ sel
            /\ matrix' = [i \in Entries |-> IF i = entry THEN rest ELSE matrix[i] \ sel]
        BY <3>5 DEF Push
      <4>3. sel \subseteq valid
        BY SelectedIsOldest DEF OldestReady
      <4> HIDE DEF entry, sel
      <4>4. valid' = rest \cup {entry} /\ entry \notin rest
        BY <4>1, <4>2, <4>3
      <4>5. matrix'[entry] = rest /\ \A i \in rest : matrix'[i] = cut[i]
        BY <3>0, <4>1, <4>2
      <4>6. QueueOf(valid', matrix') = QueueOf(rest, cut) \o <<entry>>
        <5> HIDE DEF rest, cut
        <5> QED BY <3>2, <4>4, <4>5, AppendedQueue
      <4>7. Abstract!Cycle(rdy, <<entry>>)
        <5> HIDE DEF cut
        <5> QED BY <3>1, <3>3, <4>6, SelectLeaves DEF sel
      <4>8. <<entry>> \in {<<e>> : e \in Entries \ Abstract!Occupied}
        BY <2>0, <4>1
      <4> QED BY <2>0, <4>7, <4>8 DEF Abstract!Next
    <3> QED BY <2>1, <3>4, <3>5
  <2>2. CASE FlashClear
    <3>1. Cardinality(valid') = 0
      BY <2>2, FS_EmptySet DEF FlashClear
    <3>2. QueueOf(valid', matrix') = <<>>
      <4>1. 1 .. Cardinality(valid') = {}
        BY <3>1
      <4> QED BY <4>1 DEF QueueOf
    <3> QED BY <2>2, <3>2 DEF FlashClear, Abstract!Clear, Abstract!Next
  <2>3. CASE UNCHANGED vars
    BY <2>3 DEF vars, Abstract!vars
  <2> QED BY <2>1, <2>2, <2>3 DEF Next
<1> QED BY <1>1, <1>2, Invariant, PTL DEF Spec, OldestReadyFirst, Abstract!Spec
=============================================================================
