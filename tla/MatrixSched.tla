----------------------------- MODULE MatrixSched -----------------------------
(***************************************************************************)
(* One of the two integer schedulers of exec.sv (r_alu_sched_valid and     *)
(* r_alu_sched_matrix; the one of port 2 has the same structure).          *)
(*                                                                         *)
(* Entries are filled and emptied in any order, so the position of a uop   *)
(* says nothing of its age.  Age is kept as a matrix of bits: row i holds  *)
(* the entries that are older than entry i.  A row is written when its     *)
(* entry is allocated and loses a column when that entry is selected.      *)
(*                                                                         *)
(* One step is one clock cycle.  Bit vectors are sets of entries.  Which   *)
(* entries have their operands is an input (t_alu_entry_rdy).              *)
(***************************************************************************)
EXTENDS Integers, FiniteSets

CONSTANT NumEntries  \* N_INT_SCHED_ENTRIES

ASSUME NumEntriesAssumption == NumEntries \in Nat \ {0}

VARIABLES
    valid,   \* r_alu_sched_valid
    matrix,  \* r_alu_sched_matrix
    ready,   \* t_alu_entry_rdy of the last cycle
    picked   \* the entry that t_alu_select_entry selected in it, as a set

vars == <<valid, matrix, ready, picked>>

Entries == 0 .. NumEntries - 1

\* w_alu_sched_oldest_ready
OldestReady(rdy) == {i \in rdy : matrix[i] \cap rdy = {}}

\* find_first_set looks at the high half first; with no bit set it returns a
\* value whose low bits, all that is used, are zero.
FindFirstSet(s) == IF s = {} THEN 0 ELSE CHOOSE i \in s : \A j \in s : j <= i

SelectEntry_ByPosition(rdy) == IF rdy = {} THEN {} ELSE {FindFirstSet(rdy)}
SelectEntry(rdy) == IF rdy = {} THEN {} ELSE {FindFirstSet(OldestReady(rdy))}

AllocEntry == FindFirstSet(Entries \ valid)

Full == valid = Entries
-----------------------------------------------------------------------------
Init ==
    /\ valid = {}
    /\ matrix = [i \in Entries |-> {}]
    /\ ready = {} /\ picked = {}

Push_NoRow(rdy) ==
    LET sel == SelectEntry(rdy) IN
    /\ ~Full
    /\ valid' = (valid \cup {AllocEntry}) \ sel
    /\ matrix' = [i \in Entries |-> matrix[i] \ sel]
    /\ ready' = rdy /\ picked' = sel
\* t_pop_uq: a uop enters a free entry while the ready ones compete.
Push(rdy) ==
    LET sel == SelectEntry(rdy) IN
    /\ ~Full
    /\ valid' = (valid \cup {AllocEntry}) \ sel
    /\ matrix' = [i \in Entries |->
                    IF i = AllocEntry THEN valid \ sel ELSE matrix[i] \ sel]
    /\ ready' = rdy /\ picked' = sel

\* The queue is empty or the scheduler is full.
NoPush(rdy) ==
    LET sel == SelectEntry(rdy) IN
    /\ valid' = valid \ sel
    /\ matrix' = [i \in Entries |-> matrix[i] \ sel]
    /\ ready' = rdy /\ picked' = sel

\* t_flash_clear: everything is thrown away, the selected uop included.
FlashClear ==
    /\ valid' = {}
    /\ matrix' = [i \in Entries |-> {}]
    /\ ready' = {} /\ picked' = {}

Next ==
    \/ \E rdy \in SUBSET valid : Push(rdy) \/ NoPush(rdy)
    \/ FlashClear

Spec == Init /\ [][Next]_vars
-----------------------------------------------------------------------------
TypeOK ==
    /\ valid \subseteq Entries
    /\ matrix \in [Entries -> SUBSET Entries]
    /\ ready \subseteq Entries /\ picked \subseteq ready

(* A row never names an entry that has gone, nor its own: a stale column
   would hold a ready uop back for ever. *)
RowsFresh == \A i \in valid : matrix[i] \subseteq valid \ {i}

(* The rows of valid entries are one strict total order. *)
TotalOrder ==
    \A i, j \in valid : i # j =>
        /\ i \in matrix[j] <=> j \notin matrix[i]
        /\ i \in matrix[j] => matrix[i] \subseteq matrix[j]

IInv == TypeOK /\ RowsFresh /\ TotalOrder

(* Whenever some entry is ready, exactly one is the oldest: with none the
   priority encoder would select an entry that is not ready, and with two
   the choice would be by position instead of age. *)
UniqueOldest ==
    \A rdy \in SUBSET valid : rdy # {} =>
        \E i \in rdy : OldestReady(rdy) = {i}
-----------------------------------------------------------------------------
\* The queue that the rows of the valid entries stand for: an entry's place is
\* the number of entries that are older.
QueueOf(v, rows) ==
    [k \in 1 .. Cardinality(v) |-> CHOOSE i \in v : Cardinality(rows[i]) = k - 1]

Abstract == INSTANCE AgeQueue WITH queue <- QueueOf(valid, matrix)

(* Uops leave oldest ready first, whatever entries they were put in: the
   selected entry is the first ready one of the queue (t_alu_select_entry). *)
OldestReadyFirst == Abstract!Spec
=============================================================================
