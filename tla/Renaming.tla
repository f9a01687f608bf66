-------------------------------- MODULE Renaming --------------------------------
(***************************************************************************)
(* What register renaming with precise faults promises, without reorder    *)
(* buffer slots, free lists or banks: instructions commit in program       *)
(* order, a new value goes to a register that no committed or pending      *)
(* value is in, and a recovery forgets the pending instructions and        *)
(* nothing else.                                                           *)
(***************************************************************************)
EXTENDS Integers, Sequences, FiniteSets

CONSTANTS NumLregs, NumPregs, Width

Lregs == 0 .. NumLregs - 1
Pregs == 0 .. NumPregs - 1
\* An instruction with destination 0 writes no register.
Instrs == [dst : Lregs \ {0}, pdst : Pregs] \cup {[dst |-> 0, pdst |-> 0]}

VARIABLES
    committed,  \* where each register's architectural value is
    pending     \* the uncommitted instructions, oldest first

vars == <<committed, pending>>

Writers == {i \in DOMAIN pending : pending[i].dst # 0}
Holding == {committed[l] : l \in Lregs} \cup {pending[i].pdst : i \in Writers}

Init ==
    /\ committed = [l \in Lregs |-> l]
    /\ pending = <<>>

\* The youngest of the n oldest instructions that writes l decides.
HolderAfter(l, n) ==
    LET w == {i \in Writers : i <= n /\ pending[i].dst = l}
    IN  IF w = {} THEN committed[l]
        ELSE pending[CHOOSE i \in w : \A j \in w : j <= i].pdst
CommittedAfter(n) == [l \in Lregs |-> HolderAfter(l, n)]

\* Up to Width instructions commit and up to Width start.
Advance(n, new) ==
    /\ n <= Len(pending)
    /\ committed' = CommittedAfter(n)
    /\ pending' = SubSeq(pending, n + 1, Len(pending)) \o new
    /\ \A i \in DOMAIN new : new[i].dst # 0 => new[i].pdst \notin Holding
    /\ \A i, j \in DOMAIN new :
          new[i].dst # 0 /\ new[j].dst # 0 /\ i # j => new[i].pdst # new[j].pdst

\* The write of an instruction that faults never happens.
DropFaulting ==
    /\ pending # <<>>
    /\ pending' = Tail(pending)
    /\ UNCHANGED committed

Recover ==
    /\ pending' = <<>>
    /\ UNCHANGED committed

News(k) == [1 .. k -> Instrs]

\* The lengths tell how many have started, before one asks which.
Next ==
    \/ \E n, k \in 0 .. Width :
          /\ Len(pending') = Len(pending) - n + k
          /\ \E new \in News(k) : Advance(n, new)
    \/ DropFaulting
    \/ Recover

Spec == Init /\ [][Next]_vars
=============================================================================
