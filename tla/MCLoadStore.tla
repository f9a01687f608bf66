------------------------------ MODULE MCLoadStore ------------------------------
(***************************************************************************)
(* LoadStore for TLC: one word of a line of set 0 is stored to and loaded; *)
(* the other operations evict that line, reach into the word from its      *)
(* neighbour, use the other set, or fault.                                 *)
(***************************************************************************)
EXTENDS LoadStore, TLC

Op(set, tag) ==
    [store |-> FALSE, lw |-> FALSE, nop |-> FALSE, unaligned |-> FALSE,
     set |-> set, tag |-> tag, word |-> 1, words |-> {1}, val |-> 0]
LoadWord(set, tag) == [Op(set, tag) EXCEPT !.lw = TRUE]
LoadPart(set, tag) == Op(set, tag)
Store(set, tag, v) == [Op(set, tag) EXCEPT !.store = TRUE, !.val = v]
\* It starts in word 0 and reaches into word 1.
StoreAcross(v) ==
    [Store(0, 0, v) EXCEPT !.unaligned = TRUE, !.word = 0, !.words = {0, 1}]

AcrossLines == [Op(0, 0) EXCEPT !.nop = TRUE]

MixedOps ==
    {LoadWord(0, 0), LoadWord(0, 1), LoadPart(0, 0), LoadPart(1, 0), AcrossLines,
     Store(0, 0, 1), StoreAcross(0)}
Symmetry == Permutations(Slots)
=============================================================================
