------------------------------ MODULE MCHierarchy ------------------------------
(***************************************************************************)
(* The program has a line of the second level in each of the two sets; its *)
(* code is in a line that takes the place of the first.  The other bank of *)
(* every line must come through as it was.                                 *)
(***************************************************************************)
EXTENDS Hierarchy

L(t, s, b) == [tag |-> t, set |-> s, bank |-> b]
MCDLines == {L(0, 0, 0), L(1, 1, 0)}
MCILines == {L(1, 0, 1)}
MCHostLines == {Outer(L(0, 0, 0))}
MCImage == [m \in L2Lines |-> [b \in Banks |-> (m.tag + b) % 2]]
================================================================================
