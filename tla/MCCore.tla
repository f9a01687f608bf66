------------------------------- MODULE MCCore -------------------------------
(***************************************************************************)
(* Core for TLC: mixes of uops for the instances that the configurations   *)
(* run.                                                                    *)
(***************************************************************************)
EXTENDS Core

Uop(op, dst) == [op |-> op, dst |-> dst]

\* Every kind, with two writers of one register among them; "ret" also stands for a conditional branch and "j" for a nop.
EveryUop == {Uop("alu", 1), Uop("load", 1), Uop("store", 0),
             Uop("call", 1), Uop("ret", 0), Uop("j", 0), Uop("ii", 1),
             Uop("ser", 0), Uop("ser", 1), Uop("brk", 0), Uop("mon", 0)}
LiveUops == {Uop("store", 0), Uop("br", 0), Uop("ser", 0), Uop("mon", 0)}
SerialDstUops == {Uop("alu", 1), Uop("ser", 1)}
=============================================================================
