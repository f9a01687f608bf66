--------------------------- MODULE MCWritebackPort ---------------------------
(***************************************************************************)
(* WritebackPort for TLC.                                                  *)
(***************************************************************************)
EXTENDS WritebackPort, TLC

Symmetry == Permutations(Robs)
=============================================================================
