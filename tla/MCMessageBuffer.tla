--------------------------- MODULE MCMessageBuffer ---------------------------
(* Small instances of MessageBuffer for TLC.                               *)
EXTENDS MessageBuffer, TLC

(* The cells differ only in their names.                                   *)
CellSymmetry == Permutations(Cells)
=============================================================================
