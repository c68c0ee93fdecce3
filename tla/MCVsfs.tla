-------------------------------- MODULE MCVsfs --------------------------------
(* Small instances of Vsfs for TLC.                                        *)
EXTENDS Vsfs, TLC

CONSTANTS a, b, c

(* One file within a block, one that ends inside its second block, one     *)
(* that fills two blocks exactly and so takes three, behind which cp may   *)
(* read garbage.                                                           *)
MCHostSize == (a :> 1) @@ (b :> 3) @@ (c :> 4)
=============================================================================
