------------------------------ MODULE MCStore ------------------------------
(***************************************************************************)
(* Instances of Store for TLC: two processes, one or two files, contents   *)
(* of one and two bytes.                                                   *)
(***************************************************************************)
EXTENDS StoreInvariant, TLC

CONSTANTS p1, p2, f1, f2, small, large

MCSize == small :> 1 @@ large :> 2
MCPathRank == f1 :> 1 @@ f2 :> 2
MCPathRank1 == f1 :> 1
MCSymmetry == Permutations({p1, p2})
=============================================================================
