------------------------------- MODULE MCGate -------------------------------
(* Two contents of one size and one of another. *)
EXTENDS Gate, TLC
CONSTANTS c1, c2, long
TwoSizes == c1 :> 1 @@ c2 :> 1
ThreeSizes == TwoSizes @@ long :> 2
=============================================================================
