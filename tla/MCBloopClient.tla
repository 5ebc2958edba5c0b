--------------------------- MODULE MCBloopClient ---------------------------
(* Instances of BloopClient for TLC.                                       *)
EXTENDS BloopClient, TLC

CallerSymmetry == Permutations(Callers)
=============================================================================
