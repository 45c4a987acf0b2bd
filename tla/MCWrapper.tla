----------------------------- MODULE MCWrapper ------------------------------
(* Wrapper with interchangeable wrappers and inodes.                       *)
EXTENDS Wrapper, TLC

MCSymmetry == Permutations(Writers) \cup Permutations(Inodes)
=============================================================================
