------------------------------ MODULE MCBlobs ------------------------------
(* Blobs with interchangeable writers and inodes.                          *)
EXTENDS Blobs, TLC

MCSymmetry == Permutations(Writers) \cup Permutations(Inodes)
=============================================================================
