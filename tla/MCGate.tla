------------------------------- MODULE MCGate -------------------------------
(* Gate with interchangeable parts.                                        *)
EXTENDS Gate, TLC

MCSymmetry == Permutations(Parts)
=============================================================================
