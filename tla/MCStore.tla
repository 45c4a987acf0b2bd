------------------------------ MODULE MCStore ------------------------------
(* Store on a small instance: one command recorded at two trees, so that   *)
(* both keys share their candidate slot, and two outcomes, so that a later *)
(* record of a key can be told from an earlier one.                        *)
EXTENDS Store, TLC

CONSTANTS k1, k2, ck

MCCandKey == (k1 :> ck) @@ (k2 :> ck)
=============================================================================
