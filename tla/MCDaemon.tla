----------------------------- MODULE MCDaemon ------------------------------
(* Daemon on three small instances: one command at two trees, the record   *)
(* of the first promotable to the second, beside a RECORD_ONLY command;    *)
(* and one key that many calls meet on.                                    *)
EXTENDS Daemon, TLC

CONSTANTS k1, k2, k3, ck, ck3, o1

OneKey == k1 :> ck
ThreeKeys == (k1 :> ck) @@ (k2 :> ck) @@ (k3 :> ck3)
NoPromotion == {}
FirstToSecond == {<<k1, o1, k2>>}
MCSymmetry == Permutations(Calls) \cup Permutations(Chans)
=============================================================================
