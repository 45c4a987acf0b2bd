------------------------------ MODULE Service -------------------------------
(***************************************************************************)
(* What the daemon (internal/hp/daemon.go) promises to the processes that  *)
(* call it, and nothing about how: a lookup, a record and a verdict each   *)
(* take effect in one step between the call and its answer, although every *)
(* handler works in several critical sections with others in between.      *)
(*                                                                         *)
(* asks[c].st is how far caller c has got:                                 *)
(*   idle    it asks nothing                 run   it was told to execute  *)
(*   asked   it wants a record and the       post  its result is on the    *)
(*           index was not looked at yet           way into the index      *)
(*   none    it may be told to execute       done  and in it, but the      *)
(*   hit     it will be given rec                  caller does not know    *)
(***************************************************************************)
CONSTANTS Callers, Keys, Records, NoKey, NoRecord,
  Promotes, \* <<c, o, k>>: a record of key c with outcome o answers key k
  Tears     \* writes to the disk may stop short, which spoils their neighbours

VARIABLES
  up,      \* the daemon answers
  index,   \* index[k]: the record served for k
  kept,    \* the records a restart finds
  asks

svcVars == <<up, index, kept, asks>>

NoAsk == [st |-> "idle", key |-> NoKey, wants |-> FALSE, rec |-> NoRecord]

SvcInit ==
  /\ up = FALSE
  /\ index = [k \in Keys |-> NoRecord]
  /\ kept = {}
  /\ asks = [c \in Callers |-> NoAsk]

Is(c, st) == asks[c].st = st
Moves(c, st, r) == asks' = [asks EXCEPT ![c].st = st, ![c].rec = r]
Leaves(c) == asks' = [asks EXCEPT ![c] = NoAsk]

(* The records of R are kept, and the others still are, unless the disk    *)
(* tears.                                                                  *)
Keeps(R) == IF Tears THEN kept' \subseteq kept \cup R ELSE kept' = kept \cup R

Ask(c, k, wants) ==
  /\ up /\ Is(c, "idle")
  /\ asks' = [asks EXCEPT ![c] = [st |-> IF wants THEN "asked" ELSE "none",
                                  key |-> k, wants |-> wants, rec |-> NoRecord]]
  /\ UNCHANGED <<up, index, kept>>

(* A HIT is decided: the record in the index at this moment, or one of a   *)
(* key that is in the index at this moment and promotes it.                *)
Find(c, r) ==
  /\ asks[c].st \in {"asked", "none"} /\ asks[c].wants
  /\ r.servable
  /\ \/ r = index[asks[c].key]
     \/ index[r.key] # NoRecord /\ <<r.key, r.out, asks[c].key>> \in Promotes
  /\ Moves(c, "hit", r)
  /\ UNCHANGED <<up, index, kept>>

(* Only a caller whose key was at some moment of its call not in the index *)
(* is told to execute.                                                     *)
FindNothing(c) ==
  /\ Is(c, "asked") /\ index[asks[c].key] = NoRecord
  /\ Moves(c, "none", NoRecord)
  /\ UNCHANGED <<up, index, kept>>

Hit(c) == Is(c, "hit") /\ Leaves(c) /\ Keeps({}) /\ UNCHANGED <<up, index>>
Miss(c) == Is(c, "none") /\ Moves(c, "run", NoRecord) /\ UNCHANGED <<up, index, kept>>

(* It executed and posts, or it will never be heard of again, or only to   *)
(* say that it has nothing.                                                *)
Post(c, r) ==
  /\ up /\ Is(c, "run") /\ r.key = asks[c].key
  /\ Moves(c, "post", r)
  /\ UNCHANGED <<up, index, kept>>
Gone(c) == Is(c, "run") /\ Leaves(c) /\ UNCHANGED <<up, index, kept>>
GiveUp(c) == up /\ Is(c, "run") /\ Moves(c, "done", NoRecord) /\ UNCHANGED <<up, index, kept>>

(* The result is in the index and kept, all of it; or the disk failed, and *)
(* what is kept of it only a restart will tell.                            *)
Lasting(c) == {r \in {asks[c].rec} : r.servable}
Put(c) ==
  /\ Is(c, "post")
  /\ index' = IF asks[c].rec.servable
              THEN [index EXCEPT ![asks[c].key] = asks[c].rec] ELSE index
  /\ Keeps(Lasting(c))
  /\ Moves(c, "done", NoRecord)
  /\ UNCHANGED up
PutFails(c) ==
  /\ Tears /\ Is(c, "post")
  /\ Keeps(Lasting(c))
  /\ Leaves(c)
  /\ UNCHANGED <<up, index>>
Posted(c) == Is(c, "done") /\ Leaves(c) /\ UNCHANGED <<up, index, kept>>

(* A verdict of shadow verification; whoever writes may spoil what is kept. *)
Forget(k) == up /\ index' = [index EXCEPT ![k] = NoRecord] /\ UNCHANGED <<up, kept, asks>>
Lose == Tears /\ Keeps({}) /\ UNCHANGED <<up, index, asks>>

(* The daemon dies: who waits for an answer goes on without, who posted    *)
(* believes it did not.  It starts, recalls one record after the other, and *)
(* answers when it has one of every key that has any.                      *)
Cut(a) ==
  IF a.st \in {"asked", "none", "hit"} THEN NoAsk
  ELSE IF a.st \in {"post", "done"} THEN [a EXCEPT !.st = "run", !.rec = NoRecord]
  ELSE a
Fall ==
  /\ up' = FALSE /\ index' = [k \in Keys |-> NoRecord]
  /\ asks' = [c \in Callers |-> Cut(asks[c])]
  /\ UNCHANGED kept
Recall(r) ==
  /\ ~up /\ r \in kept
  /\ index' = [index EXCEPT ![r.key] = r]
  /\ UNCHANGED <<up, kept, asks>>
Rise ==
  /\ ~up /\ up' = TRUE
  /\ \A k \in Keys : index[k] = NoRecord => \A r \in kept : r.key # k
  /\ UNCHANGED <<index, kept, asks>>

CallerStep(c) ==
  \/ \E k \in Keys, wants \in BOOLEAN : Ask(c, k, wants)
  \/ \E r \in Records : Find(c, r) \/ Post(c, r)
  \/ FindNothing(c) \/ Hit(c) \/ Miss(c)
  \/ Gone(c) \/ GiveUp(c) \/ Put(c) \/ PutFails(c) \/ Posted(c)

SvcNext ==
  \/ \E c \in Callers : CallerStep(c)
  \/ \E k \in Keys : Forget(k)
  \/ Lose
  \/ Fall
  \/ \E r \in Records : Recall(r)
  \/ Rise

SvcSpec == SvcInit /\ [][SvcNext]_svcVars
=============================================================================
