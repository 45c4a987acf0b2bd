------------------------------- MODULE Store -------------------------------
(***************************************************************************)
(* The record store of internal/hp/store.go: an append-only JSONL log on   *)
(* disk and, in the memory of the daemon, the two indexes rebuilt from it  *)
(* when the daemon starts.  servable maps a cache key to the record that   *)
(* is served for it; candidates holds, for a key without its tree hash,    *)
(* every servable record, which is what scoping (tier 1 and 2) promotes.   *)
(*                                                                         *)
(* Of the file the model keeps what a scan can see: log is the sequence of *)
(* parseable lines whose record is servable (ingest ignores every other    *)
(* line, so such a line is only felt through the newline it writes), and   *)
(* tail says how the file ends:                                            *)
(*   "clean"  after a newline;                                             *)
(*   "whole"  after a complete servable record whose newline is missing:   *)
(*            it is the last element of log, and a scan still parses it;   *)
(*   "torn"   after part of a record.                                      *)
(* The next line written is glued to an unfinished one and the two cannot  *)
(* be parsed together.                                                     *)
(***************************************************************************)
EXTENDS Naturals, Sequences

CONSTANTS
  Keys,        \* cache keys: hashes of (tree, environment, directory, command)
  CandKeys,    \* what is left of a key without its tree hash
  CandKey,     \* CandKey[k]: the candidate slot of key k
  Outs,        \* recorded outcomes: exit code, output blobs, read set
  NoKey,       \* the empty key of a record made without one
  NoRecord,    \* absence of a record in the servable index
  MaxLog       \* bound on the lines in log, and on the records indexed since start

Record == [key : Keys \cup {NoKey}, out : Outs, servable : BOOLEAN,
           verified : {"null", "true", "false"}]

ASSUME StoreAssumption ==
  /\ CandKey \in [Keys -> CandKeys]
  /\ NoKey \notin Keys
  /\ NoRecord \notin Record
  /\ MaxLog \in Nat

(* The records the program writes: an execution (servable or not, with no  *)
(* verdict), a hit, and a verdict of shadow verification, which handleVerify *)
(* never marks servable.                                                   *)
Lines == {r \in Record : r.servable => r.verified = "null"}

VARIABLES
  log, tail,             \* the file
  servable, candidates,  \* the indexes
  count,                 \* how many records the indexes have been given
  phase, pos,            \* "replay" while OpenStore scans line pos + 1
  evicted, lostKeys      \* history, read by the properties only: keys whose
                         \* record was evicted and never executed again, and
                         \* keys that had a line destroyed by gluing

fileVars == <<log, tail, lostKeys>>
indexVars == <<servable, candidates, count>>
storeVars == <<log, tail, servable, candidates, count, phase, pos, evicted, lostKeys>>

(* A candidate is a record with its position in the slice.                 *)
Candidate == [at : Nat, rec : Record]

StoreInit ==
  /\ log = <<>> /\ tail = "clean"
  /\ servable = [k \in Keys |-> NoRecord]
  /\ candidates = [c \in CandKeys |-> {}]
  /\ count = 0
  /\ phase = "replay" /\ pos = 0
  /\ evicted = {} /\ lostKeys = {}

-----------------------------------------------------------------------------
(* The indexes.                                                            *)

DropServable_ForgetsCandidates(key) ==
  /\ servable' = [servable EXCEPT ![key] = NoRecord]
  /\ UNCHANGED <<candidates, count>>

DropServable(key) ==
  IF servable[key] = NoRecord
  THEN UNCHANGED indexVars
  ELSE /\ servable' = [servable EXCEPT ![key] = NoRecord]
       /\ candidates' = [candidates EXCEPT ![CandKey[key]] =
                           {c \in @ : c.rec.key # key}]
       /\ UNCHANGED count

Indexed(r) == r.servable /\ r.key # NoKey

Ingest_KeepsFirst(r) ==
  IF ~Indexed(r)
  THEN UNCHANGED indexVars
  ELSE /\ servable' = [servable EXCEPT ![r.key] = IF @ = NoRecord THEN r ELSE @]
       /\ candidates' = [candidates EXCEPT ![CandKey[r.key]] =
                           @ \cup {[at |-> count + 1, rec |-> r]}]
       /\ count' = count + 1

Ingest(r) ==
  IF ~Indexed(r)
  THEN UNCHANGED indexVars
  ELSE IF r.verified = "false"
  THEN DropServable(r.key)
  ELSE /\ servable' = [servable EXCEPT ![r.key] = r]
       /\ candidates' = [candidates EXCEPT ![CandKey[r.key]] =
                           @ \cup {[at |-> count + 1, rec |-> r]}]
       /\ count' = count + 1

-----------------------------------------------------------------------------
(* The file.                                                               *)

LastLine == log[Len(log)]
ButLastLine == SubSeq(log, 1, Len(log) - 1)

(* A line and its newline reach the file.                                  *)
WriteLine(r) ==
  /\ r.servable => Len(log) < MaxLog
  /\ tail' = "clean"
  /\ \/ /\ tail = "clean"
        /\ log' = IF r.servable THEN Append(log, r) ELSE log
        /\ lostKeys' = IF r.servable THEN lostKeys \ {r.key} ELSE lostKeys
     \/ /\ tail = "torn"
        /\ log' = log
        /\ lostKeys' = IF r.servable THEN lostKeys \cup {r.key} ELSE lostKeys
     \/ /\ tail = "whole"
        /\ log' = ButLastLine
        /\ lostKeys' = lostKeys \cup {LastLine.key}
                         \cup (IF r.servable THEN {r.key} ELSE {})

(* The write stops short: a full disk, or the daemon dies inside it.       *)
WritePart(r) ==
  /\ r.servable => Len(log) < MaxLog
  /\ \/ /\ tail = "clean" /\ r.servable
        /\ tail' = "whole" /\ log' = Append(log, r)
        /\ UNCHANGED lostKeys
     \/ /\ tail' = "torn"
        /\ log' = IF tail = "whole" THEN ButLastLine ELSE log
        /\ lostKeys' = IF tail = "whole" THEN lostKeys \cup {LastLine.key} ELSE lostKeys

-----------------------------------------------------------------------------
(* The operations, each under Store.mu.                                    *)

(* Append: the line is on disk before the index knows it.                  *)
AppendRecord(r) ==
  /\ phase = "open" /\ (Indexed(r) => count < MaxLog)
  /\ WriteLine(r)
  /\ Ingest(r)
  /\ evicted' = IF Indexed(r) THEN evicted \ {r.key} ELSE evicted
  /\ UNCHANGED <<phase, pos>>

AppendShort_Ingests(r) ==
  /\ phase = "open" /\ count < MaxLog
  /\ WritePart(r)
  /\ Ingest(r)
  /\ UNCHANGED <<phase, pos, evicted>>

(* Append returns the error of a short write without ingesting.            *)
AppendShort(r) ==
  /\ phase = "open"
  /\ WritePart(r)
  /\ UNCHANGED <<indexVars, phase, pos, evicted>>

(* Evict forgets the key in memory; nothing is written.                    *)
Evict(key) ==
  /\ phase = "open"
  /\ DropServable(key)
  /\ evicted' = evicted \cup {key}
  /\ UNCHANGED <<fileVars, phase, pos>>

(* The process ends, at any point, and its memory is gone.                 *)
Crash ==
  /\ servable' = [k \in Keys |-> NoRecord]
  /\ candidates' = [c \in CandKeys |-> {}]
  /\ count' = 0
  /\ phase' = "replay" /\ pos' = 0
  /\ UNCHANGED <<fileVars, evicted>>

(* replay: the scan of the log on startup, one line at a time.             *)
ReplayLine ==
  /\ phase = "replay" /\ pos < Len(log)
  /\ Ingest(log[pos + 1])
  /\ pos' = pos + 1
  /\ UNCHANGED <<fileVars, phase, evicted>>

ReplayDone_KeepsPos ==
  /\ phase = "replay" /\ pos = Len(log)
  /\ phase' = "open" /\ pos' = pos
  /\ UNCHANGED <<fileVars, indexVars, evicted>>

ReplayDone_Early ==
  /\ phase = "replay" /\ (pos = Len(log) \/ pos + 1 = Len(log))
  /\ phase' = "open" /\ pos' = 0
  /\ UNCHANGED <<fileVars, indexVars, evicted>>

ReplayDone ==
  /\ phase = "replay" /\ pos = Len(log)
  /\ phase' = "open" /\ pos' = 0
  /\ UNCHANGED <<fileVars, indexVars, evicted>>

StoreNext ==
  \/ \E r \in Lines : AppendRecord(r)
  \/ \E r \in Lines : AppendShort(r)
  \/ \E k \in Keys : Evict(k)
  \/ Crash
  \/ ReplayLine
  \/ ReplayDone

StoreSpec == StoreInit /\ [][StoreNext]_storeVars

-----------------------------------------------------------------------------
(* Properties.                                                             *)

(* The shape of the file, the indexes and the scan.                        *)
StoreTypeOK ==
  /\ log \in Seq({r \in Lines : r.servable})
  /\ tail \in {"clean", "whole", "torn"}
  /\ tail = "whole" => log # <<>>
  /\ servable \in [Keys -> Record \cup {NoRecord}]
  /\ candidates \in [CandKeys -> SUBSET Candidate]
  /\ count \in Nat
  /\ phase \in {"replay", "open"}
  /\ pos \in 0 .. Len(log)
  /\ phase = "open" => pos = 0
  /\ evicted \subseteq Keys
  /\ lostKeys \subseteq Keys \cup {NoKey}

(* The candidate index never outlives the servable index: every candidate  *)
(* is a record of a key that is servable now, and the record served for a  *)
(* key is the newest of that key's candidates.  dropServable's comment     *)
(* gives the reason: a record forgotten by one index only would come back  *)
(* through scoping after it was evicted.                                   *)
ServableIsCandidate(k) ==
  servable[k] # NoRecord =>
    /\ servable[k].key = k /\ servable[k].servable
    /\ \E c \in candidates[CandKey[k]] :
         /\ c.rec = servable[k]
         /\ \A d \in candidates[CandKey[k]] : d.rec.key = k => d.at <= c.at
CandidatesAreServable ==
  \A ck \in CandKeys : \A c \in candidates[ck] :
    /\ c.rec.servable /\ c.rec.key \in Keys /\ CandKey[c.rec.key] = ck
    /\ servable[c.rec.key] # NoRecord
    /\ c.at <= count
IndexesAgree == CandidatesAreServable /\ \A k \in Keys : ServableIsCandidate(k)

(* While the log is being scanned the servable index is exactly what the   *)
(* lines read so far say: the last line of a key wins, and a key without a *)
(* line is not servable.                                                   *)
LineOf(i, k) == log[i].key = k
ReplayLastLineWins ==
  phase = "replay" =>
    \A k \in Keys :
      \/ servable[k] = NoRecord /\ \A i \in 1 .. pos : ~LineOf(i, k)
      \/ \E i \in 1 .. pos :
           /\ LineOf(i, k) /\ servable[k] = log[i]
           /\ \A j \in (i + 1) .. pos : ~LineOf(j, k)

(* A restart brings the same record back, not only some record of the key: *)
(* what is served for a key is its last line in the log, and stays so      *)
(* through short writes, glued lines and evictions of other keys, unless a *)
(* line of that very key was destroyed.  Only a line that Append reported  *)
(* as an error, because its newline is missing, may come after it.         *)
Settled(i) == ~(tail = "whole" /\ i = Len(log))
ServableIsDurable ==
  phase = "open" =>
    \A k \in Keys : servable[k] # NoRecord /\ k \notin lostKeys =>
      \E i \in 1 .. Len(log) :
        /\ LineOf(i, k) /\ servable[k] = log[i]
        /\ \A j \in (i + 1) .. Len(log) : LineOf(j, k) => ~Settled(j)

(* The other direction: a key with a complete line in the log is servable  *)
(* once the scan is over, unless it was evicted.  The last line does not   *)
(* count while its newline is missing: Append reported it as an error.     *)
LogIsServed ==
  phase = "open" =>
    \A i \in 1 .. Len(log) : \A k \in Keys \ evicted :
      LineOf(i, k) /\ Settled(i) => servable[k] # NoRecord

(* An evicted key stays out of the index until the command is executed and *)
(* recorded again.  It does not hold: Evict writes nothing that a replay   *)
(* acts on, so the divergent record is servable again after a restart.     *)
EvictedStaysOut == \A k \in evicted : servable[k] = NoRecord
=============================================================================
