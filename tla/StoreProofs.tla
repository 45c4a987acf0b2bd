---------------------------- MODULE StoreProofs ----------------------------
(* Theorems about Store, for every set of keys, outcomes and every bound.  *)
EXTENDS Store, SequenceTheorems, TLAPS

LogLine == {r \in Lines : r.servable}

(* The conjunction of the store's invariants, which is inductive.          *)
StoreInv ==
  /\ StoreTypeOK
  /\ IndexesAgree
  /\ ReplayLastLineWins
  /\ ServableIsDurable
  /\ LogIsServed

-----------------------------------------------------------------------------
(* The operations on the indexes.                                          *)

(* Dropping a key keeps the types of the indexes.                          *)
LEMMA DropServableType ==
  ASSUME StoreTypeOK, NEW k \in Keys, DropServable(k)
  PROVE  /\ servable' \in [Keys -> Record \cup {NoRecord}]
         /\ candidates' \in [CandKeys -> SUBSET Candidate]
         /\ count' \in Nat
<1> USE StoreAssumption
<1>1. CASE servable[k] = NoRecord
  BY <1>1 DEF DropServable, indexVars, StoreTypeOK
<1>2. CASE servable[k] # NoRecord
  BY <1>2 DEF DropServable, StoreTypeOK
<1> QED BY <1>1, <1>2

(* Ingesting a record keeps the types of the indexes.                      *)
LEMMA IngestType ==
  ASSUME StoreTypeOK, NEW r \in Lines, Ingest(r)
  PROVE  /\ servable' \in [Keys -> Record \cup {NoRecord}]
         /\ candidates' \in [CandKeys -> SUBSET Candidate]
         /\ count' \in Nat
<1> USE StoreAssumption
<1>1. CASE ~Indexed(r)
  BY <1>1 DEF Ingest, indexVars, StoreTypeOK
<1>2. CASE Indexed(r)
  <2>1. r \in Record /\ r.key \in Keys /\ r.verified # "false"
    BY <1>2 DEF Indexed, Lines, Record
  <2>2. /\ servable' = [servable EXCEPT ![r.key] = r]
        /\ candidates' = [candidates EXCEPT ![CandKey[r.key]] =
                            @ \cup {[at |-> count + 1, rec |-> r]}]
        /\ count' = count + 1
    BY <1>2, <2>1 DEF Ingest
  <2>3. [at |-> count + 1, rec |-> r] \in Candidate
    BY <2>1 DEF StoreTypeOK, Candidate
  <2> QED BY <2>1, <2>2, <2>3 DEF StoreTypeOK
<1> QED BY <1>1, <1>2

(* Dropping a key keeps the two indexes in agreement.                      *)
LEMMA DropServableAgrees ==
  ASSUME StoreTypeOK, IndexesAgree, NEW k \in Keys, DropServable(k)
  PROVE  IndexesAgree'
<1> USE StoreAssumption
<1>1. CASE servable[k] = NoRecord
  BY <1>1 DEF DropServable, indexVars, IndexesAgree, CandidatesAreServable,
              ServableIsCandidate
<1>2. CASE servable[k] # NoRecord
  <2>1. /\ servable' = [servable EXCEPT ![k] = NoRecord]
        /\ candidates' = [candidates EXCEPT ![CandKey[k]] =
                            {c \in @ : c.rec.key # k}]
        /\ count' = count
    BY <1>2 DEF DropServable
  <2>2. \A ck \in CandKeys :
          candidates'[ck] = {c \in candidates[ck] : c.rec.key # k}
    BY <2>1 DEF StoreTypeOK, IndexesAgree, CandidatesAreServable
  <2>3. CandidatesAreServable'
    BY <2>1, <2>2 DEF StoreTypeOK, IndexesAgree, CandidatesAreServable
  <2>4. ASSUME NEW j \in Keys PROVE ServableIsCandidate(j)'
    <3>1. CASE j = k
      BY <2>1, <3>1 DEF StoreTypeOK, ServableIsCandidate
    <3>2. CASE j # k
      BY <2>1, <2>2, <3>2 DEF StoreTypeOK, IndexesAgree, ServableIsCandidate
    <3> QED BY <3>1, <3>2
  <2> QED BY <2>3, <2>4 DEF IndexesAgree
<1> QED BY <1>1, <1>2

(* Ingesting a record keeps the two indexes in agreement: its position is  *)
(* past every earlier one, so it is the newest candidate of its key.       *)
LEMMA IngestAgrees ==
  ASSUME StoreTypeOK, IndexesAgree, NEW r \in Lines, Ingest(r)
  PROVE  IndexesAgree'
<1> USE StoreAssumption
<1>1. CASE ~Indexed(r)
  BY <1>1 DEF Ingest, indexVars, IndexesAgree, CandidatesAreServable,
              ServableIsCandidate
<1>2. CASE Indexed(r)
  <2> DEFINE new == [at |-> count + 1, rec |-> r]
  <2>1. r \in Record /\ r.key \in Keys /\ r.verified # "false" /\ r.servable
    BY <1>2 DEF Indexed, Lines, Record
  <2>2. /\ servable' = [servable EXCEPT ![r.key] = r]
        /\ candidates' = [candidates EXCEPT ![CandKey[r.key]] = @ \cup {new}]
        /\ count' = count + 1
    BY <1>2, <2>1 DEF Ingest
  <2>3. new.at = count + 1 /\ new.rec = r /\ r # NoRecord
    BY <2>1
  <2> HIDE DEF new
  <2>4. \A ck \in CandKeys :
          candidates'[ck] = IF ck = CandKey[r.key]
                            THEN candidates[ck] \cup {new} ELSE candidates[ck]
    BY <2>1, <2>2 DEF StoreTypeOK
  <2>5. CandidatesAreServable'
    <3> SUFFICES ASSUME NEW ck \in CandKeys, NEW c \in candidates'[ck]
                 PROVE  /\ c.rec.servable /\ c.rec.key \in Keys
                        /\ CandKey[c.rec.key] = ck
                        /\ servable'[c.rec.key] # NoRecord
                        /\ c.at <= count'
      BY DEF CandidatesAreServable
    <3>1. CASE c \in candidates[ck]
      <4>1. /\ c.rec.servable /\ c.rec.key \in Keys /\ CandKey[c.rec.key] = ck
            /\ servable[c.rec.key] # NoRecord /\ c.at <= count /\ c.at \in Nat
        BY <3>1 DEF IndexesAgree, CandidatesAreServable, StoreTypeOK, Candidate
      <4> QED BY <2>1, <2>2, <2>3, <4>1 DEF StoreTypeOK
    <3>2. CASE c = new /\ ck = CandKey[r.key]
      BY <2>1, <2>2, <2>3, <3>2 DEF StoreTypeOK
    <3> QED BY <2>4, <3>1, <3>2
  <2>6. ASSUME NEW j \in Keys PROVE ServableIsCandidate(j)'
    <3>1. CASE j = r.key
      <4>1. new \in candidates'[CandKey[j]]
        BY <2>1, <2>4, <3>1
      <4>2. ASSUME NEW d \in candidates'[CandKey[j]] PROVE d.at <= new.at
        BY <2>2, <2>3, <2>5, <4>2 DEF CandidatesAreServable
      <4> QED BY <2>1, <2>2, <2>3, <3>1, <4>1, <4>2 DEF StoreTypeOK, ServableIsCandidate
    <3>2. CASE j # r.key
      <4>1. servable'[j] = servable[j] /\ ServableIsCandidate(j)
        BY <2>1, <2>2, <3>2 DEF StoreTypeOK, IndexesAgree
      <4>2. \A d \in candidates'[CandKey[j]] :
              d.rec.key = j => d \in candidates[CandKey[j]]
        BY <2>3, <2>4, <3>2
      <4>3. candidates[CandKey[j]] \subseteq candidates'[CandKey[j]]
        BY <2>4
      <4> QED BY <4>1, <4>2, <4>3 DEF ServableIsCandidate
    <3> QED BY <3>1, <3>2
  <2> QED BY <2>5, <2>6 DEF IndexesAgree
<1> QED BY <1>1, <1>2

(* What DropServable and Ingest do to the servable index.                  *)
LEMMA DropServableEffect ==
  ASSUME StoreTypeOK, NEW k \in Keys, DropServable(k), NEW j \in Keys
  PROVE  servable'[j] = IF j = k THEN NoRecord ELSE servable[j]
BY DEF DropServable, indexVars, StoreTypeOK

LEMMA IngestEffect ==
  ASSUME StoreTypeOK, NEW r \in Lines, Ingest(r), NEW j \in Keys
  PROVE  servable'[j] = IF r.servable /\ j = r.key THEN r ELSE servable[j]
<1>1. r \in Record /\ (r.servable => r.verified # "false") /\ NoKey \notin Keys
  BY StoreAssumption DEF Lines, Record
<1> QED BY <1>1 DEF Ingest, Indexed, indexVars, StoreTypeOK, Record

(* A record is never the mark of an absent one.                            *)
LEMMA LineIsRecord == ASSUME NEW r \in Lines PROVE r \in Record /\ r # NoRecord
BY StoreAssumption DEF Lines

-----------------------------------------------------------------------------
(* The operations on the file.                                             *)

(* All lines but the last.                                                 *)
LEMMA ButLastLineType ==
  ASSUME log \in Seq(LogLine), log # <<>>
  PROVE  /\ ButLastLine \in Seq(LogLine)
         /\ Len(ButLastLine) = Len(log) - 1
         /\ \A i \in 1 .. Len(log) - 1 : ButLastLine[i] = log[i]
         /\ LastLine \in LogLine
         /\ Len(log) \in Nat \ {0}
<1>1. Len(log) \in Nat /\ Len(log) # 0
  BY EmptySeq
<1>2. \A i \in 1 .. Len(log) : log[i] \in LogLine
  BY ElementOfSeq
<1> DEFINE n == Len(log) - 1
<1>3. n \in Nat /\ n \in Int /\ 1 \in Int /\ n - 1 + 1 = n
  BY <1>1
<1>4. \A i \in 1 .. n : log[i] \in LogLine
  BY <1>1, <1>2
<1> HIDE DEF n
<1>5. /\ SubSeq(log, 1, n) \in Seq(LogLine)
      /\ Len(SubSeq(log, 1, n)) = IF 1 <= n THEN n - 1 + 1 ELSE 0
      /\ \A i \in 1 .. n - 1 + 1 : SubSeq(log, 1, n)[i] = log[1 + i - 1]
  BY <1>3, <1>4, SubSeqProperties
<1>6. Len(SubSeq(log, 1, n)) = n /\ \A i \in 1 .. n : SubSeq(log, 1, n)[i] = log[i]
  BY <1>3, <1>5
<1> QED BY <1>1, <1>2, <1>5, <1>6 DEF ButLastLine, LastLine, n

(* A line appended to the log.                                             *)
LEMMA AppendLineType ==
  ASSUME log \in Seq(LogLine), NEW r \in LogLine
  PROVE  /\ Append(log, r) \in Seq(LogLine)
         /\ Len(Append(log, r)) = Len(log) + 1
         /\ Len(log) \in Nat
         /\ \A i \in 1 .. Len(log) : Append(log, r)[i] = log[i]
         /\ Append(log, r)[Len(log) + 1] = r
BY AppendProperties, LenProperties

(* Writing a line, whole or in part, keeps the type of the file.           *)
LEMMA WriteType ==
  ASSUME StoreTypeOK, NEW r \in Lines, WriteLine(r) \/ WritePart(r)
  PROVE  /\ log' \in Seq(LogLine)
         /\ tail' \in {"clean", "whole", "torn"}
         /\ tail' = "whole" => log' # <<>>
         /\ lostKeys' \subseteq Keys \cup {NoKey}
<1>1. log \in Seq(LogLine) /\ (tail = "whole" => log # <<>>)
  BY DEF StoreTypeOK, LogLine
<1>2. r.key \in Keys \cup {NoKey} /\ (r.servable => r \in LogLine)
  BY DEF Lines, Record, LogLine
<1>3. log # <<>> => LastLine.key \in Keys \cup {NoKey}
  BY <1>1, ButLastLineType DEF LogLine, Lines, Record
<1>4. CASE WriteLine(r)
  BY <1>1, <1>2, <1>3, <1>4, ButLastLineType, AppendLineType DEF WriteLine, StoreTypeOK
<1>5. CASE WritePart(r)
  <2>1. CASE tail = "clean" /\ r.servable /\ tail' = "whole"
             /\ log' = Append(log, r) /\ UNCHANGED lostKeys
    BY <1>1, <1>2, <2>1, AppendProperties DEF StoreTypeOK
  <2>2. CASE tail' = "torn" /\ tail = "whole" /\ log' = ButLastLine
             /\ lostKeys' = lostKeys \cup {LastLine.key}
    BY <1>1, <1>3, <2>2, ButLastLineType DEF StoreTypeOK
  <2>3. CASE tail' = "torn" /\ tail # "whole" /\ log' = log /\ lostKeys' = lostKeys
    BY <1>1, <2>3 DEF StoreTypeOK
  <2> QED BY <1>5, <2>1, <2>2, <2>3 DEF WritePart
<1> QED BY <1>4, <1>5

-----------------------------------------------------------------------------
(* Type correctness and agreement of the indexes, step by step.            *)

LEMMA StoreInitInv == StoreInit => StoreInv
<1> SUFFICES ASSUME StoreInit PROVE StoreInv
  OBVIOUS
<1> USE StoreAssumption DEF StoreInit
<1>1. StoreTypeOK
  BY EmptySeq DEF StoreTypeOK
<1>2. IndexesAgree
  BY DEF IndexesAgree, CandidatesAreServable, ServableIsCandidate
<1>3. ReplayLastLineWins /\ ServableIsDurable /\ LogIsServed
  BY DEF ReplayLastLineWins, ServableIsDurable, LogIsServed
<1> QED BY <1>1, <1>2, <1>3 DEF StoreInv

(* Every step keeps the types.                                             *)
LEMMA StoreTypeStep == StoreTypeOK /\ [StoreNext]_storeVars => StoreTypeOK'
<1> SUFFICES ASSUME StoreTypeOK, [StoreNext]_storeVars PROVE StoreTypeOK'
  OBVIOUS
<1> USE StoreAssumption
<1>0. log \in Seq(LogLine) /\ Len(log) \in Nat
  BY LenProperties DEF StoreTypeOK, LogLine
<1>1. ASSUME NEW r \in Lines, AppendRecord(r) PROVE StoreTypeOK'
  <2>1. evicted' \subseteq Keys
    BY <1>1 DEF AppendRecord, StoreTypeOK
  <2>2. phase' = "open" /\ pos' = 0 /\ WriteLine(r) /\ Ingest(r)
    BY <1>1 DEF AppendRecord, StoreTypeOK
  <2>3. Len(log') \in Nat
    BY <2>2, WriteType, LenProperties
  <2> QED BY <2>1, <2>2, <2>3, WriteType, IngestType DEF StoreTypeOK, LogLine
<1>2. ASSUME NEW r \in Lines, AppendShort(r) PROVE StoreTypeOK'
  <2>1. phase' = "open" /\ pos' = 0 /\ WritePart(r) /\ UNCHANGED <<indexVars, evicted>>
    BY <1>2 DEF AppendShort, StoreTypeOK
  <2>2. /\ log' \in Seq(LogLine) /\ tail' \in {"clean", "whole", "torn"}
        /\ tail' = "whole" => log' # <<>>
        /\ lostKeys' \subseteq Keys \cup {NoKey}
    BY <2>1, WriteType
  <2>3. Len(log') \in Nat
    BY <2>2, LenProperties
  <2>4. /\ servable' = servable /\ candidates' = candidates /\ count' = count
        /\ evicted' = evicted
    BY <2>1 DEF indexVars
  <2> QED BY <2>1, <2>2, <2>3, <2>4 DEF StoreTypeOK, LogLine
<1>3. ASSUME NEW k \in Keys, Evict(k) PROVE StoreTypeOK'
  <2>1. DropServable(k) /\ UNCHANGED <<fileVars, phase, pos>> /\ evicted' \subseteq Keys
    BY <1>3 DEF Evict, StoreTypeOK
  <2> QED BY <2>1, DropServableType DEF StoreTypeOK, fileVars
<1>4. CASE Crash
  BY <1>0, <1>4 DEF Crash, StoreTypeOK, fileVars
<1>5. CASE ReplayLine
  <2>1. log[pos + 1] \in Lines
    BY <1>0, <1>5, ElementOfSeq DEF ReplayLine, StoreTypeOK, LogLine
  <2>2. Ingest(log[pos + 1]) /\ UNCHANGED <<fileVars, phase, evicted>>
        /\ pos' \in 0 .. Len(log) /\ phase = "replay"
    BY <1>0, <1>5 DEF ReplayLine, StoreTypeOK
  <2> QED BY <2>1, <2>2, IngestType DEF StoreTypeOK, fileVars
<1>6. CASE ReplayDone
  BY <1>0, <1>6 DEF ReplayDone, StoreTypeOK, fileVars, indexVars
<1>7. CASE UNCHANGED storeVars
  BY <1>7 DEF storeVars, StoreTypeOK
<1> QED BY <1>1, <1>2, <1>3, <1>4, <1>5, <1>6, <1>7 DEF StoreNext

(* Every step keeps the two indexes in agreement.                          *)
LEMMA IndexesAgreeStep ==
  StoreTypeOK /\ IndexesAgree /\ [StoreNext]_storeVars => IndexesAgree'
<1> SUFFICES ASSUME StoreTypeOK, IndexesAgree, [StoreNext]_storeVars
             PROVE  IndexesAgree'
  OBVIOUS
<1>0. ASSUME UNCHANGED indexVars PROVE IndexesAgree'
  BY <1>0 DEF indexVars, IndexesAgree, CandidatesAreServable, ServableIsCandidate
<1>1. ASSUME NEW r \in Lines, AppendRecord(r) PROVE IndexesAgree'
  BY <1>1, IngestAgrees DEF AppendRecord
<1>2. ASSUME NEW r \in Lines, AppendShort(r) PROVE IndexesAgree'
  BY <1>0, <1>2 DEF AppendShort
<1>3. ASSUME NEW k \in Keys, Evict(k) PROVE IndexesAgree'
  BY <1>3, DropServableAgrees DEF Evict
<1>4. CASE Crash
  BY <1>4, StoreAssumption
     DEF Crash, IndexesAgree, CandidatesAreServable, ServableIsCandidate
<1>5. CASE ReplayLine
  <2>1. log[pos + 1] \in Lines
    BY <1>5, ElementOfSeq, LenProperties DEF ReplayLine, StoreTypeOK
  <2> QED BY <1>5, <2>1, IngestAgrees DEF ReplayLine
<1>6. CASE ReplayDone
  BY <1>0, <1>6 DEF ReplayDone
<1>7. CASE UNCHANGED storeVars
  BY <1>0, <1>7 DEF storeVars, indexVars
<1> QED BY <1>1, <1>2, <1>3, <1>4, <1>5, <1>6, <1>7 DEF StoreNext
-----------------------------------------------------------------------------
(* The log and the index.                                                  *)

(* The scan: after each line the index says what the lines read say.       *)
LEMMA ReplayStep ==
  StoreTypeOK /\ ReplayLastLineWins /\ [StoreNext]_storeVars => ReplayLastLineWins'
<1> SUFFICES ASSUME StoreTypeOK, ReplayLastLineWins, [StoreNext]_storeVars,
                    phase' = "replay", NEW k \in Keys
             PROVE  \/ servable'[k] = NoRecord /\ \A i \in 1 .. pos' : ~LineOf(i, k)'
                    \/ \E i \in 1 .. pos' :
                         /\ LineOf(i, k)' /\ servable'[k] = log'[i]
                         /\ \A j \in (i + 1) .. pos' : ~LineOf(j, k)'
  BY DEF ReplayLastLineWins
<1>0. log \in Seq(LogLine) /\ Len(log) \in Nat /\ pos \in 0 .. Len(log)
  BY LenProperties DEF StoreTypeOK, LogLine
<1>1. CASE Crash
  BY <1>1 DEF Crash
<1>2. CASE ReplayLine
  <2>1. /\ phase = "replay" /\ pos + 1 \in 1 .. Len(log) /\ pos' = pos + 1
        /\ log' = log /\ Ingest(log[pos + 1])
    BY <1>0, <1>2 DEF ReplayLine, fileVars
  <2>2. log[pos + 1] \in Lines /\ log[pos + 1].servable
    BY <1>0, <2>1, ElementOfSeq DEF LogLine
  <2>3. servable'[k] = IF k = log[pos + 1].key THEN log[pos + 1] ELSE servable[k]
    BY <2>1, <2>2, IngestEffect
  <2>4. \A i : LineOf(i, k)' <=> LineOf(i, k)
    BY <2>1 DEF LineOf
  <2>5. CASE k = log[pos + 1].key
    BY <1>0, <2>1, <2>3, <2>4, <2>5 DEF LineOf
  <2>6. CASE k # log[pos + 1].key
    <3>1. servable'[k] = servable[k] /\ ~LineOf(pos + 1, k)
      BY <2>3, <2>6 DEF LineOf
    <3>2. CASE servable[k] = NoRecord /\ \A i \in 1 .. pos : ~LineOf(i, k)
      BY <1>0, <2>1, <2>4, <3>1, <3>2
    <3>3. CASE \E i \in 1 .. pos :
                 /\ LineOf(i, k) /\ servable[k] = log[i]
                 /\ \A j \in (i + 1) .. pos : ~LineOf(j, k)
      <4>1. PICK i \in 1 .. pos :
              /\ LineOf(i, k) /\ servable[k] = log[i]
              /\ \A j \in (i + 1) .. pos : ~LineOf(j, k)
        BY <3>3
      <4>2. i \in 1 .. pos' /\ \A j \in (i + 1) .. pos' : j = pos + 1 \/ j \in (i + 1) .. pos
        BY <1>0, <2>1
      <4> QED BY <2>1, <2>4, <3>1, <4>1, <4>2
    <3> QED BY <2>1, <3>2, <3>3 DEF ReplayLastLineWins
  <2> QED BY <2>5, <2>6
<1>3. CASE UNCHANGED storeVars
  BY <1>3 DEF storeVars, ReplayLastLineWins, LineOf
<1>4. CASE \E r \in Lines : AppendRecord(r) \/ AppendShort(r)
  BY <1>4 DEF AppendRecord, AppendShort
<1>5. CASE \E j \in Keys : Evict(j)
  BY <1>5 DEF Evict
<1>6. CASE ReplayDone
  BY <1>6 DEF ReplayDone
<1> QED BY <1>1, <1>2, <1>3, <1>4, <1>5, <1>6 DEF StoreNext

(* What a write leaves in the log: the last settled line of a key whose    *)
(* lines are not destroyed is still there and still the last, unless the   *)
(* line that is written is of that key.                                    *)
LEMMA WriteKeepsLast ==
  ASSUME StoreTypeOK, NEW r \in Lines, WriteLine(r) \/ WritePart(r),
         NEW k \in Keys, k \notin lostKeys', WriteLine(r) => ~(r.servable /\ k = r.key),
         NEW i \in 1 .. Len(log), LineOf(i, k),
         \A j \in (i + 1) .. Len(log) : LineOf(j, k) => ~Settled(j)
  PROVE  /\ i \in 1 .. Len(log') /\ log'[i] = log[i]
         /\ \A j \in (i + 1) .. Len(log') : LineOf(j, k)' => ~Settled(j)'
<1>1. log \in Seq(LogLine) /\ Len(log) \in Nat /\ (tail = "whole" => log # <<>>)
  BY LenProperties DEF StoreTypeOK, LogLine
<1>2. CASE tail # "whole" /\ log' = log
  BY <1>2 DEF LineOf, Settled
<1>3. CASE tail = "clean" /\ r.servable /\ log' = Append(log, r)
  <2>1. /\ Len(log') = Len(log) + 1 /\ log'[Len(log) + 1] = r
        /\ \A j \in 1 .. Len(log) : log'[j] = log[j]
    BY <1>1, <1>3, AppendLineType DEF LogLine
  <2>2. \A j \in (i + 1) .. Len(log) : ~LineOf(j, k)'
    BY <1>1, <1>3, <2>1 DEF LineOf, Settled
  <2>3. r.key = k => tail' = "whole"
    <3>1. Len(log') # Len(log) /\ log' # log
      BY <1>1, <2>1
    <3>2. WritePart(r) => tail' = "whole"
      BY <1>3, <3>1 DEF WritePart
    <3> QED BY <1>3, <3>2
  <2>4. \A j \in (i + 1) .. Len(log') : j = Len(log') \/ j \in (i + 1) .. Len(log)
    BY <1>1, <2>1
  <2> QED BY <1>1, <2>1, <2>2, <2>3, <2>4 DEF LineOf, Settled
<1>4. CASE tail = "whole" /\ log' = ButLastLine /\ LastLine.key \in lostKeys'
  <2>1. /\ Len(log') = Len(log) - 1
        /\ \A j \in 1 .. Len(log) - 1 : log'[j] = log[j]
    BY <1>1, <1>4, ButLastLineType
  <2>2. i # Len(log)
    BY <1>4 DEF LineOf, LastLine
  <2>3. \A j \in (i + 1) .. Len(log) - 1 : ~LineOf(j, k)
    BY <1>1, <1>4 DEF Settled
  <2> QED BY <1>1, <2>1, <2>2, <2>3 DEF LineOf
<1> QED BY <1>1, <1>2, <1>3, <1>4 DEF WriteLine, WritePart

(* The record served for a key stays its last settled line.                *)
LEMMA DurableStep ==
  StoreInv /\ [StoreNext]_storeVars => ServableIsDurable'
<1> SUFFICES ASSUME StoreInv, [StoreNext]_storeVars,
                    phase' = "open", NEW k \in Keys,
                    servable'[k] # NoRecord, k \notin lostKeys'
             PROVE  \E i \in 1 .. Len(log') :
                      /\ LineOf(i, k)' /\ servable'[k] = log'[i]
                      /\ \A j \in (i + 1) .. Len(log') : LineOf(j, k)' => ~Settled(j)'
  BY DEF ServableIsDurable
<1> DEFINE Last == \E i \in 1 .. Len(log) :
                     /\ LineOf(i, k) /\ servable[k] = log[i]
                     /\ \A j \in (i + 1) .. Len(log) : LineOf(j, k) => ~Settled(j)
<1>0. /\ StoreTypeOK /\ log \in Seq(LogLine) /\ Len(log) \in Nat
      /\ tail = "whole" => log # <<>>
  BY LenProperties DEF StoreInv, StoreTypeOK, LogLine
<1>a. ASSUME phase = "open", servable[k] # NoRecord, k \notin lostKeys PROVE Last
  BY <1>a DEF StoreInv, ServableIsDurable
<1>b. ASSUME Last, UNCHANGED <<log, tail>>, servable'[k] = servable[k] PROVE Last'
  BY <1>b DEF LineOf, Settled
<1>c. ASSUME Last, NEW r \in Lines, WriteLine(r) \/ WritePart(r),
             WriteLine(r) => ~(r.servable /\ k = r.key), servable'[k] = servable[k]
      PROVE  Last'
  <2>1. PICK i \in 1 .. Len(log) :
          /\ LineOf(i, k) /\ servable[k] = log[i]
          /\ \A j \in (i + 1) .. Len(log) : LineOf(j, k) => ~Settled(j)
    BY <1>c
  <2>2. /\ i \in 1 .. Len(log') /\ log'[i] = log[i]
        /\ \A j \in (i + 1) .. Len(log') : LineOf(j, k)' => ~Settled(j)'
    BY <1>0, <1>c, <2>1, WriteKeepsLast
  <2> QED BY <1>c, <2>1, <2>2 DEF LineOf
<1> HIDE DEF Last
<1> SUFFICES Last'
  BY DEF Last
<1>1. ASSUME NEW r \in Lines, AppendRecord(r) PROVE Last'
  <2>1. phase = "open" /\ WriteLine(r) /\ Ingest(r)
    BY <1>1 DEF AppendRecord
  <2>2. CASE r.servable /\ k = r.key
    <3>1. r \in LogLine /\ log' = Append(log, r)
      BY <2>1, <2>2 DEF WriteLine, LogLine
    <3>2. Len(log') = Len(log) + 1 /\ log'[Len(log) + 1] = r
      BY <1>0, <3>1, AppendLineType
    <3>3. servable'[k] = r
      BY <1>0, <2>1, <2>2, IngestEffect
    <3> QED BY <1>0, <2>2, <3>2, <3>3 DEF LineOf, Last
  <2>3. CASE ~(r.servable /\ k = r.key)
    <3>1. servable'[k] = servable[k]
      BY <1>0, <2>1, <2>3, IngestEffect
    <3>2. k \notin lostKeys
      BY <2>1, <2>3 DEF WriteLine
    <3> QED BY <1>a, <1>c, <2>1, <2>3, <3>1, <3>2
  <2> QED BY <2>2, <2>3
<1>2. ASSUME NEW r \in Lines, AppendShort(r) PROVE Last'
  <2>1. phase = "open" /\ WritePart(r) /\ servable' = servable
    BY <1>2 DEF AppendShort, indexVars
  <2>2. k \notin lostKeys
    BY <2>1 DEF WritePart
  <2>3. WriteLine(r) => ~(r.servable /\ k = r.key)
    <3>1. ASSUME WriteLine(r), r.servable, k = r.key PROVE FALSE
      <4>1. tail' = "clean"
        BY <3>1 DEF WriteLine
      <4> QED BY <2>1, <4>1 DEF WritePart
    <3> QED BY <3>1
  <2> QED BY <1>a, <1>c, <2>1, <2>2, <2>3
<1>3. ASSUME NEW j \in Keys, Evict(j) PROVE Last'
  <2>1. phase = "open" /\ DropServable(j) /\ UNCHANGED fileVars
    BY <1>3 DEF Evict
  <2>2. servable'[k] = servable[k]
    BY <1>0, <2>1, DropServableEffect
  <2> QED BY <1>a, <1>b, <2>1, <2>2 DEF fileVars
<1>4. CASE Crash
  BY <1>4 DEF Crash
<1>5. CASE ReplayLine
  BY <1>5 DEF ReplayLine
<1>6. CASE ReplayDone
  <2>1. phase = "replay" /\ pos = Len(log) /\ servable' = servable /\ UNCHANGED fileVars
    BY <1>6 DEF ReplayDone, indexVars
  <2>2. Last
    BY <1>0, <2>1 DEF StoreInv, ReplayLastLineWins, Last
  <2> QED BY <1>b, <2>1, <2>2 DEF fileVars
<1>7. CASE UNCHANGED storeVars
  BY <1>7, <1>a, <1>b DEF storeVars
<1> QED BY <1>1, <1>2, <1>3, <1>4, <1>5, <1>6, <1>7 DEF StoreNext

(* A key with a complete line stays servable until it is evicted.          *)
LEMMA ServedStep ==
  StoreInv /\ [StoreNext]_storeVars => LogIsServed'
<1> SUFFICES ASSUME StoreInv, [StoreNext]_storeVars, phase' = "open",
                    NEW i \in 1 .. Len(log'), NEW k \in Keys, k \notin evicted',
                    LineOf(i, k)', Settled(i)'
             PROVE  servable'[k] # NoRecord
  BY DEF LogIsServed
<1>0. /\ StoreTypeOK /\ log \in Seq(LogLine) /\ Len(log) \in Nat
      /\ tail = "whole" => log # <<>>
  BY LenProperties DEF StoreInv, StoreTypeOK, LogLine
<1>a. ASSUME phase = "open", i \in 1 .. Len(log), k \notin evicted,
             LineOf(i, k), Settled(i)
      PROVE  servable[k] # NoRecord
  BY <1>a DEF StoreInv, LogIsServed
<1>1. ASSUME NEW r \in Lines, AppendRecord(r) PROVE servable'[k] # NoRecord
  <2>1. /\ phase = "open" /\ WriteLine(r) /\ Ingest(r)
        /\ evicted' = IF Indexed(r) THEN evicted \ {r.key} ELSE evicted
    BY <1>1 DEF AppendRecord
  <2>2. CASE r.servable /\ k = r.key
    BY <1>0, <2>1, <2>2, IngestEffect, LineIsRecord
  <2>3. CASE ~(r.servable /\ k = r.key)
    <3>1. servable'[k] = servable[k] /\ k \notin evicted
      BY <1>0, <2>1, <2>3, IngestEffect DEF Indexed
    <3>2. i \in 1 .. Len(log) /\ LineOf(i, k) /\ Settled(i)
      <4>1. CASE tail = "clean" /\ r.servable /\ log' = Append(log, r)
        <5>1. r \in LogLine
          BY <4>1 DEF LogLine
        <5>2. /\ Len(log') = Len(log) + 1 /\ log'[Len(log) + 1] = r
              /\ \A j \in 1 .. Len(log) : log'[j] = log[j]
          BY <1>0, <4>1, <5>1, AppendLineType
        <5>3. i # Len(log) + 1
          BY <2>3, <4>1, <5>2 DEF LineOf, Settled
        <5> QED BY <1>0, <4>1, <5>2, <5>3 DEF LineOf, Settled
      <4>2. CASE tail # "whole" /\ log' = log
        BY <4>2 DEF LineOf, Settled
      <4>3. CASE tail = "whole" /\ log' = ButLastLine
        BY <1>0, <4>3, ButLastLineType DEF LineOf, Settled
      <4> QED BY <2>1, <4>1, <4>2, <4>3 DEF WriteLine
    <3> QED BY <1>a, <2>1, <3>1, <3>2
  <2> QED BY <2>2, <2>3
<1>2. ASSUME NEW r \in Lines, AppendShort(r) PROVE servable'[k] # NoRecord
  <2>1. phase = "open" /\ WritePart(r) /\ servable' = servable /\ evicted' = evicted
    BY <1>2 DEF AppendShort, indexVars
  <2>2. CASE tail = "clean" /\ r.servable /\ tail' = "whole" /\ log' = Append(log, r)
    <3>1. r \in LogLine
      BY <2>2 DEF LogLine
    <3>2. /\ Len(log') = Len(log) + 1
          /\ \A j \in 1 .. Len(log) : log'[j] = log[j]
      BY <1>0, <2>2, <3>1, AppendLineType
    <3> QED BY <1>0, <1>a, <2>1, <2>2, <3>2 DEF LineOf, Settled
  <2>3. CASE tail # "whole" /\ log' = log
    BY <1>a, <2>1, <2>3 DEF LineOf, Settled
  <2>4. CASE tail = "whole" /\ log' = ButLastLine
    BY <1>0, <1>a, <2>1, <2>4, ButLastLineType DEF LineOf, Settled
  <2> QED BY <2>1, <2>2, <2>3, <2>4 DEF WritePart
<1>3. ASSUME NEW j \in Keys, Evict(j) PROVE servable'[k] # NoRecord
  <2>1. /\ phase = "open" /\ DropServable(j) /\ log' = log /\ tail' = tail
        /\ evicted' = evicted \cup {j}
    BY <1>3 DEF Evict, fileVars
  <2> QED BY <1>0, <1>a, <2>1, DropServableEffect DEF LineOf, Settled
<1>4. CASE Crash
  BY <1>4 DEF Crash
<1>5. CASE ReplayLine
  BY <1>5 DEF ReplayLine
<1>6. CASE ReplayDone
  <2>1. phase = "replay" /\ pos = Len(log) /\ servable' = servable /\ log' = log
    BY <1>6 DEF ReplayDone, indexVars, fileVars
  <2>2. i \in 1 .. pos /\ LineOf(i, k)
    BY <2>1 DEF LineOf, Settled
  <2>3. \E j \in 1 .. pos : servable[k] = log[j]
    BY <2>1, <2>2 DEF StoreInv, ReplayLastLineWins
  <2>4. \A j \in 1 .. pos : log[j] # NoRecord
    BY <1>0, <2>1, ElementOfSeq, LineIsRecord DEF LogLine
  <2> QED BY <2>1, <2>3, <2>4
<1>7. CASE UNCHANGED storeVars
  BY <1>7, <1>a DEF storeVars, LineOf, Settled
<1> QED BY <1>1, <1>2, <1>3, <1>4, <1>5, <1>6, <1>7 DEF StoreNext

-----------------------------------------------------------------------------
(* The store keeps the types of its file, its indexes and its scan: the    *)
(* well-formedness every reader of the index in daemon.go relies on.       *)
THEOREM StoreTypeCorrect == StoreSpec => []StoreTypeOK
<1>1. StoreInit => StoreTypeOK
  BY StoreInitInv DEF StoreInv
<1> QED BY <1>1, StoreTypeStep, PTL DEF StoreSpec

(* The invariants of the store are inductive together.                     *)
THEOREM StoreInvariant == StoreSpec => []StoreInv
<1>1. StoreInv /\ [StoreNext]_storeVars => StoreInv'
  BY StoreTypeStep, IndexesAgreeStep, ReplayStep, DurableStep, ServedStep DEF StoreInv
<1> QED BY <1>1, StoreInitInv, PTL DEF StoreSpec

(* An evicted record cannot come back through scoping, and the record      *)
(* served for a key is its newest: the two maps of Store agree always.     *)
THEOREM StoreIndexesAgree == StoreSpec => []IndexesAgree
<1>1. StoreInv => IndexesAgree
  BY DEF StoreInv
<1> QED BY <1>1, StoreInvariant, PTL

(* The scan of replay rebuilds the last line of every key.                 *)
THEOREM StoreReplays == StoreSpec => []ReplayLastLineWins
<1>1. StoreInv => ReplayLastLineWins
  BY DEF StoreInv
<1> QED BY <1>1, StoreInvariant, PTL

(* What is served now is what a restart brings back, record for record,    *)
(* keys with a destroyed line apart.                                       *)
THEOREM StoreDurable == StoreSpec => []ServableIsDurable
<1>1. StoreInv => ServableIsDurable
  BY DEF StoreInv
<1> QED BY <1>1, StoreInvariant, PTL

(* What the log holds is served once the scan is over, evictions apart.    *)
THEOREM StoreComplete == StoreSpec => []LogIsServed
<1>1. StoreInv => LogIsServed
  BY DEF StoreInv
<1> QED BY <1>1, StoreInvariant, PTL
-----------------------------------------------------------------------------
(* Where records come from.                                                *)

(* The steps of a store whose servable lines are all of G.                 *)
WorkFrom(G) ==
  \/ \E r \in Lines : (r.servable => r \in G) /\ (AppendRecord(r) \/ AppendShort(r))
  \/ \E k \in Keys : Evict(k)
  \/ Crash \/ ReplayLine \/ ReplayDone

(* What the file and both indexes hold is of G.                            *)
LogFrom(G) == \A i \in 1 .. Len(log) : log[i] \in G
IndexesFrom(G) ==
  /\ \A k \in Keys : servable[k] # NoRecord => servable[k] \in G
  /\ \A ck \in CandKeys : \A c \in candidates[ck] : c.rec \in G
OnlyFrom(G) == LogFrom(G) /\ IndexesFrom(G)

LEMMA WriteFrom ==
  ASSUME StoreTypeOK, NEW G, LogFrom(G), NEW r \in Lines, r.servable => r \in G,
         WriteLine(r) \/ WritePart(r)
  PROVE  LogFrom(G)'
<1>1. log \in Seq(LogLine) /\ (tail = "whole" => log # <<>>)
  BY DEF StoreTypeOK, LogLine
<1>2. log' = log \/ (tail = "whole" /\ log' = ButLastLine)
                 \/ (r.servable /\ log' = Append(log, r))
  BY DEF WriteLine, WritePart
<1>3. CASE log' = log
  BY <1>3 DEF LogFrom
<1>4. CASE tail = "whole" /\ log' = ButLastLine
  BY <1>1, <1>4, ButLastLineType DEF LogFrom
<1>5. CASE r.servable /\ log' = Append(log, r)
  <2>1. r \in LogLine
    BY <1>5 DEF LogLine
  <2>2. /\ Len(log') = Len(log) + 1 /\ Len(log) \in Nat
        /\ \A i \in 1 .. Len(log) : log'[i] = log[i]
        /\ log'[Len(log) + 1] = r
    BY <1>1, <1>5, <2>1, AppendLineType
  <2>3. \A i \in 1 .. Len(log') : i \in 1 .. Len(log) \/ i = Len(log) + 1
    BY <2>2
  <2> QED BY <1>5, <2>2, <2>3 DEF LogFrom
<1> QED BY <1>2, <1>3, <1>4, <1>5

LEMMA IngestFrom ==
  ASSUME StoreTypeOK, NEW G, IndexesFrom(G), NEW r \in Lines, r.servable => r \in G, Ingest(r)
  PROVE  IndexesFrom(G)'
<1>1. CASE ~Indexed(r)
  BY <1>1 DEF Ingest, indexVars, IndexesFrom
<1>2. CASE Indexed(r)
  <2>1. r \in G /\ r.verified # "false"
    BY <1>2 DEF Indexed, Lines
  <2>2. /\ servable' = [servable EXCEPT ![r.key] = r]
        /\ candidates' = [candidates EXCEPT ![CandKey[r.key]] =
                            @ \cup {[at |-> count + 1, rec |-> r]}]
    BY <1>2, <2>1 DEF Ingest
  <2>3. \A k \in Keys : servable'[k] \in {servable[k], r}
    BY <2>2 DEF StoreTypeOK
  <2>4. \A ck \in CandKeys :
          candidates'[ck] \subseteq candidates[ck] \cup {[at |-> count + 1, rec |-> r]}
    BY <2>2 DEF StoreTypeOK
  <2>5. \A ck \in CandKeys : \A c \in candidates'[ck] : c \in candidates[ck] \/ c.rec = r
    BY <2>4
  <2> QED BY <2>1, <2>3, <2>5 DEF IndexesFrom
<1> QED BY <1>1, <1>2

LEMMA DropFrom ==
  ASSUME StoreTypeOK, NEW G, IndexesFrom(G), NEW k \in Keys, DropServable(k)
  PROVE  IndexesFrom(G)'
<1>1. \A j \in Keys : servable'[j] \in {servable[j], NoRecord}
  BY DEF DropServable, indexVars, StoreTypeOK
<1>2. \A ck \in CandKeys : candidates'[ck] \subseteq candidates[ck]
  BY DEF DropServable, indexVars, StoreTypeOK
<1> QED BY <1>1, <1>2 DEF IndexesFrom

LEMMA FromInit == ASSUME NEW G, StoreInit PROVE OnlyFrom(G)
BY EmptySeq DEF StoreInit, OnlyFrom, LogFrom, IndexesFrom

LEMMA FromStep ==
  ASSUME StoreTypeOK, NEW G, OnlyFrom(G), [WorkFrom(G)]_storeVars
  PROVE  OnlyFrom(G)'
<1>1. ASSUME NEW r \in Lines, r.servable => r \in G, AppendRecord(r) PROVE OnlyFrom(G)'
  BY <1>1, WriteFrom, IngestFrom DEF AppendRecord, OnlyFrom
<1>2. ASSUME NEW r \in Lines, r.servable => r \in G, AppendShort(r) PROVE OnlyFrom(G)'
  <2>1. LogFrom(G)'
    BY <1>2, WriteFrom DEF AppendShort, OnlyFrom
  <2> QED BY <1>2, <2>1 DEF AppendShort, OnlyFrom, IndexesFrom, indexVars
<1>3. ASSUME NEW k \in Keys, Evict(k) PROVE OnlyFrom(G)'
  <2>1. IndexesFrom(G)'
    BY <1>3, DropFrom DEF Evict, OnlyFrom
  <2> QED BY <1>3, <2>1 DEF Evict, OnlyFrom, LogFrom, fileVars
<1>4. CASE Crash
  BY <1>4 DEF Crash, OnlyFrom, LogFrom, IndexesFrom, fileVars
<1>5. CASE ReplayLine
  <2>1. pos + 1 \in 1 .. Len(log)
    BY <1>5, LenProperties DEF ReplayLine, StoreTypeOK
  <2>2. log[pos + 1] \in Lines /\ log[pos + 1] \in G
    BY <2>1, ElementOfSeq DEF StoreTypeOK, OnlyFrom, LogFrom
  <2>3. IndexesFrom(G)'
    BY <1>5, <2>2, IngestFrom DEF ReplayLine, OnlyFrom
  <2> QED BY <1>5, <2>3 DEF ReplayLine, OnlyFrom, LogFrom, fileVars
<1>6. CASE ReplayDone
  BY <1>6 DEF ReplayDone, OnlyFrom, LogFrom, IndexesFrom, fileVars, indexVars
<1>7. CASE UNCHANGED storeVars
  BY <1>7 DEF storeVars, OnlyFrom, LogFrom, IndexesFrom
<1> QED BY <1>1, <1>2, <1>3, <1>4, <1>5, <1>6, <1>7 DEF WorkFrom

(* The store invents nothing: whatever the file and the indexes hold was   *)
(* appended, through short writes, glued lines, restarts and evictions.    *)
THEOREM StoreInventsNothing ==
  ASSUME NEW G
  PROVE  StoreInit /\ [][WorkFrom(G)]_storeVars => []OnlyFrom(G)
<1>1. StoreInit => OnlyFrom(G)
  BY FromInit
<1>2. WorkFrom(G) => StoreNext
  BY DEF WorkFrom, StoreNext
<1>3. StoreTypeOK /\ OnlyFrom(G) /\ [WorkFrom(G)]_storeVars => OnlyFrom(G)'
  BY FromStep
<1> QED BY <1>1, <1>2, <1>3, StoreTypeCorrect, PTL DEF StoreSpec
=============================================================================
