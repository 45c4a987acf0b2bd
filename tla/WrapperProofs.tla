----------------------------- MODULE WrapperProofs ---------------------------
(* Theorems about the wrappers of a command, any number of them: what a    *)
(* reader can see of a blob, what the fast-path memo remembers, and what a *)
(* record may claim.                                                       *)
EXTENDS Wrapper, FiniteSetTheorems, TLAPS

(* The names, inodes and descriptors always have their shape.              *)
THEOREM BlobsTypeCorrect == BlobsSpec => []BlobsTypeOK
<1> USE BlobsAssumption
<1>1. BlobsInit => BlobsTypeOK
  <2> SUFFICES ASSUME BlobsInit PROVE BlobsTypeOK
    OBVIOUS
  <2>1. NoWriter \in WriterState /\ NoWriter.fd = NoInode /\ NoWriter.pc # "write"
    BY DEF WriterState, WriterPCs, NoWriter
  <2> QED BY <2>1 DEF BlobsInit, BlobsTypeOK, In
<1>2. BlobsTypeOK /\ [BlobsNext]_blobVars => BlobsTypeOK'
  <2> SUFFICES ASSUME BlobsTypeOK, [BlobsNext]_blobVars PROVE BlobsTypeOK'
    OBVIOUS
  <2> USE DEF BlobsTypeOK, WriterState, WriterPCs, NoWriter, In, Ends
  <2>1. ASSUME NEW w \in Writers, Call(w) \/ Stat(w) \/ WriteFails(w) \/ Leave(w) \/ Die(w)
        PROVE  BlobsTypeOK'
    BY <2>1 DEF Call, Stat, WriteFails, Leave, Die, Unfinished
  <2>2. ASSUME NEW w \in Writers, NEW i \in Inodes, Opened(w, i), i # path
        PROVE  BlobsTypeOK'
    BY <2>2 DEF Opened
  <2>3. ASSUME NEW w \in Writers, Open(w) PROVE BlobsTypeOK'
    BY <2>2, <2>3 DEF Open, Unused
  <2>4. ASSUME NEW w \in Writers, Write(w) PROVE BlobsTypeOK'
    BY <2>4 DEF Write, Whole
  <2>5. ASSUME NEW w \in Writers, Rename(w) PROVE BlobsTypeOK'
    BY <2>5 DEF Rename
  <2>6. CASE UNCHANGED blobVars
    BY <2>6 DEF blobVars
  <2> QED BY <2>1, <2>3, <2>4, <2>5, <2>6 DEF BlobsNext
<1> QED BY <1>1, <1>2, PTL DEF BlobsSpec

-----------------------------------------------------------------------------
(* Without overlap.                                                        *)

(* One writer at most has the temporary file open, its descriptor is the   *)
(* file the temporary name refers to, and the pieces it has written are    *)
(* there; so what it renames is whole.                                     *)
Alone ==
  ~overlapped =>
    /\ \A v, w \in Writers : In(v, "write") /\ In(w, "write") => v = w
    /\ \A w \in Writers : In(w, "write") =>
         wr[w].fd = tmp /\ data[tmp] = 1 .. wr[w].at
    /\ path # NoInode => data[path] = Whole

LEMMA AloneStep ==
  ASSUME BlobsTypeOK, Alone, [BlobsNext]_blobVars
  PROVE  Alone'
<1> USE BlobsAssumption DEF BlobsTypeOK, WriterState, In
<1>1. ASSUME NEW w \in Writers, Call(w) \/ Stat(w) \/ WriteFails(w) \/ Leave(w) \/ Die(w)
      PROVE  Alone'
  <2>1. /\ wr'[w].pc # "write" /\ \A v \in Writers \ {w} : wr'[v] = wr[v]
        /\ UNCHANGED <<path, tmp, data, overlapped>>
    BY <1>1 DEF Call, Stat, WriteFails, Leave, Die, Ends, NoWriter
  <2> QED BY <2>1 DEF Alone
<1>2. ASSUME NEW w \in Writers, Open(w) PROVE Alone'
  <2>1. PICK i \in Inodes : Opened(w, i) /\ i # path
    BY <1>2 DEF Open, Unused
  <2>2. /\ wr'[w] = [pc |-> "write", fd |-> i, at |-> 0]
        /\ \A v \in Writers \ {w} : wr'[v] = wr[v]
        /\ data'[i] = {} /\ tmp' = i /\ path' = path
        /\ path # NoInode => data'[path] = data[path]
        /\ ~overlapped' => ~overlapped /\ \A v \in Writers \ {w} : ~In(v, "write")
    BY <2>1 DEF Opened
  <2>3. 1 .. 0 = {}
    OBVIOUS
  <2> SUFFICES ASSUME ~overlapped' PROVE Alone'
    BY DEF Alone
  <2>4. \A v \in Writers : In(v, "write")' => v = w
    BY <2>2
  <2>5. wr'[w].fd = tmp' /\ data'[tmp'] = 1 .. wr'[w].at
    BY <2>2, <2>3
  <2>6. path' # NoInode => data'[path'] = Whole'
    BY <2>2 DEF Alone, Whole
  <2> QED BY <2>4, <2>5, <2>6 DEF Alone
<1>3. ASSUME NEW w \in Writers, Write(w), ~overlapped PROVE Alone'
  <2>0. wr[w] \in WriterState /\ wr \in [Writers -> WriterState]
    OBVIOUS
  <2>1. /\ wr'[w].pc = wr[w].pc /\ wr'[w].fd = wr[w].fd /\ wr'[w].at = wr[w].at + 1
        /\ \A v \in Writers \ {w} : wr'[v] = wr[v]
        /\ UNCHANGED <<path, tmp, overlapped>>
        /\ data' = [data EXCEPT ![wr[w].fd] = @ \cup {wr[w].at + 1}]
    BY <1>3, <2>0 DEF Write
  <2>2. /\ In(w, "write") /\ wr[w].fd = tmp /\ tmp \in Inodes
        /\ path # NoInode => tmp # path
    <3>1. In(w, "write") /\ wr[w].fd = tmp
      BY <1>3 DEF Write, Alone
    <3>2. wr[w].fd # NoInode
      BY <3>1
    <3> QED BY <3>1, <3>2
  <2>3. /\ data'[tmp] = 1 .. (wr[w].at + 1)
        /\ path # NoInode => data'[path] = data[path]
    <3>1. data[tmp] = 1 .. wr[w].at /\ wr[w].at \in Nat
      BY <1>3, <2>2 DEF Alone
    <3>2. (1 .. wr[w].at) \cup {wr[w].at + 1} = 1 .. (wr[w].at + 1)
      BY <3>1
    <3> QED BY <2>1, <2>2, <3>1, <3>2
  <2>4. \A v \in Writers : In(v, "write")' => v = w
    BY <1>3, <2>1, <2>2 DEF Alone
  <2>5. wr'[w].fd = tmp' /\ data'[tmp'] = 1 .. wr'[w].at
    BY <2>1, <2>2, <2>3
  <2>6. path' # NoInode => data'[path'] = Whole'
    BY <1>3, <2>1, <2>3 DEF Alone, Whole
  <2> QED BY <2>4, <2>5, <2>6 DEF Alone
<1>4. ASSUME NEW w \in Writers, Rename(w), ~overlapped PROVE Alone'
  <2>1. /\ In(w, "write") /\ wr[w].fd = tmp /\ tmp \in Inodes
        /\ data[tmp] = Whole
    BY <1>4 DEF Rename, Alone, Whole
  <2>2. /\ path' = tmp /\ data' = data /\ wr'[w].pc # "write"
        /\ \A v \in Writers \ {w} : wr'[v] = wr[v]
    BY <1>4, <2>1 DEF Rename, Ends, NoWriter
  <2>3. \A v \in Writers : wr'[v].pc # "write"
    BY <1>4, <2>1, <2>2 DEF Alone
  <2> QED BY <2>1, <2>2, <2>3 DEF Alone, Whole
<1>5. ASSUME NEW w \in Writers, Write(w) \/ Rename(w), overlapped PROVE Alone'
  BY <1>5 DEF Write, Rename, Alone
<1>6. CASE UNCHANGED blobVars
  BY <1>6 DEF blobVars, Alone, Whole
<1> QED BY <1>1, <1>2, <1>3, <1>4, <1>5, <1>6 DEF BlobsNext

(* However writers die and disks fill up, a blob that can be read is whole *)
(* as long as no two writers were inside its temporary file at once.       *)
THEOREM BlobsWholeUnlessOverlapped == BlobsSpec => []WholeUnlessOverlapped
<1>1. BlobsInit => Alone
  BY DEF BlobsInit, Alone, NoWriter, In
<1>2. BlobsTypeOK /\ Alone /\ [BlobsNext]_blobVars => Alone'
  BY AloneStep
<1>3. Alone => WholeUnlessOverlapped
  BY DEF Alone, WholeUnlessOverlapped
<1> QED BY <1>1, <1>2, <1>3, BlobsTypeCorrect, PTL DEF BlobsSpec

-----------------------------------------------------------------------------
(* With overlap.                                                           *)

(* Every piece a file lacks will be written by a writer that has it open,  *)
(* unless somebody abandoned it.  It must be said of the temporary file    *)
(* too, since a rename makes it the blob whoever is inside it.             *)
BeingWritten(i) ==
  \A p \in Whole \ data[i] :
    \E w \in Writers : In(w, "write") /\ wr[w].fd = i /\ wr[w].at < p
NamesAreBeingWritten ==
  \A i \in {path, tmp} \ ({NoInode} \cup abandoned) : BeingWritten(i)

(* While somebody writes one of the two names exists.                      *)
SomeNameExists ==
  /\ (\E w \in Writers : In(w, "write")) => path # NoInode \/ tmp # NoInode
  /\ \A w \in Writers : In(w, "raced") => path # NoInode

LEMMA WritingStep ==
  ASSUME BlobsTypeOK, NamesAreBeingWritten, [BlobsNext]_blobVars
  PROVE  NamesAreBeingWritten'
<1> USE BlobsAssumption DEF BlobsTypeOK, WriterState, In, NamesAreBeingWritten, BeingWritten
<1>1. ASSUME NEW w \in Writers, Call(w) \/ Stat(w) \/ WriteFails(w) \/ Leave(w) \/ Die(w)
      PROVE  NamesAreBeingWritten'
  <2>1. /\ \A v \in Writers \ {w} : wr'[v] = wr[v]
        /\ UNCHANGED <<path, tmp, data>>
        /\ abandoned \subseteq abandoned'
        /\ In(w, "write") /\ wr[w].at < Pieces => wr[w].fd \in abandoned'
    BY <1>1 DEF Call, Stat, WriteFails, Leave, Returned, Die, Ends, Unfinished
  <2>2. ASSUME NEW i \in {path, tmp} \ ({NoInode} \cup abandoned'), NEW p \in Whole \ data[i]
        PROVE  \E v \in Writers : wr'[v].pc = "write" /\ wr'[v].fd = i /\ wr'[v].at < p
    <3>1. PICK v \in Writers : In(v, "write") /\ wr[v].fd = i /\ wr[v].at < p
      BY <2>1, <2>2
    <3>2. v # w
      <4>1. wr[v].at < Pieces
        BY <2>2, <3>1 DEF Whole
      <4> QED BY <2>1, <2>2, <3>1, <4>1
    <3> QED BY <2>1, <3>1, <3>2
  <2> QED BY <2>1, <2>2 DEF Whole
<1>2. ASSUME NEW w \in Writers, Open(w) PROVE NamesAreBeingWritten'
  <2>1. PICK i \in Inodes : Opened(w, i) /\ i # path
    BY <1>2 DEF Open, Unused
  <2>2. /\ wr'[w].pc = "write" /\ wr'[w].fd = i /\ wr'[w].at = 0
        /\ \A v \in Writers \ {w} : wr'[v] = wr[v]
        /\ tmp' = i /\ path' = path /\ abandoned' = abandoned \ {i}
        /\ path # NoInode => data'[path] = data[path]
    BY <2>1 DEF Opened
  <2>3. wr[w].pc # "write"
    BY <1>2 DEF Open
  <2>4. ASSUME NEW p \in Whole PROVE wr'[w].at < p
    BY <2>2 DEF Whole
  <2>5. ASSUME path # NoInode, path \notin abandoned', NEW p \in Whole \ data[path]
        PROVE  \E v \in Writers : wr'[v].pc = "write" /\ wr'[v].fd = path /\ wr'[v].at < p
    <3>1. PICK v \in Writers : In(v, "write") /\ wr[v].fd = path /\ wr[v].at < p
      BY <2>1, <2>2, <2>5
    <3> QED BY <2>2, <2>3, <3>1
  <2> QED BY <2>2, <2>4, <2>5 DEF Whole
<1>3. ASSUME NEW w \in Writers, Write(w) PROVE NamesAreBeingWritten'
  <2>0. wr[w] \in WriterState /\ wr \in [Writers -> WriterState]
    OBVIOUS
  <2>1. /\ wr'[w].pc = wr[w].pc /\ wr'[w].fd = wr[w].fd /\ wr'[w].at = wr[w].at + 1
        /\ \A v \in Writers \ {w} : wr'[v] = wr[v]
        /\ UNCHANGED <<path, tmp, abandoned>>
        /\ data' = [data EXCEPT ![wr[w].fd] = @ \cup {wr[w].at + 1}]
        /\ wr[w].fd \in Inodes
    BY <1>3, <2>0 DEF Write
  <2>2. ASSUME NEW i \in {path, tmp} \ ({NoInode} \cup abandoned), NEW p \in Whole \ data'[i]
        PROVE  \E v \in Writers : wr'[v].pc = "write" /\ wr'[v].fd = i /\ wr'[v].at < p
    <3>1. p \notin data[i] /\ (i = wr[w].fd => p # wr[w].at + 1)
      BY <2>1, <2>2
    <3>2. PICK v \in Writers : In(v, "write") /\ wr[v].fd = i /\ wr[v].at < p
      BY <2>2, <3>1
    <3>3. CASE v # w
      BY <2>1, <3>2, <3>3
    <3>4. CASE v = w
      <4>1. wr[w].at \in Nat /\ p \in Nat /\ p # wr[w].at + 1 /\ wr[w].at < p
        BY <2>0, <2>2, <3>1, <3>2, <3>4 DEF Whole
      <4>2. wr[w].at + 1 < p
        BY <4>1
      <4> QED BY <2>1, <3>2, <3>4, <4>2
    <3> QED BY <3>3, <3>4
  <2> QED BY <2>1, <2>2 DEF Whole
<1>4. ASSUME NEW w \in Writers, Rename(w) PROVE NamesAreBeingWritten'
  <2>1. /\ \A v \in Writers \ {w} : wr'[v] = wr[v]
        /\ {path', tmp'} \subseteq {path, tmp, NoInode}
        /\ data' = data /\ abandoned' = abandoned
        /\ In(w, "write") /\ wr[w].at = Pieces
    BY <1>4 DEF Rename, Ends
  <2>2. ASSUME NEW i \in {path, tmp} \ ({NoInode} \cup abandoned), NEW p \in Whole \ data[i]
        PROVE  \E v \in Writers : wr'[v].pc = "write" /\ wr'[v].fd = i /\ wr'[v].at < p
    <3>1. PICK v \in Writers : In(v, "write") /\ wr[v].fd = i /\ wr[v].at < p
      BY <2>2
    <3>2. v # w
      BY <2>1, <2>2, <3>1 DEF Whole
    <3> QED BY <2>1, <3>1, <3>2
  <2> QED BY <2>1, <2>2 DEF Whole
<1>5. CASE UNCHANGED blobVars
  BY <1>5 DEF blobVars, Whole
<1> QED BY <1>1, <1>2, <1>3, <1>4, <1>5 DEF BlobsNext

(* A partial blob that no writer abandoned is being completed.             *)
THEOREM BlobsPartialIsBeingWritten == BlobsSpec => []PartialIsBeingWritten
<1>1. BlobsInit => NamesAreBeingWritten
  BY DEF BlobsInit, NamesAreBeingWritten
<1>2. BlobsTypeOK /\ NamesAreBeingWritten /\ [BlobsNext]_blobVars => NamesAreBeingWritten'
  BY WritingStep
<1>3. NamesAreBeingWritten => PartialIsBeingWritten
  BY DEF NamesAreBeingWritten, BeingWritten, PartialIsBeingWritten
<1> QED BY <1>1, <1>2, <1>3, BlobsTypeCorrect, PTL DEF BlobsSpec

(* A rename that fails finds the blob in place.                            *)
THEOREM BlobsLoserFindsBlob == BlobsSpec => []LoserFindsBlob
<1>1. BlobsInit => SomeNameExists
  BY DEF BlobsInit, SomeNameExists, NoWriter, In
<1>2. BlobsTypeOK /\ SomeNameExists /\ [BlobsNext]_blobVars => SomeNameExists'
  <2> SUFFICES ASSUME BlobsTypeOK, SomeNameExists, [BlobsNext]_blobVars
               PROVE  SomeNameExists'
    OBVIOUS
  <2> USE BlobsAssumption DEF BlobsTypeOK, SomeNameExists, In, Ends, NoWriter
  <2>1. ASSUME NEW w \in Writers, Call(w) \/ Stat(w) \/ WriteFails(w) \/ Leave(w) \/ Die(w)
        PROVE  SomeNameExists'
    BY <2>1 DEF Call, Stat, WriteFails, Leave, Die
  <2>2. ASSUME NEW w \in Writers, NEW i \in Inodes, Opened(w, i) PROVE SomeNameExists'
    BY <2>2 DEF Opened
  <2>3. ASSUME NEW w \in Writers, Open(w) PROVE SomeNameExists'
    BY <2>2, <2>3 DEF Open
  <2>4. ASSUME NEW w \in Writers, Write(w) PROVE SomeNameExists'
    BY <2>4 DEF Write
  <2>5. ASSUME NEW w \in Writers, Rename(w) PROVE SomeNameExists'
    BY <2>5 DEF Rename
  <2>6. CASE UNCHANGED blobVars
    BY <2>6 DEF blobVars
  <2> QED BY <2>1, <2>3, <2>4, <2>5, <2>6 DEF BlobsNext
<1>3. SomeNameExists => LoserFindsBlob
  BY DEF SomeNameExists, LoserFindsBlob
<1> QED BY <1>1, <1>2, <1>3, BlobsTypeCorrect, PTL DEF BlobsSpec

-----------------------------------------------------------------------------
(* The fast-path memo.                                                     *)

(* Facts about entries.                                                    *)
LEMMA Entries ==
  /\ NoEntry \in MemoEntry
  /\ \A f \in MemoFile : Loaded(f) \in MemoEntry
  /\ \A e \in MemoEntry : Loaded(e) = e
  /\ \A f \in {NoFile, Blank, Torn} : Loaded(f) = NoEntry
<1>1. NoEntry \in MemoEntry
  BY FastpathAssumption DEF NoEntry, MemoEntry
<1>2. MemoEntry \subseteq [n : Nat, max : Nat]
  BY FastpathAssumption DEF MemoEntry
<1>3. \A f \in {NoFile, Blank, Torn} : f \notin MemoEntry
  BY <1>2, FastpathAssumption
<1> QED BY <1>1, <1>3 DEF Loaded, MemoFile

LEMMA DurationsAreNatural == \A d \in Durations \cup {0} : d \in Nat
<1>1. Durations \subseteq Nat
  BY FastpathAssumption
<1> QED BY ONLY <1>1

(* Commands that ran and whose observation no entry has yet.               *)
Loading == {w \in Wrappers : At(w, "load")}

(* No entry, wherever it is, counts more than the runs; with those that    *)
(* are still to be counted it does not either.                             *)
Counted ==
  /\ Loaded(memo).n + Cardinality(Loading) <= runs
  /\ Loaded(memoTmp).n + Cardinality(Loading) <= runs
  /\ \A w \in Wrappers : obs[w].entry.n + Cardinality(Loading) <= runs

MemoInv == FastpathTypeOK /\ Counted

LEMMA LoadingFinite ==
  ASSUME NEW w \in Wrappers
  PROVE  /\ IsFiniteSet(Loading) /\ Cardinality(Loading) \in Nat
         /\ IsFiniteSet(Loading')
         /\ Loading' = Loading \cup {w} /\ w \notin Loading =>
              Cardinality(Loading') = Cardinality(Loading) + 1
         /\ Loading' = Loading \ {w} /\ w \in Loading =>
              Cardinality(Loading') = Cardinality(Loading) - 1
         /\ Loading' \subseteq Loading =>
              Cardinality(Loading') \in Nat /\ Cardinality(Loading') <= Cardinality(Loading)
<1>1. IsFiniteSet(Loading) /\ IsFiniteSet(Loading')
  BY FS_Subset, FastpathAssumption DEF Loading
<1> QED BY <1>1, FS_CardinalityType, FS_AddElement, FS_RemoveElement, FS_Subset

LEMMA InterceptStep ==
  ASSUME MemoInv, NEW w \in Wrappers, NEW ms \in Durations, Intercept(w, ms)
  PROVE  MemoInv'
<1> USE FastpathAssumption DEF MemoInv, FastpathTypeOK
<1>1. /\ obs'[w] = [pc |-> "load", ms |-> ms, entry |-> NoEntry, file |-> "none"]
      /\ \A v \in Wrappers \ {w} : obs'[v] = obs[v]
      /\ UNCHANGED <<memo, memoTmp, slowest, met>>
      /\ obs[w].pc = "idle" /\ runs < MaxRuns /\ runs' = runs + 1
      /\ obs' \in [Wrappers -> ObserverState]
  BY Entries DEF Intercept, NoObserver, ObserverState, At
<1>2. Loading' = Loading \cup {w} /\ w \notin Loading
  BY <1>1 DEF Loading, At
<1>3. Cardinality(Loading') = Cardinality(Loading) + 1 /\ Cardinality(Loading) \in Nat
  BY <1>2, LoadingFinite
<1>4. FastpathTypeOK'
  BY <1>1 DEF At
<1>5. Loaded(memo) \in MemoEntry /\ Loaded(memoTmp) \in MemoEntry
  BY Entries
<1>6. Loaded(memo)' = Loaded(memo) /\ Loaded(memoTmp)' = Loaded(memoTmp)
  BY <1>1
<1>7. \A v \in Wrappers : obs'[v].entry.n + Cardinality(Loading') <= runs'
  <2>1. \A v \in Wrappers \ {w} : obs[v].entry.n \in Nat
    BY DEF ObserverState, MemoEntry
  <2>2. obs'[w].entry.n = 0
    BY <1>1 DEF NoEntry
  <2>3. 0 + Cardinality(Loading) <= runs
    BY <1>3, <1>5 DEF Counted, MemoEntry
  <2> QED BY <1>1, <1>3, <2>1, <2>2, <2>3 DEF Counted
<1>8. Counted'
  BY <1>1, <1>3, <1>5, <1>6, <1>7 DEF Counted, MemoEntry
<1> QED BY <1>4, <1>8
LEMMA ObserveStep ==
  ASSUME MemoInv, NEW w \in Wrappers, Observe(w)
  PROVE  MemoInv'
<1> USE FastpathAssumption DEF MemoInv, FastpathTypeOK
<1> DEFINE e == Observed(Loaded(memo), obs[w].ms)
<1>1. Loading' = Loading \ {w} /\ w \in Loading
  BY DEF Observe, Loading, At, ObserverState
<1>2. Cardinality(Loading') = Cardinality(Loading) - 1 /\ Cardinality(Loading) \in Nat
  BY <1>1, LoadingFinite
<1>3. Loaded(memo) \in MemoEntry /\ Loaded(memoTmp) \in MemoEntry /\ Cardinality(Loading') \in Nat
  BY <1>1, Entries, LoadingFinite
<1>4. e.n = Loaded(memo).n + 1 /\ e.n + Cardinality(Loading') <= runs
  BY <1>2, <1>3 DEF Counted, Observed, MemoEntry
<1>5. e \in MemoEntry
  <2>1. e.n \in 0 .. MaxRuns
    BY <1>3, <1>4 DEF MemoEntry
  <2>2. obs[w].ms \in Nat
    <3>1. obs[w].ms \in Durations \cup {0}
      BY DEF ObserverState
    <3> QED BY <3>1, DurationsAreNatural
  <2> QED BY <1>3, <2>1, <2>2 DEF Observed, Longer, MemoEntry
<1> HIDE DEF e
<1>6. /\ obs'[w].pc = "open" /\ obs'[w].entry = e /\ obs'[w].file = obs[w].file
      /\ obs[w].pc = "load"
      /\ \A v \in Wrappers \ {w} : obs'[v] = obs[v]
      /\ UNCHANGED <<memo, memoTmp, runs, slowest>> /\ met' \in BOOLEAN
      /\ obs' \in [Wrappers -> ObserverState]
  BY <1>5 DEF Observe, ObserverState, At, e
<1>7. FastpathTypeOK'
  BY <1>6 DEF At
<1>8. \A v \in Wrappers : obs'[v].entry.n + Cardinality(Loading') <= runs'
  <2>1. \A v \in Wrappers : obs[v].entry.n \in Nat
    BY DEF ObserverState, MemoEntry
  <2> QED BY <1>2, <1>4, <1>6, <2>1 DEF Counted
<1>9. Counted'
  BY <1>2, <1>3, <1>6, <1>8 DEF Counted, MemoEntry
<1> QED BY <1>7, <1>9

(* A step that counts nothing: every entry it leaves was somewhere before. *)
LEMMA QuietStep ==
  ASSUME MemoInv, FastpathTypeOK', runs' = runs, Loading' \subseteq Loading,
         NEW w \in Wrappers,
         Loaded(memo') \in {NoEntry, Loaded(memo), Loaded(memoTmp), obs[w].entry},
         Loaded(memoTmp') \in {NoEntry, Loaded(memoTmp), obs[w].entry},
         \A v \in Wrappers : obs'[v].entry \in {NoEntry, obs[v].entry}
  PROVE  MemoInv'
<1> DEFINE c == Cardinality(Loading)
           d == Cardinality(Loading')
<1>1. c \in Nat /\ d \in Nat /\ d <= c
  BY LoadingFinite
<1> HIDE DEF c, d
<1>2. runs \in Nat /\ Loaded(memo) \in MemoEntry /\ Loaded(memoTmp) \in MemoEntry
  BY Entries, FastpathAssumption DEF MemoInv, FastpathTypeOK
<1>3. /\ Loaded(memo).n + c <= runs /\ Loaded(memoTmp).n + c <= runs
      /\ \A v \in Wrappers : obs[v].entry.n + c <= runs
  BY DEF MemoInv, Counted, c
<1>4. \A v \in Wrappers : obs[v].entry.n \in Nat
  BY FastpathAssumption DEF MemoInv, FastpathTypeOK, ObserverState, MemoEntry
<1>5. Loaded(memo).n \in Nat /\ Loaded(memoTmp).n \in Nat /\ NoEntry.n + c <= runs
  BY <1>1, <1>2, <1>3, FastpathAssumption DEF MemoEntry, NoEntry
<1>6. NoEntry.n = 0
  BY DEF NoEntry
<1>7. Loaded(memo').n + d <= runs /\ Loaded(memoTmp').n + d <= runs
  BY <1>1, <1>2, <1>3, <1>4, <1>5, <1>6
<1>8. \A v \in Wrappers : obs'[v].entry.n + d <= runs
  BY <1>1, <1>2, <1>3, <1>4, <1>5, <1>6
<1> QED BY <1>7, <1>8 DEF MemoInv, Counted, d

LEMMA SaveStep ==
  ASSUME MemoInv, NEW w \in Wrappers, OpenTmp(w) \/ WriteTmp(w) \/ SaveFails(w) \/ Ended(w)
  PROVE  MemoInv'
<1> USE FastpathAssumption DEF MemoInv, FastpathTypeOK
<1>1. obs[w].entry \in MemoEntry /\ Loaded(obs[w].entry) = obs[w].entry
  BY Entries DEF ObserverState
<1>2. CASE OpenTmp(w)
  <2>1. FastpathTypeOK'
    BY <1>2 DEF OpenTmp, ObserverState, At, MemoFile
  <2>2. Loading' \subseteq Loading
    BY <1>2 DEF OpenTmp, Loading, At, ObserverState
  <2>3. Loaded(memoTmp') = NoEntry /\ memo' = memo /\ runs' = runs
    BY <1>2, Entries DEF OpenTmp
  <2>4. \A v \in Wrappers : obs'[v].entry = obs[v].entry
    BY <1>2 DEF OpenTmp, ObserverState
  <2> QED BY <2>1, <2>2, <2>3, <2>4, QuietStep
<1>3. CASE WriteTmp(w)
  <2>1. FastpathTypeOK'
    BY <1>1, <1>3 DEF WriteTmp, Over, ObserverState, At, MemoFile
  <2>2. Loading' \subseteq Loading
    BY <1>3 DEF WriteTmp, Loading, At, ObserverState
  <2>3. /\ memo' \in {memo, obs[w].entry, Torn}
        /\ memoTmp' \in {memoTmp, obs[w].entry, Torn} /\ runs' = runs
    BY <1>3 DEF WriteTmp, Over
  <2>4. \A v \in Wrappers : obs'[v].entry = obs[v].entry
    BY <1>3 DEF WriteTmp, ObserverState
  <2>5. Loaded(Torn) = NoEntry
    BY Entries
  <2> QED BY <1>1, <2>1, <2>2, <2>3, <2>4, <2>5, QuietStep
<1>4. CASE SaveFails(w)
  <2>1. memo' \in {memo, Torn} /\ memoTmp' \in {memoTmp, Torn}
    BY <1>4 DEF SaveFails, Spoils
  <2>2. FastpathTypeOK'
    BY <1>4, <2>1 DEF SaveFails, ObserverState, At, MemoFile
  <2>3. Loading' \subseteq Loading
    BY <1>4 DEF SaveFails, Loading, At, ObserverState
  <2>4. runs' = runs /\ \A v \in Wrappers : obs'[v].entry = obs[v].entry
    BY <1>4 DEF SaveFails, ObserverState
  <2>5. Loaded(Torn) = NoEntry
    BY Entries
  <2> QED BY <2>1, <2>2, <2>3, <2>4, <2>5, QuietStep
<1>5. CASE Ended(w)
  <2>1. NoObserver \in ObserverState /\ NoObserver.pc = "idle" /\ NoObserver.file = "none"
    BY Entries DEF NoObserver, ObserverState
  <2>2. FastpathTypeOK'
    BY <1>5, <2>1 DEF Ended, At
  <2>3. Loading' \subseteq Loading
    BY <1>5, <2>1 DEF Ended, Loading, At
  <2>4. UNCHANGED <<memo, memoTmp, runs>>
    BY <1>5 DEF Ended
  <2>5. \A v \in Wrappers : obs'[v].entry \in {NoEntry, obs[v].entry}
    BY <1>5 DEF Ended, NoObserver
  <2> QED BY <2>2, <2>3, <2>4, <2>5, QuietStep
<1> QED BY <1>2, <1>3, <1>4, <1>5

LEMMA RenameStep ==
  ASSUME MemoInv, NEW w \in Wrappers, RenameTmp(w)
  PROVE  MemoInv'
<1> USE FastpathAssumption DEF MemoInv, FastpathTypeOK
<1>1. slowest' \in Durations \cup {0}
  BY DEF RenameTmp, Longer, ObserverState
<1>2. CASE memoTmp = NoFile
  <2>1. FastpathTypeOK'
    BY <1>1, <1>2 DEF RenameTmp, Note, ObserverState, At
  <2>2. Loading' \subseteq Loading
    BY <1>2 DEF RenameTmp, Note, Loading, At, ObserverState
  <2>3. UNCHANGED <<memo, memoTmp, runs>> /\ \A v \in Wrappers : obs'[v].entry = obs[v].entry
    BY <1>2 DEF RenameTmp, Note, ObserverState
  <2> QED BY <2>1, <2>2, <2>3, QuietStep
<1>3. CASE memoTmp # NoFile
  <2>0. /\ obs' = [v \in Wrappers |-> IF v = w THEN [obs[v] EXCEPT !.pc = "saved"]
                                      ELSE [obs[v] EXCEPT !.file = Moved(@)]]
        /\ memo' = memoTmp /\ memoTmp' = NoFile /\ runs' = runs /\ met' = met
        /\ obs[w].pc = "rename"
    BY <1>3 DEF RenameTmp, At
  <2>1. /\ \A f \in {"none", "tmp", "memo", "gone"} : Moved(f) \in {"none", "tmp", "memo", "gone"}
        /\ \A f \in {"none", "tmp", "memo", "gone"} : Moved(f) = "none" <=> f = "none"
    BY DEF Moved
  <2>2. \A v \in Wrappers : obs[v] \in ObserverState
    OBVIOUS
  <2>3. \A v \in Wrappers :
          /\ obs'[v] \in ObserverState /\ obs'[v].entry = obs[v].entry
          /\ obs'[v].pc = IF v = w THEN "saved" ELSE obs[v].pc
          /\ obs'[v].file = IF v = w THEN obs[v].file ELSE Moved(obs[v].file)
    BY <2>0, <2>1, <2>2 DEF ObserverState
  <2>4. FastpathTypeOK'
    <3>1. obs' \in [Wrappers -> ObserverState]
      BY <2>0, <2>3
    <3>2. \A v \in Wrappers : obs'[v].file # "none" <=> obs'[v].pc = "write"
      BY <2>0, <2>1, <2>2, <2>3 DEF ObserverState, At
    <3> QED BY <1>1, <2>0, <3>1, <3>2 DEF At, MemoFile
  <2>5. Loading' \subseteq Loading
    BY <2>3 DEF Loading, At
  <2>6. Loaded(memoTmp') = NoEntry
    BY <2>0, Entries
  <2> QED BY <2>0, <2>3, <2>4, <2>5, <2>6, QuietStep
<1> QED BY <1>2, <1>3

(* The inductive invariant of the memo.                                    *)
THEOREM MemoInvariant == FastpathSpec => []MemoInv
<1>1. FastpathInit => MemoInv
  <2> SUFFICES ASSUME FastpathInit PROVE MemoInv
    OBVIOUS
  <2>1. NoObserver \in ObserverState /\ NoObserver.pc = "idle" /\ NoObserver.file = "none"
    BY Entries DEF NoObserver, ObserverState
  <2>2. FastpathTypeOK
    <3>1. 0 \in 0 .. MaxRuns
      BY FastpathAssumption
    <3>2. obs \in [Wrappers -> ObserverState] /\ \A w \in Wrappers : obs[w] = NoObserver
      BY <2>1 DEF FastpathInit
    <3> QED BY <2>1, <3>1, <3>2 DEF FastpathInit, FastpathTypeOK, MemoFile, At
  <2>3. Loading = {}
    BY <2>1 DEF FastpathInit, Loading, At
  <2>4. Cardinality(Loading) = 0
    BY <2>3, FS_EmptySet
  <2>5. Counted
    BY <2>4, Entries DEF FastpathInit, Counted, NoEntry, NoObserver
  <2> QED BY <2>2, <2>5 DEF MemoInv
<1>2. MemoInv /\ [FastpathNext]_memoVars => MemoInv'
  <2> SUFFICES ASSUME MemoInv, [FastpathNext]_memoVars PROVE MemoInv'
    OBVIOUS
  <2>1. ASSUME NEW w \in Wrappers, NEW ms \in Durations, Intercept(w, ms) PROVE MemoInv'
    BY <2>1, InterceptStep
  <2>2. ASSUME NEW w \in Wrappers, Observe(w) PROVE MemoInv'
    BY <2>2, ObserveStep
  <2>3. ASSUME NEW w \in Wrappers, Save(w) \/ Ended(w) PROVE MemoInv'
    BY <2>3, SaveStep, RenameStep DEF Save
  <2>4. CASE UNCHANGED memoVars
    <3>1. Loading' = Loading
      BY <2>4 DEF memoVars, Loading, At
    <3> QED BY <2>4, <3>1 DEF memoVars, MemoInv, FastpathTypeOK, Counted, At
  <2> QED BY <2>1, <2>2, <2>3, <2>4 DEF FastpathNext, Killed
<1> QED BY <1>1, <1>2, PTL DEF FastpathSpec

(* The memo, its temporary file and the wrappers always have their shape.  *)
THEOREM FastpathTypeCorrect == FastpathSpec => []FastpathTypeOK
BY MemoInvariant, PTL DEF MemoInv

(* Whatever any number of wrappers do to the file at once, it calls no     *)
(* command fast that did not run as often as it takes.                     *)
THEOREM FastIsEarned == FastpathSpec => []KnownFastIsEarned
<1>1. MemoInv => KnownFastIsEarned
  <2> SUFFICES ASSUME MemoInv, KnownFast(Loaded(memo)) PROVE runs >= Samples
    BY DEF KnownFastIsEarned
  <2>1. Cardinality(Loading) \in Nat
    BY FS_Subset, FS_CardinalityType, FastpathAssumption DEF Loading
  <2>2. Loaded(memo) \in MemoEntry /\ runs \in Nat
    BY Entries, FastpathAssumption DEF MemoInv, FastpathTypeOK
  <2> QED BY <2>1, <2>2, FastpathAssumption DEF MemoInv, Counted, MemoEntry, KnownFast
<1> QED BY <1>1, MemoInvariant, PTL
-----------------------------------------------------------------------------
(* What the memo remembers.                                                *)

(* As long as no two wrappers met: one at most is saving, what it is about *)
(* to save goes beyond what the memo says, and the temporary file is its   *)
(* own.                                                                    *)
Kept ==
  ~met =>
    /\ slowest <= Loaded(memo).max
    /\ \A v, w \in Wrappers : Saving(v) /\ Saving(w) => v = w
    /\ \A w \in Wrappers :
         /\ Saving(w) => obs[w].entry = Observed(Loaded(memo), obs[w].ms)
         /\ At(w, "write") => obs[w].file = "tmp" /\ memoTmp = Blank
         /\ At(w, "rename") => memoTmp = obs[w].entry

LEMMA KeptStep ==
  ASSUME MemoInv, Kept, [FastpathNext]_memoVars
  PROVE  Kept'
<1> USE DEF MemoInv, FastpathTypeOK
<1>0. \A v \in Wrappers : obs[v] \in ObserverState
  OBVIOUS
<1>1. ASSUME NEW w \in Wrappers, NEW ms \in Durations, Intercept(w, ms) PROVE Kept'
  <2>1. /\ obs'[w].pc = "load" /\ \A v \in Wrappers \ {w} : obs'[v] = obs[v]
        /\ UNCHANGED <<memo, memoTmp, slowest, met>>
    BY <1>1 DEF Intercept, NoObserver
  <2> QED BY <2>1 DEF Kept, Saving, At
<1>2. ASSUME NEW w \in Wrappers, Observe(w) PROVE Kept'
  <2>1. /\ obs'[w].pc = "open" /\ obs'[w].ms = obs[w].ms
        /\ obs'[w].entry = Observed(Loaded(memo), obs[w].ms)
        /\ \A v \in Wrappers \ {w} : obs'[v] = obs[v]
        /\ UNCHANGED <<memo, memoTmp, slowest>>
        /\ ~met' => ~met /\ \A v \in Wrappers \ {w} : ~Saving(v)
    BY <1>0, <1>2 DEF Observe, ObserverState
  <2> QED BY <2>1 DEF Kept, Saving, At
<1>3. ASSUME NEW w \in Wrappers, OpenTmp(w) PROVE Kept'
  <2>1. /\ obs[w].pc = "open" /\ obs'[w].pc = "write" /\ obs'[w].ms = obs[w].ms
        /\ obs'[w].file = "tmp" /\ obs'[w].entry = obs[w].entry
        /\ \A v \in Wrappers \ {w} : obs'[v] = obs[v]
        /\ memoTmp' = Blank /\ UNCHANGED <<memo, slowest, met>>
    BY <1>0, <1>3 DEF OpenTmp, ObserverState, At
  <2> QED BY <2>1 DEF Kept, Saving, At
<1>4. ASSUME NEW w \in Wrappers, WriteTmp(w) PROVE Kept'
  <2>1. /\ obs[w].pc = "write" /\ obs'[w].pc = "rename" /\ obs'[w].ms = obs[w].ms
        /\ obs'[w].entry = obs[w].entry
        /\ \A v \in Wrappers \ {w} : obs'[v] = obs[v]
        /\ UNCHANGED <<slowest, met>>
    BY <1>0, <1>4 DEF WriteTmp, ObserverState, At
  <2>2. ~met => memo' = memo /\ memoTmp' = obs[w].entry
    BY <1>4, <2>1 DEF WriteTmp, Over, Kept, At
  <2> QED BY <2>1, <2>2 DEF Kept, Saving, At
<1>5. ASSUME NEW w \in Wrappers, RenameTmp(w), ~met PROVE Kept'
  <2>1. /\ obs[w].pc = "rename" /\ memoTmp = obs[w].entry
        /\ obs[w].entry = Observed(Loaded(memo), obs[w].ms)
        /\ slowest <= Loaded(memo).max
        /\ \A v \in Wrappers \ {w} : ~Saving(v)
    BY <1>5 DEF RenameTmp, Kept, Saving, At
  <2>2. obs[w].entry \in MemoEntry /\ Loaded(obs[w].entry) = obs[w].entry
    BY <1>0, Entries DEF ObserverState
  <2>3. memoTmp # NoFile
    <3>1. MemoEntry \subseteq [n : Nat, max : Nat]
      BY FastpathAssumption DEF MemoEntry
    <3> QED BY <2>1, <2>2, <3>1, FastpathAssumption
  <2>4. /\ memo' = obs[w].entry /\ met' = met
        /\ slowest' = Longer(slowest, obs[w].ms)
        /\ \A v \in Wrappers : obs'[v].pc = IF v = w THEN "saved" ELSE obs[v].pc
    BY <1>0, <1>5, <2>1, <2>3 DEF RenameTmp, ObserverState
  <2>5. \A v \in Wrappers : ~Saving(v)'
    BY <2>1, <2>4 DEF Saving
  <2>6. slowest' <= Loaded(memo').max
    <3>1. obs[w].ms \in Nat /\ slowest \in Nat
      BY <1>0, DurationsAreNatural DEF ObserverState
    <3>2. Loaded(memo).max \in Nat
      BY Entries DEF MemoEntry
    <3>3. Loaded(memo').max = Longer(Loaded(memo).max, obs[w].ms)
      BY <2>1, <2>2, <2>4 DEF Observed
    <3> QED BY <2>1, <2>4, <3>1, <3>2, <3>3 DEF Longer
  <2> QED BY <2>5, <2>6 DEF Kept, Saving, At
<1>6. ASSUME NEW w \in Wrappers, RenameTmp(w), met PROVE Kept'
  BY <1>6 DEF RenameTmp, Kept
<1>7. ASSUME NEW w \in Wrappers, SaveFails(w) PROVE Kept'
  <2>1. /\ obs'[w].pc = "saved" /\ \A v \in Wrappers \ {w} : obs'[v] = obs[v]
        /\ UNCHANGED <<slowest, met>> /\ Saving(w)
    BY <1>0, <1>7 DEF SaveFails, ObserverState, Saving
  <2>2. ~met => memo' = memo
    BY <1>7 DEF SaveFails, Spoils, Kept
  <2>3. ~met => \A v \in Wrappers : ~Saving(v)'
    BY <2>1 DEF Kept, Saving
  <2> QED BY <2>1, <2>2, <2>3 DEF Kept, Saving, At
<1>8. ASSUME NEW w \in Wrappers, Ended(w) PROVE Kept'
  <2>1. /\ obs'[w].pc = "idle" /\ \A v \in Wrappers \ {w} : obs'[v] = obs[v]
        /\ UNCHANGED <<memo, memoTmp, slowest, met>>
    BY <1>8 DEF Ended, NoObserver
  <2> QED BY <2>1 DEF Kept, Saving, At
<1>9. CASE UNCHANGED memoVars
  BY <1>9 DEF memoVars, Kept, Saving, At
<1> QED BY <1>1, <1>2, <1>3, <1>4, <1>5, <1>6, <1>7, <1>8, <1>9
        DEF FastpathNext, Save, Killed

(* An expensive run that was saved is remembered, however wrappers die and *)
(* saves fail, unless two wrappers met.                                    *)
THEOREM ExpensiveIsRemembered == FastpathSpec => []SlowIsRemembered
<1>1. FastpathInit => Kept
  BY Entries DEF FastpathInit, Kept, NoEntry, NoObserver, Saving, At
<1>2. MemoInv /\ Kept /\ [FastpathNext]_memoVars => Kept'
  BY KeptStep
<1>3. MemoInv /\ Kept => SlowIsRemembered
  <2> SUFFICES ASSUME MemoInv, Kept, KnownFast(Loaded(memo)), ~met PROVE slowest < Floor
    BY DEF SlowIsRemembered
  <2>1. Loaded(memo).max \in Nat /\ slowest \in Nat /\ Floor \in Nat
    BY Entries, DurationsAreNatural, FastpathAssumption
       DEF MemoInv, FastpathTypeOK, MemoEntry
  <2> QED BY <2>1 DEF Kept, KnownFast
<1> QED BY <1>1, <1>2, <1>3, MemoInvariant, PTL DEF FastpathSpec

-----------------------------------------------------------------------------
(* The wrapper.                                                            *)

(* What a wrapper does is what the blob store and the memo allow, each in  *)
(* its own variables; so everything above holds of it.                     *)
THEOREM WrapperImplementsParts == WrapperSpec => BlobsSpec /\ FastpathSpec
<1>1. WrapperInit => BlobsInit /\ FastpathInit
  BY DEF WrapperInit
<1>2. ASSUME [WrapperNext]_wrapperVars
      PROVE  [BlobsNext]_blobVars /\ [FastpathNext]_memoVars
  <2>1. ASSUME NEW w \in Writers,
               \/ Start(w) \/ Put(w) \/ Feed(w) \/ Post(w)
               \/ Import(w) \/ Imported(w) \/ Kill(w)
        PROVE  [BlobsNext]_blobVars
    BY <2>1 DEF Start, Put, Feed, Post, Import, Imported, Kill, BlobsNext
  <2>2. ASSUME NEW w \in Wrappers,
               \/ Start(w) \/ Put(w) \/ Feed(w) \/ Post(w)
               \/ Import(w) \/ Imported(w) \/ Kill(w)
        PROVE  [FastpathNext]_memoVars
    BY <2>2 DEF Start, Put, Feed, Post, Import, Imported, Kill, FastpathNext
  <2>3. CASE ImportBare \/ UNCHANGED wrapperVars
    BY <2>3 DEF ImportBare, wrapperVars
  <2> QED BY <1>2, <2>1, <2>2, <2>3, WrapperAssumption DEF WrapperNext
<1> QED BY <1>1, <1>2, PTL DEF WrapperSpec, BlobsSpec, FastpathSpec

(* Once a blob has a name it keeps one, and a wrapper whose PutBlob        *)
(* returned a name, or that posted or imported a servable record, was      *)
(* after that.                                                             *)
Stored ==
  /\ \A w \in Writers : In(w, "done") => path # NoInode
  /\ posted /\ ~bare => path # NoInode

LEMMA NameStays ==
  ASSUME [BlobsNext]_blobVars, path # NoInode
  PROVE  path' # NoInode
<1>1. ASSUME NEW w \in Writers, Rename(w) PROVE path' # NoInode
  BY <1>1 DEF Rename
<1>2. ASSUME NEW w \in Writers, Open(w) PROVE path' # NoInode
  BY <1>2 DEF Open, Opened
<1>3. ASSUME NEW w \in Writers,
             Call(w) \/ Stat(w) \/ Write(w) \/ WriteFails(w) \/ Leave(w) \/ Die(w)
      PROVE  path' # NoInode
  BY <1>3 DEF Call, Stat, Write, WriteFails, Leave, Die
<1>4. CASE UNCHANGED blobVars
  BY <1>4 DEF blobVars
<1> QED BY <1>1, <1>2, <1>3, <1>4 DEF BlobsNext

(* No record claims to be servable before its output is stored.            *)
THEOREM PostedReplays == WrapperSpec => []PostedIsReplayable
<1>1. WrapperInit => Stored
  BY DEF WrapperInit, BlobsInit, Stored, NoWriter, In
<1>2. BlobsTypeOK /\ Stored /\ [BlobsNext]_blobVars /\ [WrapperNext]_wrapperVars => Stored'
  <2> SUFFICES ASSUME BlobsTypeOK, Stored, [BlobsNext]_blobVars, [WrapperNext]_wrapperVars
               PROVE  Stored'
    OBVIOUS
  <2>1. path # NoInode => path' # NoInode
    BY NameStays
  <2>2. posted' /\ ~bare' => path # NoInode
    <3>1. ASSUME NEW w \in Writers, Post(w) \/ Imported(w)
          PROVE  posted' /\ ~bare' => path # NoInode
      BY <3>1 DEF Post, Imported, Servable, Stored
    <3>2. CASE ImportBare
      BY <3>2 DEF ImportBare
    <3> QED BY <3>1, <3>2 DEF WrapperNext, wrapperVars, Start, Put, Feed, Import, Kill, Stored
  <2>3. ASSUME NEW w \in Writers, wr'[w].pc = "done" PROVE path' # NoInode
    <3> USE DEF BlobsTypeOK, Stored, In, Ends, NoWriter
    <3>1. ASSUME NEW v \in Writers, Stat(v) PROVE path' # NoInode
      BY <2>1, <2>3, <3>1 DEF Stat
    <3>2. ASSUME NEW v \in Writers, Rename(v) PROVE path' # NoInode
      BY <2>1, <2>3, <3>2 DEF Rename
    <3>3. ASSUME NEW v \in Writers, Call(v) \/ Leave(v) \/ WriteFails(v) \/ Die(v)
          PROVE  path' # NoInode
      BY <2>1, <2>3, <3>3 DEF Call, Leave, WriteFails, Die
    <3>4. ASSUME NEW v \in Writers, Open(v) \/ Write(v) PROVE path' # NoInode
      <4>1. wr[w].pc = "done"
        BY <2>3, <3>4 DEF Open, Opened, Write, WriterState
      <4> QED BY <2>1, <4>1
    <3>5. CASE UNCHANGED blobVars
      BY <2>1, <2>3, <3>5 DEF blobVars
    <3> QED BY <3>1, <3>2, <3>3, <3>4, <3>5 DEF BlobsNext
  <2> QED BY <2>1, <2>2, <2>3 DEF Stored, In
<1>3. Stored /\ WholeUnlessOverlapped => PostedIsReplayable
  BY DEF Stored, WholeUnlessOverlapped, PostedIsReplayable
<1>4. WrapperSpec => []BlobsTypeOK /\ []WholeUnlessOverlapped /\ [][BlobsNext]_blobVars
  BY WrapperImplementsParts, BlobsTypeCorrect, BlobsWholeUnlessOverlapped, PTL DEF BlobsSpec
<1> QED BY <1>1, <1>2, <1>3, <1>4, PTL DEF WrapperSpec
=============================================================================
