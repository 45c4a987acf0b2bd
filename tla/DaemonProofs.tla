---------------------------- MODULE DaemonProofs ----------------------------
(* Theorems about Daemon, for every set of calls, verifiers, keys,         *)
(* outcomes and channels, every promotion relation and every set of        *)
(* failures.                                                               *)
EXTENDS Daemon, StoreProofs

-----------------------------------------------------------------------------
(* The daemon and its store: every step of the daemon is a step of the     *)
(* store or leaves the store alone.                                        *)

(* The lines the daemon makes itself, a hit's and a verdict's, are lines.  *)
LEMMA HitLineIsLine ==
  ASSUME DaemonTypeOK, NEW h \in Calls, At(h, "serve")
  PROVE  HitLine(h) \in Lines
<1>1. /\ call[h] \in CallState /\ CallOK(call[h]) /\ call[h].pc = "serve"
  BY DEF DaemonTypeOK, At
<1>2. call[h].key \in Keys /\ call[h].rec \in Record
  BY <1>1 DEF CallOK, CallState
<1> QED BY <1>2 DEF HitLine, Lines, Record

LEMMA VerdictLineIsLine ==
  ASSUME DaemonTypeOK, NEW v \in Verifiers, ver[v].pc = "append"
  PROVE  VerdictLine(v) \in Lines
<1>1. ver[v].key \in Keys /\ ver[v].ok \in BOOLEAN
  BY DEF DaemonTypeOK, VerifierState
<1>2. (CHOOSE o \in Outs : TRUE) \in Outs
  BY DaemonAssumption
<1> QED BY <1>1, <1>2 DEF VerdictLine, Lines, Record

LEMMA PostedLineIsLine ==
  ASSUME DaemonTypeOK, NEW h \in Calls, At(h, "record")
  PROVE  call[h].rec \in Lines /\ call[h].rec.key = call[h].key
<1>1. call[h] \in CallState /\ CallOK(call[h]) /\ call[h].pc = "record"
  BY DEF DaemonTypeOK, At
<1> QED BY <1>1 DEF CallOK, RecordPCs

(* The steps of the store other than the end of the process.               *)
StoreWork ==
  \/ \E r \in Lines : AppendRecord(r) \/ AppendShort(r)
  \/ \E k \in Keys : Evict(k)
  \/ ReplayLine \/ ReplayDone

(* Each action of the daemon is an action of the store, or none of its.    *)
LEMMA DaemonStoreWork ==
  ASSUME DaemonTypeOK, [DaemonNext]_daemonVars, ~DaemonCrash
  PROVE  [StoreWork]_storeVars
<1>1. CASE UNCHANGED daemonVars
  BY <1>1 DEF daemonVars
<1>2. ASSUME NEW h \in Calls, HandlerStep(h) \/ ClientStep(h) \/ Expire(h) \/ RecordFails(h)
      PROVE  [StoreWork]_storeVars
  <2>1. CASE FindExact(h) \/ TryScope(h) \/ Peek(h) \/ DropExpired(h) \/ Recheck(h)
             \/ Acquire(h) \/ Mark(h) \/ Release(h) \/ Close(h)
    BY <2>1 DEF FindExact, TryScope, Peek, DropExpired, Recheck, Acquire, Mark,
                Release, Close
  <2>2. CASE ClientStep(h) \/ Expire(h)
    BY <2>2 DEF ClientStep, Lookup, Finish, Die, LosePost, PostRelease, LoseRelease,
                Expire
  <2>3. CASE Serve(h)
    BY <2>3, HitLineIsLine DEF Serve, StoreWork
  <2>4. CASE RecordAppend(h)
    BY <2>4, PostedLineIsLine DEF RecordAppend, StoreWork
  <2>5. CASE RecordFails(h)
    BY <2>5, PostedLineIsLine DEF RecordFails, StoreWork
  <2> QED BY <1>2, <2>1, <2>2, <2>3, <2>4, <2>5 DEF HandlerStep
<1>3. ASSUME NEW v \in Verifiers, VerifierStep(v) PROVE [StoreWork]_storeVars
  <2>1. CASE FetchServable(v) \/ Verdict(v)
    BY <2>1 DEF FetchServable, Verdict
  <2>2. CASE VerifyEvict(v)
    <3>1. ver[v].key \in Keys
      BY <2>2 DEF VerifyEvict, DaemonTypeOK
    <3> QED BY <2>2, <3>1 DEF VerifyEvict, StoreWork
  <2>3. CASE VerifyAppend(v)
    BY <2>3, VerdictLineIsLine DEF VerifyAppend, StoreWork
  <2> QED BY <1>3, <2>1, <2>2, <2>3 DEF VerifierStep
<1>5. CASE Starting
  BY <1>5 DEF Starting, StoreWork
<1> QED BY <1>1, <1>2, <1>3, <1>5 DEF DaemonNext

LEMMA DaemonStoreStep ==
  ASSUME DaemonTypeOK, [DaemonNext]_daemonVars
  PROVE  [StoreNext]_storeVars
BY DaemonStoreWork DEF DaemonCrash, StoreWork, StoreNext

-----------------------------------------------------------------------------
(* Types.                                                                  *)

(* The part of the state that is the daemon's own.                         *)
OwnTypeOK ==
  /\ leases \in [Keys -> Chans \cup {NoChan}]
  /\ unservable \subseteq Keys
  /\ expired \subseteq Chans
  /\ call \in [Calls -> CallState]
  /\ \A h \in Calls : CallOK(call[h])
  /\ ver \in [Verifiers -> VerifierState]
  /\ \A v \in Verifiers : ver[v].pc = "idle" \/ ver[v].key \in Keys

(* A call that moves to a well-formed state keeps all of them well formed. *)
LEMMA OneCall ==
  ASSUME OwnTypeOK, NEW h \in Calls, NEW c \in CallState, CallOK(c),
         call' = [call EXCEPT ![h] = c]
  PROVE  call' \in [Calls -> CallState] /\ \A g \in Calls : CallOK(call'[g])
BY DEF OwnTypeOK

LEMMA NoCallOK == NoCall \in CallState /\ CallOK(NoCall)
BY DEF NoCall, CallState, CallOK, PCs, RecordPCs

(* The records a lookup may choose are records.                            *)
LEMMA CandidateIsRecord ==
  ASSUME StoreTypeOK, NEW k \in Keys, NEW c \in Promotable(k)
  PROVE  c.rec \in Record /\ c.rec # NoRecord
<1>1. CandKey[k] \in CandKeys
  BY StoreAssumption
<1>2. c \in Candidate
  BY <1>1 DEF Promotable, Recent, StoreTypeOK
<1> QED BY <1>2, StoreAssumption DEF Candidate

(* Finding a record, serving it or not, keeps the calls well formed.       *)
LEMMA FindTypeStep ==
  ASSUME StoreTypeOK, OwnTypeOK, NEW h \in Calls, NEW r \in Record \cup {NoRecord},
         ~At(h, "idle"), call[h].chan = NoChan, NEW pc \in {"scope", "acquire"},
         call' = [call EXCEPT ![h].pc = IF r = NoRecord THEN pc ELSE "serve",
                              ![h].rec = r]
  PROVE  call' \in [Calls -> CallState] /\ \A g \in Calls : CallOK(call'[g])
<1> DEFINE c == [call[h] EXCEPT !.pc = IF r = NoRecord THEN pc ELSE "serve", !.rec = r]
<1>0. call[h] \in CallState /\ CallOK(call[h])
  BY DEF OwnTypeOK
<1>1. c \in CallState /\ CallOK(c)
  BY <1>0 DEF At, CallState, CallOK, PCs, LookupPCs, RecordPCs
<1>2. call' = [call EXCEPT ![h] = c]
  BY DEF OwnTypeOK
<1> QED BY <1>1, <1>2, OneCall

(* A step to another place of the handler keeps the calls well formed.     *)
LEMMA GotoTypeStep ==
  ASSUME OwnTypeOK, NEW h \in Calls, ~At(h, "idle"),
         NEW pc \in PCs \ {"serve"}, Goto(h, pc),
         call[h].chan # NoChan <=> pc \in {"wait", "expired", "close"},
         pc \in {"record", "mark"} => call[h].rec # NoRecord,
         call[h].rec # NoRecord => pc \in RecordPCs /\ call[h].pc \in RecordPCs
  PROVE  call' \in [Calls -> CallState] /\ \A g \in Calls : CallOK(call'[g])
<1> DEFINE c == [call[h] EXCEPT !.pc = pc]
<1>0. call[h] \in CallState /\ CallOK(call[h])
  BY DEF OwnTypeOK
<1>1. c \in CallState /\ CallOK(c)
  BY <1>0 DEF At, CallState, CallOK, PCs, LookupPCs, RecordPCs
<1>2. call' = [call EXCEPT ![h] = c]
  BY DEF OwnTypeOK, Goto
<1> QED BY <1>1, <1>2, OneCall

(* The lookup handler keeps the types.                                     *)
LEMMA LookupTypeStep ==
  ASSUME StoreTypeOK, OwnTypeOK, NEW h \in Calls,
         \/ FindExact(h) \/ TryScope(h) \/ Peek(h) \/ Expire(h) \/ DropExpired(h)
         \/ Recheck(h) \/ Serve(h) \/ Acquire(h)
  PROVE  OwnTypeOK'
<1>0. call[h] \in CallState /\ CallOK(call[h])
  BY DEF OwnTypeOK
<1>a. call[h].key \in Keys \/ At(h, "idle")
  BY <1>0 DEF CallOK, At
<1> USE StoreAssumption, DaemonAssumption
<1>1. CASE FindExact(h)
  <2>1. call[h].key \in Keys /\ call[h].chan = NoChan /\ ~At(h, "idle")
    BY <1>0, <1>1 DEF FindExact, At, CallOK
  <2> QED BY <1>1, <2>1, FindTypeStep
          DEF FindExact, flightVars, OwnTypeOK, StoreTypeOK
<1>2. CASE Recheck(h)
  <2>1. call[h].key \in Keys /\ call[h].chan = NoChan /\ ~At(h, "idle")
    BY <1>0, <1>2 DEF Recheck, At, CallOK
  <2> QED BY <1>2, <2>1, FindTypeStep
          DEF Recheck, flightVars, OwnTypeOK, StoreTypeOK
<1>3. CASE TryScope(h)
  <2>1. /\ call[h].key \in Keys /\ call[h].chan = NoChan /\ call[h].rec = NoRecord
        /\ ~At(h, "idle") /\ At(h, "scope")
    BY <1>0, <1>3 DEF TryScope, At, CallOK, RecordPCs
  <2>2. CASE Goto(h, "peek")
    BY <1>3, <2>1, <2>2, GotoTypeStep
       DEF TryScope, flightVars, OwnTypeOK, PCs, LookupPCs, RecordPCs
  <2>3. ASSUME NEW c \in Promotable(call[h].key),
               call' = [call EXCEPT ![h].pc = "serve", ![h].rec = c.rec]
        PROVE  OwnTypeOK'
    <3>1. c.rec \in Record /\ c.rec # NoRecord
      BY <2>1, CandidateIsRecord
    <3>2. call' = [call EXCEPT ![h].pc = IF c.rec = NoRecord THEN "acquire" ELSE "serve",
                               ![h].rec = c.rec]
      BY <2>3, <3>1
    <3> QED BY <1>3, <2>1, <3>1, <3>2, FindTypeStep DEF TryScope, flightVars, OwnTypeOK
  <2> QED BY <1>3, <2>2, <2>3 DEF TryScope
<1>4. CASE Peek(h)
  <2> DEFINE c == [call[h] EXCEPT !.pc = "wait", !.chan = leases[call[h].key]]
  <2>1. /\ call[h].key \in Keys /\ call[h].chan = NoChan /\ call[h].rec = NoRecord
        /\ ~At(h, "idle") /\ At(h, "peek")
    BY <1>0, <1>4 DEF Peek, At, CallOK, RecordPCs
  <2>2. CASE Goto(h, "acquire")
    BY <1>4, <2>1, <2>2, GotoTypeStep
       DEF Peek, flightVars, OwnTypeOK, PCs, LookupPCs, RecordPCs
  <2>3. CASE ~Goto(h, "acquire")
    <3>1. leases[call[h].key] # NoChan /\ call' = [call EXCEPT ![h] = c]
      BY <1>4, <2>3 DEF Peek, OwnTypeOK
    <3>2. c \in CallState /\ CallOK(c)
      BY <1>0, <2>1, <3>1 DEF OwnTypeOK, CallState, CallOK, PCs, LookupPCs, RecordPCs
    <3> QED BY <1>4, <3>1, <3>2, OneCall DEF Peek, flightVars, OwnTypeOK
  <2> QED BY <2>2, <2>3
<1>5. CASE Expire(h)
  <2>1. call[h].chan # NoChan /\ call[h].rec = NoRecord /\ At(h, "wait")
    BY <1>0, <1>5 DEF Expire, At, CallOK, RecordPCs
  <2> QED BY <1>5, <2>1, GotoTypeStep
          DEF Expire, At, flightVars, OwnTypeOK, PCs, LookupPCs, RecordPCs
<1>6. CASE DropExpired(h)
  <2> DEFINE c == [call[h] EXCEPT !.pc = "acquire", !.chan = NoChan]
  <2>1. /\ call[h].key \in Keys /\ call[h].chan \in Chans /\ call[h].rec = NoRecord
        /\ At(h, "expired")
    BY <1>0, <1>6 DEF DropExpired, At, CallOK, CallState, RecordPCs
  <2>2. call' = [call EXCEPT ![h] = c]
    BY <1>6 DEF DropExpired, OwnTypeOK
  <2>3. c \in CallState /\ CallOK(c)
    BY <1>0, <2>1 DEF CallState, CallOK, PCs, LookupPCs, RecordPCs
  <2>4. leases' \in [Keys -> Chans \cup {NoChan}] /\ expired' \subseteq Chans
    BY <1>6, <2>1 DEF DropExpired, OwnTypeOK
  <2> QED BY <1>6, <2>2, <2>3, <2>4, OneCall DEF DropExpired, OwnTypeOK
<1>7. CASE Serve(h)
  BY <1>7, NoCallOK, OneCall DEF Serve, Return, flightVars, OwnTypeOK
<1>8. CASE Acquire(h)
  <2>1. /\ call[h].key \in Keys /\ call[h].chan = NoChan /\ call[h].rec = NoRecord
        /\ At(h, "acquire")
    BY <1>0, <1>8 DEF Acquire, At, CallOK, RecordPCs
  <2>2. leases' \in [Keys -> Chans \cup {NoChan}] /\ expired' \subseteq Chans
    BY <1>8, <2>1 DEF Acquire, OwnTypeOK
  <2> QED BY <1>8, <2>1, <2>2, GotoTypeStep
          DEF Acquire, At, OwnTypeOK, PCs, LookupPCs, RecordPCs
<1> QED BY <1>1, <1>2, <1>3, <1>4, <1>5, <1>6, <1>7, <1>8

(* The wrapper and the handlers of its record and its release keep them.   *)
LEMMA RecordTypeStep ==
  ASSUME OwnTypeOK, NEW h \in Calls,
         ClientStep(h) \/ RecordAppend(h) \/ RecordFails(h) \/ Mark(h) \/ Release(h)
         \/ Close(h)
  PROVE  OwnTypeOK'
<1>0. call[h] \in CallState /\ CallOK(call[h])
  BY DEF OwnTypeOK
<1> USE DaemonAssumption
<1>1. ASSUME NEW k \in Keys, Lookup(h, k) PROVE OwnTypeOK'
  <2>1. PICK b \in BOOLEAN :
          call' = [call EXCEPT ![h] = [NoCall EXCEPT
                     !.pc = IF b THEN "lookup" ELSE "acquire", !.key = k, !.serve = b]]
    BY <1>1 DEF Lookup
  <2> DEFINE c == [NoCall EXCEPT !.pc = IF b THEN "lookup" ELSE "acquire",
                                 !.key = k, !.serve = b]
  <2>2. c \in CallState /\ CallOK(c)
    BY DEF NoCall, CallState, CallOK, PCs, LookupPCs, RecordPCs
  <2> QED BY <1>1, <2>1, <2>2, OneCall DEF Lookup, flightVars, OwnTypeOK
<1>2. CASE Finish(h)
  <2>1. PICK o \in Outs, b \in BOOLEAN :
          call' = [call EXCEPT ![h].pc = "record",
                     ![h].rec = [key |-> call[h].key, out |-> o, servable |-> b,
                                 verified |-> "null"]]
    BY <1>2 DEF Finish
  <2> DEFINE r == [key |-> call[h].key, out |-> o, servable |-> b, verified |-> "null"]
             c == [call[h] EXCEPT !.pc = "record", !.rec = r]
  <2>2. call[h].key \in Keys /\ call[h].chan = NoChan
    BY <1>0, <1>2 DEF Finish, At, CallOK
  <2>3. r \in Record /\ r \in Lines /\ r.key = call[h].key
    BY <2>2 DEF Record, Lines
  <2>4. r # NoRecord
    BY <2>3, LineIsRecord
  <2> HIDE DEF r
  <2>5. c \in CallState /\ CallOK(c)
    BY <1>0, <2>2, <2>3, <2>4 DEF CallState, CallOK, PCs, LookupPCs, RecordPCs
  <2>6. call' = [call EXCEPT ![h] = c]
    BY <2>1 DEF OwnTypeOK, r
  <2> QED BY <1>2, <2>5, <2>6, OneCall DEF Finish, flightVars, OwnTypeOK
<1>3. CASE Die(h) \/ LoseRelease(h) \/ RecordFails(h)
  BY <1>3, NoCallOK, OneCall
     DEF Die, LoseRelease, RecordFails, Return, flightVars, OwnTypeOK
<1>4. CASE LosePost(h)
  <2>1. call[h].chan = NoChan /\ call[h].rec = NoRecord /\ At(h, "run")
    BY <1>0, <1>4 DEF LosePost, At, CallOK, RecordPCs
  <2> QED BY <1>4, <2>1, GotoTypeStep
          DEF LosePost, At, flightVars, OwnTypeOK, PCs, LookupPCs, RecordPCs
<1>5. CASE PostRelease(h)
  <2>1. call[h].chan = NoChan /\ At(h, "sorry") /\ call[h].rec = NoRecord
    BY <1>0, <1>5 DEF PostRelease, At, CallOK, RecordPCs
  <2> QED BY <1>5, <2>1, GotoTypeStep
          DEF PostRelease, At, flightVars, OwnTypeOK, PCs, LookupPCs, RecordPCs
<1>6. CASE RecordAppend(h) \/ Mark(h)
  <2>1. /\ call[h].chan = NoChan /\ call[h].rec # NoRecord /\ call[h].key \in Keys
        /\ At(h, "record") \/ At(h, "mark")
    BY <1>0, <1>6 DEF RecordAppend, Mark, At, CallOK
  <2>2. PICK pc \in {"mark", "release"} : Goto(h, pc)
    BY <1>6 DEF RecordAppend, AfterAppend, Mark
  <2>3. unservable' \subseteq Keys /\ UNCHANGED <<leases, expired, ver>>
    BY <1>6, <2>1 DEF RecordAppend, Mark, flightVars, OwnTypeOK
  <2> QED BY <2>1, <2>2, <2>3, GotoTypeStep
          DEF At, OwnTypeOK, PCs, LookupPCs, RecordPCs
<1>7. CASE Release(h)
  <2>1. call[h].key \in Keys /\ At(h, "release")
    BY <1>0, <1>7 DEF Release, At, CallOK
  <2>2. CASE Return(h) /\ UNCHANGED leases
    BY <1>7, <2>2, NoCallOK, OneCall DEF Release, Return, OwnTypeOK
  <2>3. CASE ~(Return(h) /\ UNCHANGED leases)
    <3> DEFINE c == [call[h] EXCEPT !.pc = "close", !.chan = leases[call[h].key]]
    <3>1. leases[call[h].key] # NoChan /\ call' = [call EXCEPT ![h] = c]
      BY <1>7, <2>3 DEF Release, OwnTypeOK
    <3>2. c \in CallState /\ CallOK(c)
      BY <1>0, <2>1, <3>1 DEF At, OwnTypeOK, CallState, CallOK, PCs, LookupPCs, RecordPCs
    <3>3. leases' \in [Keys -> Chans \cup {NoChan}]
      BY <1>7, <2>1 DEF Release, OwnTypeOK
    <3> QED BY <1>7, <3>1, <3>2, <3>3, OneCall DEF Release, OwnTypeOK
  <2> QED BY <2>2, <2>3
<1>8. CASE Close(h)
  <2>1. ASSUME NEW g \in Calls PROVE call'[g] \in CallState /\ CallOK(call'[g])
    <3>1. call[g] \in CallState /\ CallOK(call[g])
      BY DEF OwnTypeOK
    <3>2. \/ call'[g] = NoCall \/ call'[g] = call[g]
          \/ /\ call[g].pc = "wait"
             /\ call'[g] = [call[g] EXCEPT !.pc = "woken", !.chan = NoChan, !.rec = call[h].rec]
      BY <1>8 DEF Close, At
    <3>3. ASSUME call[g].pc = "wait"
          PROVE  LET c == [call[g] EXCEPT !.pc = "woken", !.chan = NoChan, !.rec = call[h].rec]
                 IN  c \in CallState /\ CallOK(c)
      BY <1>0, <3>1, <3>3 DEF CallState, CallOK, PCs, LookupPCs, RecordPCs
    <3> QED BY <3>1, <3>2, <3>3, NoCallOK
  <2>2. call' \in [Calls -> CallState]
    BY <1>8, <2>1 DEF Close
  <2> QED BY <1>8, <2>1, <2>2 DEF Close, flightVars, OwnTypeOK
<1> QED BY <1>1, <1>2, <1>3, <1>4, <1>5, <1>6, <1>7, <1>8 DEF ClientStep

(* The verifiers keep them.                                                *)
LEMMA VerifierTypeStep ==
  ASSUME OwnTypeOK, NEW v \in Verifiers, VerifierStep(v)
  PROVE  OwnTypeOK'
<1>0. ver[v] \in VerifierState /\ (ver[v].pc = "idle" \/ ver[v].key \in Keys)
  BY DEF OwnTypeOK
<1>1. UNCHANGED <<flightVars, call>>
  BY DEF VerifierStep, FetchServable, Verdict, VerifyEvict, VerifyAppend
<1>2. PICK s \in VerifierState :
        ver' = [ver EXCEPT ![v] = s] /\ (s.pc = "idle" \/ s.key \in Keys)
  <2>1. CASE FetchServable(v)
    <3>1. PICK k \in Keys :
            ver' = [ver EXCEPT ![v] = [NoVerdict EXCEPT !.pc = "judge", !.key = k]]
      BY <2>1 DEF FetchServable
    <3> DEFINE s == [NoVerdict EXCEPT !.pc = "judge", !.key = k]
    <3>2. s \in VerifierState /\ s.key \in Keys
      BY DEF NoVerdict, VerifierState
    <3> QED BY <3>1, <3>2
  <2>2. CASE Verdict(v)
    <3>1. PICK ok \in BOOLEAN :
            ver' = [ver EXCEPT ![v].pc = IF ok THEN "append" ELSE "evict", ![v].ok = ok]
      BY <2>2 DEF Verdict
    <3> DEFINE s == [ver[v] EXCEPT !.pc = IF ok THEN "append" ELSE "evict", !.ok = ok]
    <3>2. ver' = [ver EXCEPT ![v] = s] /\ ver[v].key \in Keys
      BY <1>0, <2>2, <3>1 DEF Verdict, OwnTypeOK
    <3>3. s \in VerifierState /\ s.key \in Keys
      BY <1>0, <3>2 DEF VerifierState
    <3> QED BY <3>2, <3>3
  <2>3. CASE VerifyEvict(v)
    <3> DEFINE s == [ver[v] EXCEPT !.pc = "append"]
    <3>1. ver' = [ver EXCEPT ![v] = s] /\ ver[v].key \in Keys
      BY <1>0, <2>3 DEF VerifyEvict, OwnTypeOK
    <3>2. s \in VerifierState /\ s.key \in Keys
      BY <1>0, <3>1 DEF VerifierState
    <3> QED BY <3>1, <3>2
  <2>4. CASE VerifyAppend(v)
    <3>1. NoVerdict \in VerifierState /\ NoVerdict.pc = "idle"
      BY DEF NoVerdict, VerifierState
    <3> QED BY <2>4, <3>1 DEF VerifyAppend
  <2> QED BY <2>1, <2>2, <2>3, <2>4 DEF VerifierStep
<1> QED BY <1>1, <1>2 DEF OwnTypeOK, flightVars

(* The end of the daemon process keeps them.                               *)
LEMMA CrashTypeStep == ASSUME OwnTypeOK, DaemonCrash PROVE OwnTypeOK'
<1>1. ASSUME NEW h \in Calls PROVE Severed(call[h]) \in CallState /\ CallOK(Severed(call[h]))
  <2>1. call[h] \in CallState /\ CallOK(call[h])
    BY DEF OwnTypeOK
  <2> DEFINE c == [NoCall EXCEPT !.pc = "sorry", !.key = call[h].key, !.serve = call[h].serve]
  <2>2. CASE call[h].pc \in RecordPCs
    BY <2>1, <2>2 DEF Severed, NoCall, CallState, CallOK, PCs, LookupPCs, RecordPCs
  <2> QED BY <2>1, <2>2, NoCallOK DEF Severed
<1>2. ASSUME NEW v \in Verifiers
      PROVE  /\ SeveredVerdict(ver[v]) \in VerifierState
             /\ SeveredVerdict(ver[v]).pc = "idle" \/ SeveredVerdict(ver[v]).key \in Keys
  BY DEF OwnTypeOK, SeveredVerdict, NoVerdict, VerifierState
<1> QED BY <1>1, <1>2 DEF DaemonCrash, OwnTypeOK

(* Every step keeps the types.                                             *)
LEMMA DaemonTypeStep ==
  ASSUME DaemonTypeOK, [DaemonNext]_daemonVars
  PROVE  DaemonTypeOK'
<1>1. StoreTypeOK /\ OwnTypeOK
  BY DEF DaemonTypeOK, OwnTypeOK
<1>2. StoreTypeOK'
  BY <1>1, DaemonStoreStep, StoreTypeStep
<1>3. CASE UNCHANGED daemonVars
  BY <1>1, <1>2, <1>3 DEF daemonVars, DaemonTypeOK, OwnTypeOK
<1>4. ASSUME NEW h \in Calls, HandlerStep(h) \/ ClientStep(h) \/ Expire(h) \/ RecordFails(h)
      PROVE  OwnTypeOK'
  <2>1. CASE FindExact(h) \/ TryScope(h) \/ Peek(h) \/ Expire(h) \/ DropExpired(h)
             \/ Recheck(h) \/ Serve(h) \/ Acquire(h)
    BY <1>1, <2>1, LookupTypeStep
  <2>2. CASE ClientStep(h) \/ RecordAppend(h) \/ RecordFails(h) \/ Mark(h)
             \/ Release(h) \/ Close(h)
    BY <1>1, <2>2, RecordTypeStep
  <2> QED BY <1>4, <2>1, <2>2 DEF HandlerStep
<1>5. ASSUME Starting PROVE OwnTypeOK'
  BY <1>1, <1>5 DEF Starting, flightVars, OwnTypeOK
<1>6. OwnTypeOK' => DaemonTypeOK'
  BY <1>2 DEF DaemonTypeOK, OwnTypeOK
<1> QED BY <1>1, <1>3, <1>4, <1>5, <1>6, VerifierTypeStep, CrashTypeStep DEF DaemonNext

LEMMA DaemonInitType == DaemonInit => DaemonTypeOK
<1> SUFFICES ASSUME DaemonInit PROVE DaemonTypeOK
  OBVIOUS
<1>1. StoreTypeOK
  BY StoreInitInv DEF DaemonInit, StoreInv
<1>2. NoVerdict \in VerifierState /\ NoVerdict.pc = "idle"
  BY DEF NoVerdict, VerifierState
<1> QED BY <1>1, <1>2, NoCallOK DEF DaemonInit, DaemonTypeOK

(* The daemon's maps and its calls keep their shape, the store's included. *)
THEOREM DaemonTypeCorrect == DaemonSpec => []DaemonTypeOK
<1>1. DaemonTypeOK /\ [DaemonNext]_daemonVars => DaemonTypeOK'
  BY DaemonTypeStep
<1> QED BY <1>1, DaemonInitType, PTL DEF DaemonSpec

(* The daemon implements the store: whatever its handlers, clients and     *)
(* verifiers interleave, and whatever fails, what they do to the log and   *)
(* its indexes is a behaviour of Store.                                    *)
THEOREM DaemonImplementsStore == DaemonSpec => StoreSpec
<1>1. DaemonInit => StoreInit
  BY DEF DaemonInit
<1>2. DaemonTypeOK /\ [DaemonNext]_daemonVars => [StoreNext]_storeVars
  BY DaemonStoreStep
<1> QED BY <1>1, <1>2, DaemonTypeCorrect, PTL DEF DaemonSpec, StoreSpec

(* Hence the invariants of the store hold in the running daemon.           *)
THEOREM DaemonKeepsStoreInv == DaemonSpec => []StoreInv
BY DaemonImplementsStore, StoreInvariant, PTL
=============================================================================
