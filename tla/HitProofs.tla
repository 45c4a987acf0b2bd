----------------------------- MODULE HitProofs ------------------------------
(* Theorems about what Daemon serves: a HIT is legitimate, and a waiter is *)
(* woken after the result it waits for can be found.                       *)
EXTENDS LeaseProofs

-----------------------------------------------------------------------------
(* Hits.                                                                   *)

(* A lookup that may find a record asked to be served.                     *)
ServeAsked ==
  \A h \in Calls :
    call[h].pc \in {"lookup", "scope", "peek", "wait", "expired", "woken"} =>
      call[h].serve /\ call[h].key \notin RecordOnly

(* A step of one call that leaves its key and its wish alone.              *)
LEMMA AskedStep ==
  ASSUME ServeAsked, OwnTypeOK, NEW h \in Calls,
         \A g \in Calls \ {h} : call'[g] = call[g],
         \/ call'[h].pc \notin {"lookup", "scope", "peek", "wait", "expired", "woken"}
         \/ /\ call[h].pc \in {"lookup", "scope", "peek", "wait", "expired", "woken"}
            /\ call'[h].serve = call[h].serve /\ call'[h].key = call[h].key
  PROVE  ServeAsked'
BY DEF ServeAsked

LEMMA ServeAskedStep ==
  ASSUME DaemonTypeOK, ServeAsked, [DaemonNext]_daemonVars
  PROVE  ServeAsked'
<1>1. OwnTypeOK
  BY DEF DaemonTypeOK, OwnTypeOK
<1>2. ASSUME UNCHANGED call PROVE ServeAsked'
  BY <1>2 DEF ServeAsked
<1>3. ASSUME NEW h \in Calls, HandlerStep(h) \/ ClientStep(h) \/ Expire(h) \/ RecordFails(h)
      PROVE  ServeAsked'
  <2> USE <1>1 DEF OwnTypeOK, CallState
  <2>1. CASE FindExact(h)
    BY <2>1, AskedStep DEF FindExact, At
  <2>2. CASE TryScope(h)
    BY <2>2, AskedStep DEF TryScope, Goto, At
  <2>3. CASE Recheck(h)
    BY <2>3, AskedStep DEF Recheck, At
  <2>4. CASE Peek(h)
    BY <2>4, AskedStep DEF Peek, Goto, At
  <2>5. CASE Expire(h)
    BY <2>5, AskedStep DEF Expire, Goto, At
  <2>6. CASE DropExpired(h)
    BY <2>6, AskedStep DEF DropExpired
  <2>7. CASE Serve(h) \/ Die(h) \/ LoseRelease(h) \/ RecordFails(h)
    BY <2>7, AskedStep DEF Serve, Die, LoseRelease, RecordFails, Return, NoCall
  <2>8. CASE Acquire(h) \/ LosePost(h) \/ PostRelease(h) \/ Mark(h)
    BY <2>8, AskedStep DEF Acquire, LosePost, PostRelease, Mark, Goto
  <2>9. CASE RecordAppend(h)
    BY <2>9, AskedStep DEF RecordAppend, AfterAppend, Goto
  <2>10. CASE Release(h)
    <3>1. call'[h].pc \in {"idle", "close"} /\ \A g \in Calls \ {h} : call'[g] = call[g]
      BY <2>10 DEF Release, Return, NoCall
    <3> QED BY <3>1, AskedStep
  <2>11. CASE Finish(h)
    BY <2>11, AskedStep DEF Finish
  <2>12. CASE Close(h)
    <3>1. \A g \in Calls : \/ call'[g].pc = "idle" \/ call'[g] = call[g]
                           \/ /\ call[g].pc = "wait"
                              /\ call'[g].serve = call[g].serve /\ call'[g].key = call[g].key
      BY <2>12 DEF Close, NoCall, At
    <3> QED BY <3>1 DEF ServeAsked
  <2>13. ASSUME NEW k \in Keys, Lookup(h, k) PROVE ServeAsked'
    <3>1. PICK b \in IF k \in RecordOnly THEN {FALSE} ELSE BOOLEAN :
            call' = [call EXCEPT ![h] = [NoCall EXCEPT
                       !.pc = IF b THEN "lookup" ELSE "acquire", !.key = k, !.serve = b]]
      BY <2>13 DEF Lookup
    <3>2. /\ call'[h].pc = IF b THEN "lookup" ELSE "acquire"
          /\ call'[h].key = k /\ call'[h].serve = b
          /\ \A g \in Calls \ {h} : call'[g] = call[g]
      BY <3>1 DEF NoCall
    <3>3. b = TRUE \/ b = FALSE
      BY <3>1
    <3>4. b = TRUE => k \notin RecordOnly
      BY <3>1
    <3>5. CASE b = TRUE
      BY <3>2, <3>4, <3>5 DEF ServeAsked
    <3>6. CASE b = FALSE
      BY <3>2, <3>6 DEF ServeAsked
    <3> QED BY <3>3, <3>5, <3>6
  <2> QED BY <1>3, <2>1, <2>2, <2>3, <2>4, <2>5, <2>6, <2>7, <2>8, <2>9, <2>10,
             <2>11, <2>12, <2>13 DEF HandlerStep, ClientStep
<1>4. ASSUME NEW v \in Verifiers, VerifierStep(v) PROVE ServeAsked'
  BY <1>2, <1>4 DEF VerifierStep, FetchServable, Verdict, VerifyEvict, VerifyAppend
<1>5. ASSUME Starting PROVE ServeAsked'
  BY <1>2, <1>5 DEF Starting
<1>6. ASSUME UNCHANGED daemonVars PROVE ServeAsked'
  BY <1>2, <1>6 DEF daemonVars
<1>7. ASSUME DaemonCrash PROVE ServeAsked'
  <2>1. ASSUME NEW h \in Calls PROVE call'[h].pc \notin LookupPCs
    <3>0. call'[h] = Severed(call[h])
      BY <1>7 DEF DaemonCrash
    <3>1. CASE call[h].pc \in LookupPCs
      <4>1. call'[h] = NoCall
        BY <3>0, <3>1 DEF Severed
      <4> QED BY <4>1 DEF NoCall, LookupPCs
    <3>2. CASE call[h].pc \in RecordPCs
      <4>1. call[h].pc \notin LookupPCs
        BY <3>2 DEF LookupPCs, RecordPCs
      <4>2. call'[h].pc = "sorry"
        BY <3>0, <3>2, <4>1 DEF Severed, NoCall
      <4> QED BY <4>2 DEF LookupPCs
    <3>3. CASE call[h].pc \notin LookupPCs \cup RecordPCs
      BY <3>0, <3>3 DEF Severed
    <3> QED BY <3>1, <3>2, <3>3
  <2> QED BY <2>1 DEF ServeAsked, LookupPCs
<1> QED BY <1>3, <1>4, <1>5, <1>6, <1>7 DEF DaemonNext

THEOREM DaemonServesWhoAsked == DaemonSpec => []ServeAsked
<1>1. DaemonInit => ServeAsked
  BY DEF DaemonInit, NoCall, ServeAsked
<1>2. DaemonTypeOK /\ ServeAsked /\ [DaemonNext]_daemonVars => ServeAsked'
  BY ServeAskedStep
<1> QED BY <1>1, <1>2, DaemonTypeCorrect, PTL DEF DaemonSpec

(* Only a lookup that looks in the index comes to serve.                   *)
LEMMA OnlyLookupsServe ==
  ASSUME DaemonTypeOK, [DaemonNext]_daemonVars, NEW h \in Calls,
         At(h, "serve")', ~FindExact(h), ~Recheck(h), ~TryScope(h)
  PROVE  call'[h] = call[h]
<1>1. OwnTypeOK /\ call'[h].pc = "serve"
  BY DEF DaemonTypeOK, OwnTypeOK, At
<1>2. ASSUME NEW g \in Calls, HandlerStep(g) \/ ClientStep(g) \/ Expire(g) \/ RecordFails(g)
      PROVE  call'[h] = call[h]
  <2> USE <1>1 DEF OwnTypeOK, CallState
  <2>1. CASE FindExact(g) \/ TryScope(g) \/ Recheck(g)
    <3>1. g # h /\ \A f \in Calls \ {g} : call'[f] = call[f]
      BY <2>1 DEF FindExact, TryScope, Recheck, Goto
    <3> QED BY <3>1
  <2>2. CASE \/ Peek(g) \/ Expire(g) \/ DropExpired(g) \/ Acquire(g) \/ LosePost(g) \/ PostRelease(g)
             \/ Mark(g)
    <3>1. call'[g].pc \in {"wait", "expired", "acquire", "run", "sorry", "release"}
          /\ \A f \in Calls \ {g} : call'[f] = call[f]
      BY <2>2 DEF Peek, Expire, DropExpired, Acquire, LosePost, PostRelease, Mark, Goto
    <3> QED BY <3>1
  <2>3. CASE Serve(g) \/ Die(g) \/ LoseRelease(g) \/ RecordFails(g)
    <3>1. call'[g].pc = "idle" /\ \A f \in Calls \ {g} : call'[f] = call[f]
      BY <2>3 DEF Serve, Die, LoseRelease, RecordFails, Return, NoCall
    <3> QED BY <3>1
  <2>4. CASE RecordAppend(g)
    <3>1. call'[g].pc \in {"mark", "release"} /\ \A f \in Calls \ {g} : call'[f] = call[f]
      BY <2>4 DEF RecordAppend, AfterAppend, Goto
    <3> QED BY <3>1
  <2>5. CASE Release(g)
    <3>1. call'[g].pc \in {"idle", "close"} /\ \A f \in Calls \ {g} : call'[f] = call[f]
      BY <2>5 DEF Release, Return, NoCall
    <3> QED BY <3>1
  <2>6. CASE Close(g)
    <3>1. \A f \in Calls : call'[f].pc \in {"idle", "woken"} \/ call'[f] = call[f]
      BY <2>6 DEF Close, NoCall
    <3> QED BY <3>1
  <2>7. CASE Finish(g)
    <3>1. call'[g].pc = "record" /\ \A f \in Calls \ {g} : call'[f] = call[f]
      BY <2>7 DEF Finish
    <3> QED BY <3>1
  <2>8. ASSUME NEW k \in Keys, Lookup(g, k) PROVE call'[h] = call[h]
    <3>1. PICK b \in BOOLEAN :
            call' = [call EXCEPT ![g] = [NoCall EXCEPT
                       !.pc = IF b THEN "lookup" ELSE "acquire", !.key = k, !.serve = b]]
      BY <2>8 DEF Lookup
    <3>2. call'[g].pc = (IF b THEN "lookup" ELSE "acquire")
      BY <3>1 DEF NoCall
    <3>3. \A f \in Calls \ {g} : call'[f] = call[f]
      BY <3>1
    <3> QED BY <3>2, <3>3
  <2> QED BY <1>2, <2>1, <2>2, <2>3, <2>4, <2>5, <2>6, <2>7, <2>8 DEF HandlerStep, ClientStep
<1>3. ASSUME NEW v \in Verifiers, VerifierStep(v) PROVE call'[h] = call[h]
  BY <1>3 DEF VerifierStep, FetchServable, Verdict, VerifyEvict, VerifyAppend
<1>4. ASSUME Starting \/ UNCHANGED daemonVars PROVE call'[h] = call[h]
  BY <1>4 DEF Starting, daemonVars
<1>5. ASSUME DaemonCrash PROVE call'[h] = call[h]
  <2>1. call'[h] = Severed(call[h])
    BY <1>5 DEF DaemonCrash
  <2>2. Severed(call[h]).pc \in {"idle", "sorry"} \/ Severed(call[h]) = call[h]
    <3>1. NoCall.pc = "idle" /\ [NoCall EXCEPT !.pc = "sorry", !.key = call[h].key,
                                               !.serve = call[h].serve].pc = "sorry"
      BY DEF NoCall
    <3> QED BY <3>1 DEF Severed
  <2> QED BY <1>1, <2>1, <2>2
<1> QED BY <1>2, <1>3, <1>4, <1>5 DEF DaemonNext

(* Whatever a lookup finds, in either index, is legitimate when found.     *)
LEMMA FoundIsLegitimate ==
  ASSUME DaemonTypeOK, IndexesAgree, ServeAsked, [DaemonNext]_daemonVars,
         NEW h \in Calls, ChosenToServe(h)
  PROVE  Legitimate(h)
<1>1. /\ OwnTypeOK /\ StoreTypeOK /\ call[h] \in CallState /\ CallOK(call[h])
      /\ call[h].pc # "serve" /\ call'[h].pc = "serve"
  BY DEF DaemonTypeOK, OwnTypeOK, ChosenToServe, At
<1>2. CASE FindExact(h) \/ Recheck(h)
  <2> DEFINE r == servable[call[h].key]
  <2>1. /\ call[h].pc \in {"lookup", "woken"} /\ call[h].key \in Keys
        /\ call[h].serve /\ call[h].key \notin RecordOnly
    BY <1>1, <1>2 DEF FindExact, Recheck, At, CallOK, ServeAsked
  <2>2. call'[h].rec = r /\ r # NoRecord
    BY <1>1, <1>2 DEF FindExact, Recheck, OwnTypeOK, CallState
  <2>3. r.servable /\ r.key = call[h].key
    BY <2>1, <2>2 DEF IndexesAgree, ServableIsCandidate
  <2> QED BY <2>1, <2>2, <2>3 DEF Legitimate
<1>3. CASE TryScope(h)
  <2>1. PICK c \in Promotable(call[h].key) :
          call' = [call EXCEPT ![h].pc = "serve", ![h].rec = c.rec]
    BY <1>1, <1>3 DEF TryScope, Goto, OwnTypeOK, CallState
  <2>2. /\ call[h].key \in Keys /\ call[h].serve /\ call[h].key \notin RecordOnly
    BY <1>1, <1>3 DEF TryScope, At, CallOK, ServeAsked
  <2>3. call'[h].rec = c.rec
    BY <1>1, <2>1 DEF OwnTypeOK, CallState
  <2>4. /\ c \in candidates[CandKey[call[h].key]] /\ CandKey[call[h].key] \in CandKeys
        /\ <<c.rec.key, c.rec.out, call[h].key>> \in Promotes
    BY <2>1, <2>2, StoreAssumption DEF Promotable, Recent
  <2>5. c.rec.servable /\ servable[c.rec.key] # NoRecord
    BY <2>4 DEF IndexesAgree, CandidatesAreServable
  <2> QED BY <2>2, <2>3, <2>4, <2>5 DEF Legitimate
<1>4. FindExact(h) \/ Recheck(h) \/ TryScope(h)
  BY <1>1, OnlyLookupsServe DEF At
<1> QED BY <1>2, <1>3, <1>4

(* A HIT is a gated record of the key asked for, or of one its tree        *)
(* difference promotes, whose own key is servable when it is chosen: an    *)
(* evicted record does not come back through scoping.                      *)
THEOREM DaemonHitsAreLegitimate == DaemonSpec => HitIsLegitimate
<1>1. StoreInv => IndexesAgree
  BY DEF StoreInv
<1>2. DaemonTypeOK /\ IndexesAgree /\ ServeAsked /\ [DaemonNext]_daemonVars
        => [\A h \in Calls : ChosenToServe(h) => Legitimate(h)]_daemonVars
  BY FoundIsLegitimate
<1> QED BY <1>1, <1>2, DaemonTypeCorrect, DaemonServesWhoAsked, DaemonKeepsStoreInv, PTL
        DEF DaemonSpec, HitIsLegitimate

-----------------------------------------------------------------------------
(* Waking up.                                                              *)

(* A done channel belongs to one key: the lease, the calls that wait on it *)
(* and the call that is to close it are all of that key.                   *)
SameFlight ==
  /\ \A h \in Calls, k \in Keys :
       call[h].chan # NoChan /\ leases[k] = call[h].chan => call[h].key = k
  /\ \A g, h \in Calls :
       call[g].chan # NoChan /\ call[h].chan = call[g].chan => call[h].key = call[g].key

(* It stays so while leases only go and a call only takes the channel it   *)
(* finds under its key.                                                    *)
LEMMA FlightKept ==
  ASSUME OwnTypeOK, ClosedOnce, SameFlight,
         \A k \in Keys : leases'[k] \in {leases[k], NoChan},
         \A g \in Calls :
           \/ call'[g].chan = NoChan
           \/ /\ call'[g].key = call[g].key
              /\ \/ call'[g].chan = call[g].chan
                 \/ call[g].key \in Keys /\ call'[g].chan = leases[call[g].key]
  PROVE  SameFlight'
<1>1. \A j, k \in Keys : leases[j] # NoChan /\ leases[k] = leases[j] => j = k
  BY DEF ClosedOnce
<1>2. ASSUME NEW g \in Calls, NEW k \in Keys, call'[g].chan # NoChan, leases'[k] = call'[g].chan
      PROVE  call'[g].key = k
  BY <1>1, <1>2 DEF SameFlight
<1>3. ASSUME NEW g \in Calls, NEW h \in Calls, call'[g].chan # NoChan,
             call'[h].chan = call'[g].chan
      PROVE  call'[h].key = call'[g].key
  BY <1>1, <1>3 DEF SameFlight
<1> QED BY <1>2, <1>3 DEF SameFlight

LEMMA FlightStep ==
  ASSUME DaemonTypeOK, ClosedOnce, SameFlight, [DaemonNext]_daemonVars
  PROVE  SameFlight'
<1>1. OwnTypeOK
  BY DEF DaemonTypeOK, OwnTypeOK
<1>2. ASSUME UNCHANGED <<leases, call>> PROVE SameFlight'
  BY <1>2 DEF SameFlight
<1>3. ASSUME NEW h \in Calls, HandlerStep(h) \/ ClientStep(h) \/ Expire(h) \/ RecordFails(h)
      PROVE  SameFlight'
  <2> USE <1>1 DEF OwnTypeOK, CallState
  <2>1. CASE FindExact(h) \/ TryScope(h) \/ Recheck(h)
    BY <2>1, FlightKept DEF FindExact, TryScope, Recheck, Goto, flightVars
  <2>2. CASE Peek(h)
    <3>1. call[h].key \in Keys
      BY <2>2 DEF Peek, At, CallOK
    <3> QED BY <2>2, <3>1, FlightKept DEF Peek, Goto, flightVars
  <2>3. CASE Serve(h) \/ Die(h) \/ LoseRelease(h) \/ RecordFails(h)
    BY <2>3, FlightKept DEF Serve, Die, LoseRelease, RecordFails, Return, NoCall, flightVars
  <2>4. CASE Expire(h) \/ LosePost(h) \/ PostRelease(h) \/ RecordAppend(h) \/ Mark(h)
    BY <2>4, FlightKept DEF Expire, LosePost, PostRelease, RecordAppend, Mark, Goto, flightVars
  <2>5. CASE DropExpired(h)
    <3>1. \A k \in Keys : leases'[k] \in {leases[k], NoChan}
      BY <2>5 DEF DropExpired
    <3>2. call'[h].chan = NoChan /\ \A g \in Calls \ {h} : call'[g] = call[g]
      BY <2>5 DEF DropExpired
    <3> QED BY <3>1, <3>2, FlightKept
  <2>6. CASE Release(h)
    <3>1. call[h].key \in Keys
      BY <2>6 DEF Release, At, CallOK
    <3>2. \A k \in Keys : leases'[k] \in {leases[k], NoChan}
      BY <2>6 DEF Release
    <3>3. /\ \A g \in Calls \ {h} : call'[g] = call[g]
          /\ \/ call'[h].chan = NoChan
             \/ call'[h].key = call[h].key /\ call'[h].chan = leases[call[h].key]
      BY <2>6 DEF Release, Return, NoCall
    <3> QED BY <3>1, <3>2, <3>3, FlightKept
  <2>7. CASE Close(h)
    <3>1. \A g \in Calls : call'[g].chan = NoChan \/ call'[g] = call[g]
      BY <2>7 DEF Close, NoCall
    <3> QED BY <2>7, <3>1, FlightKept DEF Close, flightVars
  <2>8. CASE Finish(h)
    <3>1. /\ call'[h].key = call[h].key /\ call'[h].chan = call[h].chan
          /\ \A g \in Calls \ {h} : call'[g] = call[g]
      BY <2>8 DEF Finish
    <3> QED BY <2>8, <3>1, FlightKept DEF Finish, flightVars
  <2>9. ASSUME NEW k \in Keys, Lookup(h, k) PROVE SameFlight'
    <3>1. PICK b \in BOOLEAN :
            call' = [call EXCEPT ![h] = [NoCall EXCEPT
                       !.pc = IF b THEN "lookup" ELSE "acquire", !.key = k, !.serve = b]]
      BY <2>9 DEF Lookup
    <3>2. call'[h].chan = NoChan /\ \A g \in Calls \ {h} : call'[g] = call[g]
      BY <3>1 DEF NoCall
    <3> QED BY <2>9, <3>2, FlightKept DEF Lookup, flightVars
  <2>10. CASE Acquire(h)
    <3>1. /\ call[h].key \in Keys
          /\ \A g \in Calls : call'[g].key = call[g].key /\ call'[g].chan = call[g].chan
      BY <2>10 DEF Acquire, Goto, At, CallOK
    <3>2. CASE leases' = leases
      BY <3>1, <3>2, FlightKept
    <3>3. ASSUME NEW c \in Chans \ LiveChans, leases' = [leases EXCEPT ![call[h].key] = c]
          PROVE  SameFlight'
      <4>1. \A g \in Calls : call[g].chan # c
        BY <3>3 DEF LiveChans
      <4> QED BY <3>1, <3>3, <4>1 DEF SameFlight
    <3> QED BY <2>10, <3>2, <3>3 DEF Acquire
  <2> QED BY <1>3, <2>1, <2>2, <2>3, <2>4, <2>5, <2>6, <2>7, <2>8, <2>9, <2>10
          DEF HandlerStep, ClientStep
<1>4. ASSUME NEW v \in Verifiers, VerifierStep(v) PROVE SameFlight'
  BY <1>2, <1>4
     DEF VerifierStep, FetchServable, Verdict, VerifyEvict, VerifyAppend, flightVars
<1>5. ASSUME Starting \/ UNCHANGED daemonVars PROVE SameFlight'
  BY <1>2, <1>5 DEF Starting, daemonVars, flightVars
<1>6. ASSUME DaemonCrash PROVE SameFlight'
  <2>1. ASSUME NEW h \in Calls, call'[h].chan # NoChan
        PROVE  call[h].chan # NoChan /\ call[h].pc \notin LookupPCs \cup RecordPCs
    BY <1>6, <2>1 DEF DaemonCrash, Severed, NoCall
  <2>2. \A h \in Calls : call'[h].chan = NoChan
    BY <1>1, <2>1 DEF OwnTypeOK, CallOK, LookupPCs, RecordPCs
  <2> QED BY <2>2 DEF SameFlight
<1> QED BY <1>3, <1>4, <1>5, <1>6 DEF DaemonNext

(* However leases race and channels are reused, a close wakes only calls   *)
(* that asked for the closer's key.                                        *)
THEOREM DaemonKeepsFlights == DaemonSpec => []SameFlight
<1>1. DaemonInit => SameFlight
  BY DEF DaemonInit, NoCall, SameFlight
<1>2. DaemonTypeOK /\ ClosedOnce /\ SameFlight /\ [DaemonNext]_daemonVars => SameFlight'
  BY FlightStep
<1> QED BY <1>1, <1>2, DaemonTypeCorrect, DaemonClosesOnce, PTL DEF DaemonSpec

Findable(k) == servable[k] # NoRecord \/ k \in evicted
FindableNext(k) == servable'[k] # NoRecord \/ k \in evicted'

(* Only the end of the process makes a findable key unfindable.            *)
LEMMA FindableStep ==
  ASSUME StoreTypeOK, [StoreWork]_storeVars, NEW k \in Keys, Findable(k)
  PROVE  FindableNext(k)
<1>1. ASSUME NEW r \in Lines, AppendRecord(r) PROVE FindableNext(k)
  <2>1. Ingest(r) /\ evicted' = IF Indexed(r) THEN evicted \ {r.key} ELSE evicted
    BY <1>1 DEF AppendRecord
  <2>2. servable'[k] = IF r.servable /\ k = r.key THEN r ELSE servable[k]
    BY <2>1, IngestEffect
  <2> QED BY <2>1, <2>2, LineIsRecord DEF Findable, FindableNext, Indexed
<1>2. ASSUME NEW r \in Lines, AppendShort(r) PROVE FindableNext(k)
  BY <1>2 DEF AppendShort, indexVars, Findable, FindableNext
<1>3. ASSUME NEW j \in Keys, Evict(j) PROVE FindableNext(k)
  BY <1>3, DropServableEffect DEF Evict, Findable, FindableNext
<1>4. CASE ReplayLine
  <2>1. log[pos + 1] \in Lines
    BY <1>4, ElementOfSeq, LenProperties DEF ReplayLine, StoreTypeOK
  <2>2. Ingest(log[pos + 1]) /\ evicted' = evicted
    BY <1>4 DEF ReplayLine
  <2> QED BY <2>1, <2>2, IngestEffect, LineIsRecord DEF Findable, FindableNext
<1>5. CASE ReplayDone
  BY <1>5 DEF ReplayDone, indexVars, Findable, FindableNext
<1>6. CASE UNCHANGED storeVars
  BY <1>6 DEF storeVars, Findable, FindableNext
<1> QED BY <1>1, <1>2, <1>3, <1>4, <1>5, <1>6 DEF StoreWork

(* A step other than the end of the process, in which one call moves to a  *)
(* place where it does not wake, or keeps the key and the record it had.   *)
LEMMA WakeStep ==
  ASSUME DaemonTypeOK, ResultBeforeWake, [DaemonNext]_daemonVars, ~DaemonCrash,
         \A g \in Calls : Waking(call'[g]) =>
           /\ Waking(call[g]) \/ FindableNext(call[g].key)
           /\ call'[g].key = call[g].key
  PROVE  ResultBeforeWake'
<1>1. StoreTypeOK /\ [StoreWork]_storeVars
  BY DaemonStoreWork DEF DaemonTypeOK
<1>2. ASSUME NEW g \in Calls, Waking(call'[g]) PROVE FindableNext(call'[g].key)
  <2>1. CASE Waking(call[g])
    <3>1. call[g].key \in Keys
      BY <2>1 DEF Waking, DaemonTypeOK, CallOK
    <3>2. Findable(call[g].key)
      BY <2>1 DEF ResultBeforeWake, Waking, Findable, FindableNext
    <3> QED BY <1>1, <1>2, <3>1, <3>2, FindableStep
  <2> QED BY <1>2, <2>1
<1> QED BY <1>2 DEF ResultBeforeWake, Waking, Findable, FindableNext

LEMMA ResultStep ==
  ASSUME DaemonTypeOK, SameFlight, ResultBeforeWake, [DaemonNext]_daemonVars
  PROVE  ResultBeforeWake'
<1> DEFINE Keeps == \A g \in Calls : Waking(call'[g]) =>
                      Waking(call[g]) /\ call'[g].key = call[g].key
<1>1. OwnTypeOK /\ StoreTypeOK
  BY DEF DaemonTypeOK, OwnTypeOK
<1>2. CASE DaemonCrash
  <2>1. ASSUME NEW h \in Calls PROVE ~Waking(call'[h])
    <3>1. call'[h] = Severed(call[h])
      BY <1>2 DEF DaemonCrash
    <3>2. CASE call[h].pc \in LookupPCs
      <4>1. call'[h] = NoCall
        BY <3>1, <3>2 DEF Severed
      <4> QED BY <4>1 DEF NoCall, Waking
    <3>3. CASE call[h].pc \in RecordPCs
      <4>1. call[h].pc \notin LookupPCs
        BY <3>3 DEF LookupPCs, RecordPCs
      <4>2. call'[h].pc = "sorry"
        BY <3>1, <3>3, <4>1 DEF Severed, NoCall
      <4> QED BY <4>2 DEF Waking
    <3>4. CASE call[h].pc \notin LookupPCs \cup RecordPCs
      BY <3>1, <3>4 DEF Severed, LookupPCs, RecordPCs, Waking
    <3> QED BY <3>2, <3>3, <3>4
  <2> QED BY <2>1 DEF ResultBeforeWake, Waking
<1>3. ASSUME ~DaemonCrash, Keeps PROVE ResultBeforeWake'
  BY <1>3, WakeStep
<1>4. ASSUME NEW h \in Calls, HandlerStep(h) \/ ClientStep(h) \/ Expire(h) \/ RecordFails(h),
             ~DaemonCrash
      PROVE  ResultBeforeWake'
  <2> USE <1>1 DEF OwnTypeOK, CallState
  <2>1. CASE FindExact(h) \/ TryScope(h) \/ Recheck(h) \/ Peek(h)
    <3>1. call'[h].pc \in {"scope", "peek", "acquire", "wait", "serve"}
          /\ \A g \in Calls \ {h} : call'[g] = call[g]
      BY <2>1 DEF FindExact, TryScope, Recheck, Peek, Goto
    <3> QED BY <1>3, <1>4, <3>1 DEF Waking
  <2>2. CASE Expire(h) \/ DropExpired(h) \/ Acquire(h) \/ LosePost(h)
    <3>1. call'[h].pc \in {"expired", "acquire", "run", "sorry"}
          /\ \A g \in Calls \ {h} : call'[g] = call[g]
      BY <2>2 DEF Expire, DropExpired, Acquire, LosePost, Goto
    <3> QED BY <1>3, <1>4, <3>1 DEF Waking
  <2>3. CASE Serve(h) \/ Die(h) \/ LoseRelease(h) \/ RecordFails(h)
    <3>1. call'[h].pc = "idle" /\ \A g \in Calls \ {h} : call'[g] = call[g]
      BY <2>3 DEF Serve, Die, LoseRelease, RecordFails, Return, NoCall
    <3> QED BY <1>3, <1>4, <3>1 DEF Waking
  <2>4. CASE PostRelease(h)
    <3>1. call[h].rec = NoRecord
      BY <2>4 DEF PostRelease, At, CallOK, RecordPCs
    <3>2. call'[h].rec = NoRecord /\ \A g \in Calls \ {h} : call'[g] = call[g]
      BY <2>4, <3>1 DEF PostRelease, Goto
    <3> QED BY <1>3, <1>4, <3>2 DEF Waking
  <2>5. CASE Finish(h)
    <3>1. call'[h].pc = "record" /\ \A g \in Calls \ {h} : call'[g] = call[g]
      BY <2>5 DEF Finish
    <3> QED BY <1>3, <1>4, <3>1 DEF Waking
  <2>6. ASSUME NEW k \in Keys, Lookup(h, k) PROVE ResultBeforeWake'
    <3>1. PICK b \in BOOLEAN :
            call' = [call EXCEPT ![h] = [NoCall EXCEPT
                       !.pc = IF b THEN "lookup" ELSE "acquire", !.key = k, !.serve = b]]
      BY <2>6 DEF Lookup
    <3>2. /\ call'[h].pc = IF b THEN "lookup" ELSE "acquire"
          /\ \A g \in Calls \ {h} : call'[g] = call[g]
      BY <3>1 DEF NoCall
    <3> QED BY <1>3, <1>4, <3>2 DEF Waking
  <2>7. CASE Mark(h) \/ Release(h)
    <3>1. /\ call[h].pc \in {"mark", "release"}
          /\ \/ call'[h].pc = "idle"
             \/ call'[h].rec = call[h].rec /\ call'[h].key = call[h].key
          /\ \A g \in Calls \ {h} : call'[g] = call[g]
      BY <2>7 DEF Mark, Release, Return, NoCall, Goto, At
    <3> QED BY <1>3, <1>4, <3>1 DEF Waking
  <2>8. CASE Close(h)
    <3>1. \A g \in Calls :
            \/ call'[g].pc = "idle" \/ call'[g] = call[g]
            \/ /\ call[g].pc = "wait" /\ call[g].chan = call[h].chan
               /\ call'[g].rec = call[h].rec /\ call'[g].key = call[g].key
      BY <2>8 DEF Close, NoCall, At
    <3>2. call[h].chan # NoChan /\ call[h].key \in Keys /\ call[h].pc = "close"
      BY <2>8 DEF Close, At, CallOK
    <3>3. [StoreWork]_storeVars
      BY <1>4, DaemonStoreWork
    <3>4. Waking(call[h]) => FindableNext(call[h].key)
      BY <1>1, <3>2, <3>3, FindableStep DEF ResultBeforeWake, Findable
    <3>5. ASSUME NEW g \in Calls, Waking(call'[g])
          PROVE  /\ Waking(call[g]) \/ FindableNext(call[g].key)
                 /\ call'[g].key = call[g].key
      <4>1. CASE call'[g] = call[g]
        BY <3>5, <4>1
      <4>2. CASE call'[g] # call[g]
        <5>1. /\ call[g].chan = call[h].chan /\ call'[g].rec = call[h].rec
              /\ call'[g].key = call[g].key
          BY <3>1, <3>5, <4>2 DEF Waking
        <5>2. Waking(call[h])
          BY <3>2, <3>5, <5>1 DEF Waking
        <5>3. call[g].key = call[h].key
          BY <3>2, <5>1 DEF SameFlight
        <5> QED BY <3>4, <5>1, <5>2, <5>3
      <4> QED BY <4>1, <4>2
    <3> QED BY <1>4, <3>5, WakeStep
  <2>9. CASE RecordAppend(h)
    <3> DEFINE r == call[h].rec
    <3>1. At(h, "record") /\ AppendRecord(r)
          /\ call'[h].rec = r /\ call'[h].key = call[h].key
          /\ \A g \in Calls \ {h} : call'[g] = call[g]
      BY <2>9 DEF RecordAppend, Goto
    <3>2. r \in Lines /\ r.key = call[h].key /\ call[h].key \in Keys
      BY <3>1, PostedLineIsLine DEF At, CallOK
    <3>3. r.servable => FindableNext(call[h].key)
      BY <3>1, <3>2, IngestEffect, LineIsRecord DEF AppendRecord, FindableNext
    <3> QED BY <1>4, <3>1, <3>3, WakeStep DEF Waking
  <2> QED BY <1>4, <2>1, <2>2, <2>3, <2>4, <2>5, <2>6, <2>7, <2>8, <2>9
          DEF HandlerStep, ClientStep
<1>5. ASSUME UNCHANGED call, ~DaemonCrash PROVE ResultBeforeWake'
  BY <1>3, <1>5
<1>6. ASSUME NEW v \in Verifiers, VerifierStep(v), ~DaemonCrash PROVE ResultBeforeWake'
  BY <1>5, <1>6 DEF VerifierStep, FetchServable, Verdict, VerifyEvict, VerifyAppend
<1>7. ASSUME Starting \/ UNCHANGED daemonVars, ~DaemonCrash PROVE ResultBeforeWake'
  BY <1>5, <1>7 DEF Starting, daemonVars
<1> QED BY <1>2, <1>4, <1>6, <1>7 DEF DaemonNext

(* A peer is woken only after the result it waits for can be found: from   *)
(* the moment a servable record is appended until the last lookup woken by *)
(* its poster has looked, the key that lookup asked for is servable, unless *)
(* shadow verification evicted it.                                         *)
THEOREM DaemonRecordsBeforeWaking == DaemonSpec => []ResultBeforeWake
<1>1. DaemonInit => ResultBeforeWake
  BY DEF DaemonInit, NoCall, Waking, ResultBeforeWake
<1>2. DaemonTypeOK /\ SameFlight /\ ResultBeforeWake /\ [DaemonNext]_daemonVars
        => ResultBeforeWake'
  BY ResultStep
<1> QED BY <1>1, <1>2, DaemonTypeCorrect, DaemonKeepsFlights, PTL DEF DaemonSpec

-----------------------------------------------------------------------------
(* The promise of the daemon.                                              *)

Asks == [h \in Calls |-> Told(call[h])]

(* Without failing writes the file always ends after a newline.            *)
Untorn == "full" \notin Faults => tail = "clean"

LEMMA UntornStep ==
  ASSUME Untorn, [DaemonNext]_daemonVars
  PROVE  Untorn'
<1> SUFFICES ASSUME "full" \notin Faults PROVE tail' = "clean"
  BY DEF Untorn
<1>0. tail = "clean"
  BY DEF Untorn
<1>1. ASSUME NEW r, AppendRecord(r) PROVE tail' = "clean"
  BY <1>1 DEF AppendRecord, WriteLine
<1>2. ASSUME NEW h \in Calls, HandlerStep(h) \/ ClientStep(h) \/ Expire(h) \/ RecordFails(h)
      PROVE  tail' = "clean"
  <2>1. CASE FindExact(h) \/ TryScope(h) \/ Peek(h) \/ DropExpired(h) \/ Recheck(h)
             \/ Acquire(h) \/ Mark(h) \/ Release(h) \/ Close(h)
    BY <1>0, <2>1 DEF FindExact, TryScope, Peek, DropExpired, Recheck, Acquire, Mark,
                      Release, Close, storeVars
  <2>2. CASE ClientStep(h) \/ Expire(h)
    BY <1>0, <2>2 DEF ClientStep, Lookup, Finish, Die, LosePost, PostRelease, LoseRelease,
                      Expire, storeVars
  <2>3. CASE Serve(h) \/ RecordAppend(h) \/ RecordFails(h)
    BY <1>1, <2>3 DEF Serve, RecordAppend, RecordFails
  <2> QED BY <1>2, <2>1, <2>2, <2>3 DEF HandlerStep
<1>3. ASSUME NEW v \in Verifiers, VerifierStep(v) PROVE tail' = "clean"
  BY <1>0, <1>1, <1>3 DEF VerifierStep, FetchServable, Verdict, VerifyEvict, VerifyAppend,
                          Evict, fileVars, storeVars
<1>4. CASE Starting \/ DaemonCrash \/ UNCHANGED daemonVars
  BY <1>0, <1>4 DEF Starting, ReplayLine, ReplayDone, DaemonCrash, Crash, fileVars,
                    daemonVars, storeVars
<1> QED BY <1>2, <1>3, <1>4 DEF DaemonNext

(* What a line does to the records a restart finds.                        *)
LEMMA WriteKeeps ==
  ASSUME StoreTypeOK, NEW r \in Lines, WriteLine(r) \/ WritePart(r)
  PROVE  /\ Kept' \subseteq Kept \cup {x \in {r} : x.servable}
         /\ WriteLine(r) /\ tail = "clean" => Kept' = Kept \cup {x \in {r} : x.servable}
<1>1. log \in Seq(LogLine) /\ (tail = "whole" => log # <<>>)
  BY DEF StoreTypeOK, LogLine
<1>2. CASE log' = log /\ (WriteLine(r) /\ tail = "clean" => ~r.servable)
  BY <1>2 DEF Kept
<1>3. CASE tail = "whole" /\ log' = ButLastLine
  <2>1. /\ Len(log') = Len(log) - 1 /\ Len(log) \in Nat \ {0}
        /\ \A i \in 1 .. Len(log) - 1 : log'[i] = log[i]
    BY <1>1, <1>3, ButLastLineType
  <2> QED BY <1>3, <2>1 DEF Kept
<1>4. CASE r.servable /\ log' = Append(log, r)
  <2>1. r \in LogLine
    BY <1>4 DEF LogLine
  <2>2. /\ Len(log') = Len(log) + 1 /\ Len(log) \in Nat
        /\ \A i \in 1 .. Len(log) : log'[i] = log[i]
        /\ log'[Len(log) + 1] = r
    BY <1>1, <1>4, <2>1, AppendLineType
  <2>3. \A i : i \in 1 .. Len(log') <=> i \in 1 .. Len(log) \/ i = Len(log) + 1
    BY <2>2
  <2>4. Kept' = Kept \cup {r}
    <3>1. ASSUME NEW x \in Kept' PROVE x \in Kept \cup {r}
      BY <2>2, <2>3, <3>1 DEF Kept
    <3>2. ASSUME NEW x \in Kept PROVE x \in Kept'
      BY <2>2, <2>3, <3>2 DEF Kept
    <3>3. r \in Kept'
      BY <2>2, <2>3 DEF Kept
    <3> QED BY <3>1, <3>2, <3>3
  <2> QED BY <1>4, <2>4
<1> QED BY <1>2, <1>3, <1>4 DEF WriteLine, WritePart

LEMMA SameStore ==
  ASSUME UNCHANGED storeVars
  PROVE  phase' = phase /\ servable' = servable /\ Kept' = Kept
BY DEF storeVars, Kept

LEMMA StageOf ==
  /\ Stage("idle") = "idle" /\ Stage("lookup") = "asked" /\ Stage("serve") = "hit"
  /\ \A pc \in {"scope", "peek", "wait", "expired", "woken", "acquire"} : Stage(pc) = "none"
  /\ Stage("run") = "run" /\ Stage("sorry") = "run" /\ Stage("record") = "post"
  /\ \A pc \in {"mark", "release", "close"} : Stage(pc) = "done"
BY DEF Stage, LookupPCs

(* One call moves on: what its caller is told moves with it.               *)
LEMMA ToldMoves ==
  ASSUME OwnTypeOK, NEW h \in Calls, \A g \in Calls \ {h} : call'[g] = call[g],
         call'[h].key = call[h].key, call'[h].serve = call[h].serve
  PROVE  Svc!Moves(h, Stage(call'[h].pc),
                   IF call'[h].pc \in {"serve", "record"} THEN call'[h].rec ELSE NoRecord)
BY DEF Svc!Moves, Told

LEMMA ToldNothing == Told(NoCall) = Svc!NoAsk
BY StageOf DEF Told, NoCall, Svc!NoAsk

LEMMA ToldLeaves ==
  ASSUME OwnTypeOK, NEW h \in Calls, Return(h)
  PROVE  Svc!Leaves(h)
BY ToldNothing DEF Return, Svc!Leaves, OwnTypeOK

(* One call moves on within a stage: its caller notices nothing.           *)
LEMMA ToldSame ==
  ASSUME OwnTypeOK, NEW h \in Calls, \A g \in Calls \ {h} : call'[g] = call[g],
         call'[h].key = call[h].key, call'[h].serve = call[h].serve,
         Stage(call'[h].pc) = Stage(call[h].pc),
         {call[h].pc, call'[h].pc} \cap {"serve", "record"} = {}
  PROVE  Asks' = Asks
BY DEF Asks, Told

LEMMA SvcStepOfCall ==
  ASSUME NEW h \in Calls, Svc!CallerStep(h)
  PROVE  Svc!SvcNext
BY DEF Svc!SvcNext

(* A line that makes nothing servable changes at most what a restart finds. *)
LEMMA QuietLine ==
  ASSUME StoreTypeOK, Untorn, NEW r \in Lines,
         \/ AppendRecord(r) /\ ~r.servable
         \/ "full" \in Faults /\ (AppendShort(r) \/ UNCHANGED storeVars)
  PROVE  /\ phase' = phase /\ servable' = servable
         /\ Svc!Keeps({x \in {r} : x.servable})
<1>1. CASE AppendRecord(r) /\ ~r.servable
  BY <1>1, WriteKeeps DEF AppendRecord, Ingest, Indexed, indexVars, Svc!Keeps, Untorn
<1>2. CASE "full" \in Faults /\ AppendShort(r)
  BY <1>2, WriteKeeps DEF AppendShort, indexVars, Svc!Keeps
<1>3. CASE "full" \in Faults /\ UNCHANGED storeVars
  BY <1>3, SameStore DEF Svc!Keeps
<1> QED BY <1>1, <1>2, <1>3

(* The lookup handler takes effect where it finds a record, or where the   *)
(* exact index has none.                                                   *)
LEMMA LookupKeepsPromise ==
  ASSUME OwnTypeOK, StoreTypeOK, IndexesAgree, ServeAsked, Untorn, NEW h \in Calls,
         FindExact(h) \/ TryScope(h) \/ Recheck(h) \/ Peek(h) \/ Expire(h) \/ DropExpired(h)
         \/ Serve(h) \/ Acquire(h)
  PROVE  [Svc!SvcNext]_Svc!svcVars
<1>0. call[h] \in CallState /\ CallOK(call[h])
  BY DEF OwnTypeOK
<1> USE StageOf
<1>1. ASSUME FindExact(h) \/ Recheck(h),
             servable[call[h].key] # NoRecord
      PROVE  Svc!CallerStep(h)
  <2> DEFINE r == servable[call[h].key]
  <2>1. /\ call[h].pc \in {"lookup", "woken"} /\ call[h].key \in Keys /\ call[h].serve
        /\ UNCHANGED storeVars
    BY <1>0, <1>1 DEF FindExact, Recheck, At, CallOK, ServeAsked
  <2>2. r \in Record /\ r.servable /\ r.key = call[h].key
    BY <1>1, <2>1 DEF IndexesAgree, ServableIsCandidate, StoreTypeOK
  <2>3. /\ call'[h].pc = "serve" /\ call'[h].rec = r
        /\ call'[h].key = call[h].key /\ call'[h].serve = call[h].serve
        /\ \A g \in Calls \ {h} : call'[g] = call[g]
    BY <1>1 DEF FindExact, Recheck, OwnTypeOK, CallState
  <2>4. Svc!Moves(h, "hit", r)
    BY <2>3, ToldMoves
  <2>5. Svc!Find(h, r)
    BY <2>1, <2>2, <2>4, SameStore DEF Svc!Find, Told
  <2> QED BY <2>1, <2>2, <2>5 DEF Svc!CallerStep
<1>2. ASSUME FindExact(h), servable[call[h].key] = NoRecord PROVE Svc!CallerStep(h)
  <2>1. /\ call[h].pc = "lookup" /\ UNCHANGED storeVars
        /\ call'[h].pc = "scope" /\ call'[h].key = call[h].key /\ call'[h].serve = call[h].serve
        /\ \A g \in Calls \ {h} : call'[g] = call[g]
    BY <1>2 DEF FindExact, At, OwnTypeOK, CallState
  <2>2. Svc!Moves(h, "none", NoRecord)
    BY <2>1, ToldMoves
  <2> QED BY <1>2, <2>1, <2>2, SameStore DEF Svc!FindNothing, Svc!Is, Told, Svc!CallerStep
<1>3. ASSUME NEW c \in Promotable(call[h].key), At(h, "scope"), UNCHANGED storeVars,
             call' = [call EXCEPT ![h].pc = "serve", ![h].rec = c.rec]
      PROVE  Svc!CallerStep(h)
  <2>1. call[h].pc = "scope" /\ call[h].key \in Keys /\ call[h].serve
    BY <1>0, <1>3 DEF At, CallOK, ServeAsked
  <2>2. /\ c.rec \in Record /\ c.rec.servable /\ c.rec.key \in Keys
        /\ servable[c.rec.key] # NoRecord
        /\ <<c.rec.key, c.rec.out, call[h].key>> \in Promotes
    <3>1. CandKey[call[h].key] \in CandKeys /\ c \in candidates[CandKey[call[h].key]]
      BY <1>3, <2>1, StoreAssumption DEF Promotable, Recent
    <3> QED BY <2>1, <3>1, CandidateIsRecord DEF Promotable, IndexesAgree, CandidatesAreServable
  <2>3. /\ call'[h].pc = "serve" /\ call'[h].rec = c.rec
        /\ call'[h].key = call[h].key /\ call'[h].serve = call[h].serve
        /\ \A g \in Calls \ {h} : call'[g] = call[g]
    BY <1>3 DEF OwnTypeOK, CallState
  <2>4. Svc!Moves(h, "hit", c.rec)
    BY <2>3, ToldMoves
  <2>5. Svc!Find(h, c.rec)
    BY <1>3, <2>1, <2>2, <2>4, SameStore DEF Svc!Find, Told
  <2> QED BY <2>2, <2>5 DEF Svc!CallerStep
<1>4. ASSUME UNCHANGED storeVars, \A g \in Calls \ {h} : call'[g] = call[g],
             call'[h].key = call[h].key, call'[h].serve = call[h].serve,
             call[h].pc \in {"scope", "peek", "wait", "expired", "woken"},
             call'[h].pc \in {"peek", "wait", "expired", "acquire"}
      PROVE  UNCHANGED Svc!svcVars
  <2>1. Asks' = Asks
    BY <1>4, ToldSame
  <2> QED BY <1>4, <2>1, SameStore DEF Svc!svcVars, Asks
<1>5. CASE FindExact(h)
  BY <1>1, <1>2, <1>5, SvcStepOfCall
<1>6. CASE Recheck(h)
  <2>1. CASE servable[call[h].key] # NoRecord
    BY <1>1, <1>6, <2>1, SvcStepOfCall
  <2>2. CASE servable[call[h].key] = NoRecord
    BY <1>4, <1>6, <2>2 DEF Recheck, At, OwnTypeOK, CallState
  <2> QED BY <2>1, <2>2
<1>7. CASE TryScope(h)
  <2>1. CASE Goto(h, "peek")
    BY <1>4, <1>7, <2>1 DEF TryScope, Goto, At, OwnTypeOK, CallState
  <2> QED BY <1>3, <1>7, <2>1, SvcStepOfCall DEF TryScope
<1>8. CASE Peek(h)
  BY <1>4, <1>8 DEF Peek, Goto, At, OwnTypeOK, CallState
<1>9. CASE Expire(h)
  BY <1>4, <1>9 DEF Expire, Goto, At, OwnTypeOK, CallState
<1>10. CASE DropExpired(h)
  BY <1>4, <1>10 DEF DropExpired, At, OwnTypeOK, CallState
<1>11. CASE Serve(h)
  <2>1. HitLine(h) \in Lines
    BY <1>0, <1>11, HitLineIsLine, StoreTypeOK DEF Serve, DaemonTypeOK, OwnTypeOK
  <2>2. ~HitLine(h).servable
    BY DEF HitLine
  <2>3. phase' = phase /\ servable' = servable /\ Svc!Keeps({})
    <3>1. {x \in {HitLine(h)} : x.servable} = {}
      BY <2>2
    <3> QED BY <1>11, <2>1, <2>2, <3>1, QuietLine DEF Serve
  <2>4. Svc!Leaves(h)
    BY <1>11, ToldLeaves DEF Serve
  <2>5. Svc!Hit(h)
    BY <1>11, <2>3, <2>4 DEF Serve, At, Svc!Hit, Svc!Is, Told
  <2> QED BY <2>5, SvcStepOfCall DEF Svc!CallerStep
<1>12. CASE Acquire(h)
  <2>1. /\ call[h].pc = "acquire" /\ call'[h].pc = "run" /\ UNCHANGED storeVars
        /\ call'[h].key = call[h].key /\ call'[h].serve = call[h].serve
        /\ \A g \in Calls \ {h} : call'[g] = call[g]
    BY <1>12 DEF Acquire, Goto, At, OwnTypeOK, CallState
  <2>2. Svc!Moves(h, "run", NoRecord)
    BY <2>1, ToldMoves
  <2>3. Svc!Miss(h)
    BY <2>1, <2>2, SameStore DEF Svc!Miss, Svc!Is, Told
  <2> QED BY <2>3, SvcStepOfCall DEF Svc!CallerStep
<1> QED BY <1>5, <1>6, <1>7, <1>8, <1>9, <1>10, <1>11, <1>12

LEMMA FinishPosts ==
  ASSUME NEW h \in Calls, Finish(h)
  PROVE  \E o \in Outs, b \in BOOLEAN :
           call' = [call EXCEPT ![h].pc = "record",
                      ![h].rec = [key |-> call[h].key, out |-> o, servable |-> b,
                                  verified |-> "null"]]
BY DEF Finish

(* A record takes effect where it is ingested.                             *)
LEMMA RecordKeepsPromise ==
  ASSUME OwnTypeOK, StoreTypeOK, Untorn, NEW h \in Calls,
         ClientStep(h) \/ RecordAppend(h) \/ RecordFails(h) \/ Mark(h) \/ Release(h) \/ Close(h)
  PROVE  [Svc!SvcNext]_Svc!svcVars
<1>0. call[h] \in CallState /\ CallOK(call[h]) /\ DaemonTypeOK
  BY DEF OwnTypeOK, DaemonTypeOK
<1> USE StageOf
<1>1. ASSUME NEW k \in Keys, Lookup(h, k) PROVE Svc!CallerStep(h)
  <2>1. PICK b \in BOOLEAN :
          call' = [call EXCEPT ![h] = [NoCall EXCEPT
                     !.pc = IF b THEN "lookup" ELSE "acquire", !.key = k, !.serve = b]]
    BY <1>1 DEF Lookup
  <2> DEFINE a == [st |-> IF b THEN "asked" ELSE "none", key |-> k, wants |-> b,
                   rec |-> NoRecord]
             c == [NoCall EXCEPT !.pc = IF b THEN "lookup" ELSE "acquire", !.key = k,
                                 !.serve = b]
  <2>2. Told(c) = a
    <3>1. /\ c.pc = IF b THEN "lookup" ELSE "acquire"
          /\ c.key = k /\ c.serve = b
      BY DEF NoCall
    <3>2. Stage(c.pc) = (IF b THEN "asked" ELSE "none") /\ c.pc \notin {"serve", "record"}
      <4> HIDE DEF c
      <4>1. CASE b
        BY <3>1, <4>1
      <4>2. CASE ~b
        BY <3>1, <4>2
      <4> QED BY <4>1, <4>2
    <3> HIDE DEF c
    <3>3. Told(c) = [st |-> Stage(c.pc), key |-> c.key, wants |-> c.serve, rec |-> NoRecord]
      BY <3>2 DEF Told
    <3> QED BY <3>1, <3>2, <3>3
  <2>3. Asks' = [Asks EXCEPT ![h] = a]
    BY <2>1, <2>2 DEF Asks, OwnTypeOK
  <2>4. /\ phase = "open" /\ phase' = phase /\ servable' = servable /\ Kept' = Kept
        /\ call[h].pc = "idle"
    BY <1>1, SameStore DEF Lookup, At
  <2>5. Svc!Ask(h, k, b)
    BY <2>3, <2>4 DEF Svc!Ask, Svc!Is, Asks, Told
  <2> QED BY <2>5 DEF Svc!CallerStep
<1>2. CASE Finish(h)
  <2>1. PICK o \in Outs, b \in BOOLEAN :
          call' = [call EXCEPT ![h].pc = "record",
                     ![h].rec = [key |-> call[h].key, out |-> o, servable |-> b,
                                 verified |-> "null"]]
    BY <1>2, FinishPosts
  <2> DEFINE r == [key |-> call[h].key, out |-> o, servable |-> b, verified |-> "null"]
  <2>2. call[h].pc = "run" /\ call[h].key \in Keys /\ phase = "open" /\ UNCHANGED storeVars
    BY <1>0, <1>2 DEF Finish, At, CallOK
  <2>3. r \in Record /\ r.key = call[h].key
    BY <2>2 DEF Record
  <2>4. /\ call'[h].pc = "record" /\ call'[h].rec = r
        /\ call'[h].key = call[h].key /\ call'[h].serve = call[h].serve
        /\ \A g \in Calls \ {h} : call'[g] = call[g]
    BY <2>1 DEF OwnTypeOK, CallState
  <2> HIDE DEF r
  <2>5. Svc!Moves(h, "post", r)
    BY <2>4, ToldMoves
  <2>6. Svc!Post(h, r)
    BY <2>2, <2>3, <2>5, SameStore DEF Svc!Post, Svc!Is, Told
  <2>7. Svc!CallerStep(h)
    BY <2>2, <2>3, <2>6 DEF Svc!CallerStep
  <2> QED BY <2>7, SvcStepOfCall
<1>3. CASE Die(h)
  <2>1. Svc!Gone(h)
    BY <1>3, ToldLeaves, SameStore DEF Die, At, Svc!Gone, Svc!Is, Told
  <2> QED BY <2>1, SvcStepOfCall DEF Svc!CallerStep
<1>4. CASE LoseRelease(h)
  <2>1. Svc!Gone(h)
    BY <1>4, ToldLeaves, SameStore DEF LoseRelease, At, Svc!Gone, Svc!Is, Told
  <2> QED BY <2>1, SvcStepOfCall DEF Svc!CallerStep
<1>5. CASE LosePost(h)
  <2>1. Asks' = Asks
    BY <1>5, ToldSame DEF LosePost, Goto, At, OwnTypeOK, CallState
  <2> QED BY <1>5, <2>1, SameStore DEF LosePost, Svc!svcVars, Asks
<1>6. CASE PostRelease(h)
  <2>1. /\ call[h].pc = "sorry" /\ call'[h].pc = "release" /\ UNCHANGED storeVars
        /\ phase = "open" /\ call'[h].key = call[h].key /\ call'[h].serve = call[h].serve
        /\ \A g \in Calls \ {h} : call'[g] = call[g]
    BY <1>6 DEF PostRelease, Goto, At, OwnTypeOK, CallState
  <2>2. Svc!Moves(h, "done", NoRecord)
    BY <2>1, ToldMoves
  <2>3. Svc!GiveUp(h)
    BY <2>1, <2>2, SameStore DEF Svc!GiveUp, Svc!Is, Told
  <2> QED BY <2>3, SvcStepOfCall DEF Svc!CallerStep
<1>7. CASE RecordAppend(h)
  <2> DEFINE r == call[h].rec
  <2>1. /\ call[h].pc = "record" /\ call'[h].pc \in {"mark", "release"} /\ AppendRecord(r)
        /\ call'[h].key = call[h].key /\ call'[h].serve = call[h].serve
        /\ \A g \in Calls \ {h} : call'[g] = call[g]
    BY <1>7 DEF RecordAppend, AfterAppend, Goto, At, OwnTypeOK, CallState
  <2>2. r \in Lines /\ r.key = call[h].key /\ call[h].key \in Keys /\ r # NoRecord
    BY <1>0, <2>1 DEF CallOK, RecordPCs
  <2>3. Svc!Moves(h, "done", NoRecord)
    BY <2>1, ToldMoves
  <2>4. phase' = phase /\ Ingest(r)
    BY <2>1 DEF AppendRecord
  <2>5. servable' = IF r.servable THEN [servable EXCEPT ![call[h].key] = r] ELSE servable
    <3>1. servable \in [Keys -> Record \cup {NoRecord}]
          /\ servable' \in [Keys -> Record \cup {NoRecord}]
      BY <2>2, <2>4, IngestType DEF StoreTypeOK
    <3>2. \A j \in Keys : servable'[j] = IF r.servable /\ j = r.key THEN r ELSE servable[j]
      BY <2>2, <2>4, IngestEffect
    <3> QED BY <2>2, <3>1, <3>2
  <2>6. Svc!Keeps(Svc!Lasting(h))
    <3>1. Svc!Lasting(h) = {x \in {r} : x.servable}
      BY <2>1 DEF Svc!Lasting, Told
    <3>2. WriteLine(r)
      BY <2>1 DEF AppendRecord
    <3> QED BY <2>2, <3>1, <3>2, WriteKeeps DEF Svc!Keeps, Untorn
  <2>7. Svc!Put(h)
    BY <2>1, <2>3, <2>4, <2>5, <2>6 DEF Svc!Put, Svc!Is, Told
  <2> QED BY <2>7, SvcStepOfCall DEF Svc!CallerStep
<1>8. CASE RecordFails(h)
  <2>1. call[h].rec \in Lines
    BY <1>0, <1>8, PostedLineIsLine DEF RecordFails
  <2>2. phase' = phase /\ servable' = servable /\ Svc!Keeps(Svc!Lasting(h))
    <3>1. Svc!Lasting(h) = {x \in {call[h].rec} : x.servable}
      BY <1>8 DEF RecordFails, At, Svc!Lasting, Told
    <3> QED BY <1>8, <2>1, <3>1, QuietLine DEF RecordFails
  <2>3. Svc!PutFails(h)
    BY <1>8, <2>2, ToldLeaves DEF RecordFails, At, Svc!PutFails, Svc!Is, Told
  <2> QED BY <2>3, SvcStepOfCall DEF Svc!CallerStep
<1>9. ASSUME UNCHANGED storeVars, \A g \in Calls \ {h} : call'[g] = call[g],
             call'[h].key = call[h].key, call'[h].serve = call[h].serve,
             call[h].pc \in {"mark", "release"}, call'[h].pc \in {"release", "close"}
      PROVE  UNCHANGED Svc!svcVars
  <2>1. Asks' = Asks
    BY <1>9, ToldSame
  <2> QED BY <1>9, <2>1, SameStore DEF Svc!svcVars, Asks
<1>10. CASE Mark(h)
  BY <1>9, <1>10 DEF Mark, Goto, At, OwnTypeOK, CallState
<1>11. CASE Release(h)
  <2>1. CASE Return(h)
    <3>1. Svc!Posted(h)
      BY <1>11, <2>1, ToldLeaves, SameStore DEF Release, At, Svc!Posted, Svc!Is, Told
    <3> QED BY <3>1, SvcStepOfCall DEF Svc!CallerStep
  <2>2. CASE ~Return(h)
    BY <1>9, <1>11, <2>2 DEF Release, At, OwnTypeOK, CallState
  <2> QED BY <2>1, <2>2
<1>12. CASE Close(h)
  <2>1. /\ call[h].pc = "close" /\ UNCHANGED storeVars /\ call'[h] = NoCall
        /\ \A g \in Calls \ {h} :
             \/ call'[g] = call[g]
             \/ /\ call[g].pc = "wait" /\ call'[g].pc = "woken"
                /\ call'[g].key = call[g].key /\ call'[g].serve = call[g].serve
    BY <1>12 DEF Close, At, OwnTypeOK, CallState
  <2>2. \A g \in Calls \ {h} : Told(call'[g]) = Told(call[g])
    BY <2>1 DEF Told
  <2>3. Told(call'[h]) = Svc!NoAsk
    BY <2>1, ToldNothing
  <2>4. Svc!Leaves(h)
    BY <2>2, <2>3 DEF Svc!Leaves
  <2>5. Svc!Posted(h)
    BY <2>1, <2>4, SameStore DEF Svc!Posted, Svc!Is, Told
  <2> QED BY <2>5, SvcStepOfCall DEF Svc!CallerStep
<1> QED BY <1>1, <1>2, <1>3, <1>4, <1>5, <1>6, <1>7, <1>8, <1>10, <1>11, <1>12,
           SvcStepOfCall DEF ClientStep

(* The end of the process cuts every call where its caller can see it.     *)
LEMMA FallKeepsPromise ==
  ASSUME OwnTypeOK, DaemonCrash
  PROVE  Svc!Fall
<1>1. ASSUME NEW h \in Calls PROVE Told(Severed(call[h])) = Svc!Cut(Told(call[h]))
  <2> DEFINE c == call[h]
  <2>1. c \in CallState /\ CallOK(c)
    BY DEF OwnTypeOK
  <2>2. CASE c.pc \in LookupPCs
    <3>1. Told(c).st \in {"asked", "none", "hit"}
      BY <2>2, StageOf DEF Told, LookupPCs
    <3> QED BY <2>2, <3>1, ToldNothing DEF Severed, Svc!Cut
  <2>3. CASE c.pc \in RecordPCs
    <3> DEFINE s == [NoCall EXCEPT !.pc = "sorry", !.key = c.key, !.serve = c.serve]
    <3>1. Severed(c) = s
      BY <2>3 DEF Severed, LookupPCs, RecordPCs
    <3>2. s.pc = "sorry" /\ s.key = c.key /\ s.serve = c.serve
      BY DEF NoCall
    <3>3. Told(s) = [st |-> "run", key |-> c.key, wants |-> c.serve, rec |-> NoRecord]
      <4> HIDE DEF s
      <4> QED BY <3>2, StageOf DEF Told
    <3>4. Told(c).st \in {"post", "done"}
      BY <2>3, StageOf DEF Told, RecordPCs
    <3>5. Svc!Cut(Told(c)) = [st |-> "run", key |-> c.key, wants |-> c.serve, rec |-> NoRecord]
      BY <3>4 DEF Svc!Cut, Told
    <3> QED BY <3>1, <3>3, <3>5
  <2>4. CASE c.pc \notin LookupPCs \cup RecordPCs
    <3>1. c.pc \in {"idle", "run", "sorry"}
      BY <2>1, <2>4 DEF CallState, PCs
    <3>2. Told(c).st \in {"idle", "run"}
      BY <3>1, StageOf DEF Told
    <3> QED BY <2>4, <3>2 DEF Severed, Svc!Cut
  <2> QED BY <2>2, <2>3, <2>4
<1>2. call' = [h \in Calls |-> Severed(call[h])]
  BY DEF DaemonCrash
<1>3. Asks' = [h \in Calls |-> Svc!Cut(Asks[h])]
  BY <1>1, <1>2 DEF Asks
<1>4. Kept' = Kept
  BY DEF DaemonCrash, Crash, fileVars, Kept
<1> QED BY <1>3, <1>4 DEF Svc!Fall, Asks, DaemonCrash, Crash

LEMMA PromiseStep ==
  ASSUME DaemonTypeOK, StoreInv, ServeAsked, Untorn, [DaemonNext]_daemonVars
  PROVE  [Svc!SvcNext]_Svc!svcVars
<1>1. OwnTypeOK /\ StoreTypeOK /\ IndexesAgree
  BY DEF DaemonTypeOK, OwnTypeOK, StoreInv
<1>2. ASSUME UNCHANGED call, phase' = phase, servable' = servable, Kept' = Kept
      PROVE  UNCHANGED Svc!svcVars
  BY <1>2 DEF Svc!svcVars
<1>3. ASSUME NEW h \in Calls, HandlerStep(h) \/ ClientStep(h) \/ Expire(h) \/ RecordFails(h)
      PROVE  [Svc!SvcNext]_Svc!svcVars
  BY <1>1, <1>3, LookupKeepsPromise, RecordKeepsPromise DEF HandlerStep
<1>4. ASSUME NEW v \in Verifiers, VerifierStep(v) PROVE [Svc!SvcNext]_Svc!svcVars
  <2>1. CASE FetchServable(v) \/ Verdict(v)
    BY <1>2, <2>1, SameStore DEF FetchServable, Verdict
  <2>2. CASE VerifyEvict(v)
    <3> DEFINE k == ver[v].key
    <3>1. k \in Keys /\ Evict(k) /\ UNCHANGED call
      BY <1>1, <2>2 DEF VerifyEvict, OwnTypeOK
    <3>2. servable' = [servable EXCEPT ![k] = NoRecord]
      BY <1>1, <3>1 DEF Evict, DropServable, indexVars, StoreTypeOK
    <3>3. Kept' = Kept
      BY <3>1 DEF Evict, fileVars, Kept
    <3>4. Svc!Forget(k)
      BY <3>1, <3>2, <3>3 DEF Svc!Forget, Evict
    <3> QED BY <3>1, <3>4 DEF Svc!SvcNext
  <2>3. CASE VerifyAppend(v)
    <3>1. VerdictLine(v) \in Lines /\ ~VerdictLine(v).servable
      BY <2>3, VerdictLineIsLine DEF VerifyAppend, VerdictLine
    <3>2. {x \in {VerdictLine(v)} : x.servable} = {}
      BY <3>1
    <3>3. phase' = phase /\ servable' = servable /\ Svc!Keeps({}) /\ UNCHANGED call
      BY <1>1, <2>3, <3>1, <3>2, QuietLine DEF VerifyAppend
    <3>4. CASE "full" \in Faults
      <4>1. Svc!Lose
        BY <3>3, <3>4 DEF Svc!Lose
      <4> QED BY <4>1 DEF Svc!SvcNext
    <3>5. CASE "full" \notin Faults
      BY <1>2, <3>3, <3>5 DEF Svc!Keeps
    <3> QED BY <3>4, <3>5
  <2> QED BY <1>4, <2>1, <2>2, <2>3 DEF VerifierStep
<1>5. ASSUME Starting PROVE [Svc!SvcNext]_Svc!svcVars
  <2>0. Len(log) \in Nat /\ pos \in Nat
    BY <1>1, LenProperties DEF StoreTypeOK
  <2>1. CASE ReplayLine
    <3> DEFINE r == log[pos + 1]
    <3>1. pos + 1 \in 1 .. Len(log) /\ r \in Kept
      BY <2>0, <2>1 DEF ReplayLine, Kept
    <3>2. r \in Lines /\ r.servable
      BY <1>1, <3>1, ElementOfSeq DEF StoreTypeOK
    <3>3. /\ Ingest(r) /\ phase = "replay" /\ phase' = phase /\ UNCHANGED call
          /\ Kept' = Kept
      BY <1>5, <2>1 DEF Starting, ReplayLine, fileVars, Kept
    <3> HIDE DEF r
    <3>4. CASE r.key = NoKey
      <4>1. servable' = servable
        BY <3>3, <3>4 DEF Ingest, Indexed, indexVars
      <4> QED BY <1>2, <3>3, <4>1
    <3>5. CASE r.key # NoKey
      <4>1. r \in Record /\ r.key \in Keys
        BY <3>2, <3>5 DEF Lines, Record
      <4>2. servable' = [servable EXCEPT ![r.key] = r]
        BY <3>2, <3>3, <3>5 DEF Ingest, Indexed, Lines
      <4>3. Svc!Recall(r)
        BY <3>1, <3>3, <4>2 DEF Svc!Recall
      <4> QED BY <4>1, <4>3 DEF Svc!SvcNext
    <3> QED BY <3>4, <3>5
  <2>2. CASE ReplayDone
    <3>1. ASSUME NEW k \in Keys, servable[k] = NoRecord, NEW x \in Kept PROVE x.key # k
      <4>1. PICK i \in 1 .. Len(log) : x = log[i]
        BY <3>1 DEF Kept
      <4>2. \A m \in 1 .. pos : servable[k] = log[m] => log[m] # NoRecord
        <5>1. \A m \in 1 .. Len(log) : log[m] \in Lines
          BY <1>1, ElementOfSeq DEF StoreTypeOK
        <5> QED BY <2>2, <5>1, LineIsRecord DEF ReplayDone
      <4>3. \A m \in 1 .. pos : ~LineOf(m, k)
        BY <2>2, <3>1, <4>2 DEF ReplayDone, ReplayLastLineWins, StoreInv
      <4> QED BY <2>2, <4>1, <4>3 DEF ReplayDone, LineOf
    <3>2. /\ phase = "replay" /\ phase' = "open" /\ servable' = servable /\ Kept' = Kept
          /\ UNCHANGED call
      BY <1>5, <2>2 DEF Starting, ReplayDone, indexVars, fileVars, Kept
    <3>3. Svc!Rise
      BY <3>1, <3>2 DEF Svc!Rise
    <3> QED BY <3>3 DEF Svc!SvcNext
  <2> QED BY <1>5, <2>1, <2>2 DEF Starting
<1>6. ASSUME DaemonCrash PROVE [Svc!SvcNext]_Svc!svcVars
  BY <1>1, <1>6, FallKeepsPromise DEF Svc!SvcNext
<1>7. ASSUME UNCHANGED daemonVars PROVE [Svc!SvcNext]_Svc!svcVars
  BY <1>2, <1>7, SameStore DEF daemonVars
<1> QED BY <1>3, <1>4, <1>5, <1>6, <1>7 DEF DaemonNext

(* The daemon keeps its promise to its callers, whatever interleaves and   *)
(* whatever fails: a lookup, a record and a verdict are each one step      *)
(* between the call and the answer, and a restart brings back what was     *)
(* kept.                                                                   *)
THEOREM DaemonImplementsService == DaemonSpec => ServiceSpec
<1>1. DaemonInit => Svc!SvcInit /\ Untorn
  <2> SUFFICES ASSUME DaemonInit PROVE Svc!SvcInit /\ Untorn
    OBVIOUS
  <2>1. Kept = {}
    BY EmptySeq DEF DaemonInit, StoreInit, Kept
  <2> QED BY <2>1, ToldNothing DEF DaemonInit, StoreInit, Svc!SvcInit, Untorn
<1>2. Untorn /\ [DaemonNext]_daemonVars => Untorn'
  BY UntornStep
<1>3. DaemonTypeOK /\ StoreInv /\ ServeAsked /\ Untorn /\ [DaemonNext]_daemonVars
        => [Svc!SvcNext]_Svc!svcVars
  BY PromiseStep
<1> QED BY <1>1, <1>2, <1>3, DaemonTypeCorrect, DaemonKeepsStoreInv, DaemonServesWhoAsked,
        PTL DEF DaemonSpec, ServiceSpec, Svc!SvcSpec
-----------------------------------------------------------------------------
(* Transparency.  The outcome of a command is a function Result of its key *)
(* when the key names all the command reads; a promotion is sound when it  *)
(* only promotes an outcome to a key with the same outcome.                *)

SoundFor(Result) == \A p \in Promotes : p[2] = Result[p[1]] => p[2] = Result[p[3]]

(* A wrapper posts as servable only what executing its command gives.      *)
PostsOnly(Result) ==
  \A h \in Calls : Finish(h) /\ call'[h].rec.servable =>
    call'[h].rec.out = Result[call[h].key]

(* Records that say what executing their command gives.                    *)
TrueRecords(Result) == {r \in Record : r.key \in Keys => r.out = Result[r.key]}

PostIsTrue(Result) ==
  \A h \in Calls : At(h, "record") /\ call[h].rec.servable =>
    call[h].rec \in TrueRecords(Result)

(* What a caller is given is what executing its command would give.        *)
HitIsTrue(Result) == \A h \in Calls : At(h, "serve") => call[h].rec.out = Result[call[h].key]

(* Only a wrapper that finishes makes a record to be posted.               *)
LEMMA OnlyFinishPosts ==
  ASSUME DaemonTypeOK, [DaemonNext]_daemonVars, NEW h \in Calls,
         At(h, "record")', ~Finish(h)
  PROVE  call'[h] = call[h]
<1>1. OwnTypeOK /\ call'[h].pc = "record"
  BY DEF DaemonTypeOK, OwnTypeOK, At
<1>2. ASSUME NEW g \in Calls, HandlerStep(g) \/ ClientStep(g) \/ Expire(g) \/ RecordFails(g)
      PROVE  call'[h] = call[h]
  <2> USE <1>1 DEF OwnTypeOK, CallState
  <2>1. CASE FindExact(g) \/ TryScope(g) \/ Recheck(g) \/ Peek(g)
    <3>1. call'[g].pc \in {"scope", "peek", "acquire", "wait", "serve"}
          /\ \A f \in Calls \ {g} : call'[f] = call[f]
      BY <2>1 DEF FindExact, TryScope, Recheck, Peek, Goto
    <3> QED BY <3>1
  <2>2. CASE \/ Expire(g) \/ DropExpired(g) \/ Acquire(g) \/ LosePost(g) \/ PostRelease(g)
             \/ Mark(g)
    <3>1. call'[g].pc \in {"expired", "acquire", "run", "sorry", "release"}
          /\ \A f \in Calls \ {g} : call'[f] = call[f]
      BY <2>2 DEF Expire, DropExpired, Acquire, LosePost, PostRelease, Mark, Goto
    <3> QED BY <3>1
  <2>3. CASE Serve(g) \/ Die(g) \/ LoseRelease(g) \/ RecordFails(g)
    <3>1. call'[g].pc = "idle" /\ \A f \in Calls \ {g} : call'[f] = call[f]
      BY <2>3 DEF Serve, Die, LoseRelease, RecordFails, Return, NoCall
    <3> QED BY <3>1
  <2>4. CASE RecordAppend(g)
    <3>1. call'[g].pc \in {"mark", "release"} /\ \A f \in Calls \ {g} : call'[f] = call[f]
      BY <2>4 DEF RecordAppend, AfterAppend, Goto
    <3> QED BY <3>1
  <2>5. CASE Release(g)
    <3>1. call'[g].pc \in {"idle", "close"} /\ \A f \in Calls \ {g} : call'[f] = call[f]
      BY <2>5 DEF Release, Return, NoCall
    <3> QED BY <3>1
  <2>6. CASE Close(g)
    <3>1. \A f \in Calls : call'[f].pc \in {"idle", "woken"} \/ call'[f] = call[f]
      BY <2>6 DEF Close, NoCall
    <3> QED BY <3>1
  <2>7. CASE Finish(g)
    <3>1. g # h /\ \A f \in Calls \ {g} : call'[f] = call[f]
      BY <2>7 DEF Finish
    <3> QED BY <3>1
  <2>8. ASSUME NEW k \in Keys, Lookup(g, k) PROVE call'[h] = call[h]
    <3>1. PICK b \in BOOLEAN :
            call' = [call EXCEPT ![g] = [NoCall EXCEPT
                       !.pc = IF b THEN "lookup" ELSE "acquire", !.key = k, !.serve = b]]
      BY <2>8 DEF Lookup
    <3>2. call'[g].pc = (IF b THEN "lookup" ELSE "acquire")
      BY <3>1 DEF NoCall
    <3>3. \A f \in Calls \ {g} : call'[f] = call[f]
      BY <3>1
    <3> QED BY <3>2, <3>3
  <2> QED BY <1>2, <2>1, <2>2, <2>3, <2>4, <2>5, <2>6, <2>7, <2>8 DEF HandlerStep, ClientStep
<1>3. ASSUME NEW v \in Verifiers, VerifierStep(v) PROVE call'[h] = call[h]
  BY <1>3 DEF VerifierStep, FetchServable, Verdict, VerifyEvict, VerifyAppend
<1>4. ASSUME Starting \/ UNCHANGED daemonVars PROVE call'[h] = call[h]
  BY <1>4 DEF Starting, daemonVars
<1>5. ASSUME DaemonCrash PROVE call'[h] = call[h]
  <2>1. call'[h] = Severed(call[h])
    BY <1>5 DEF DaemonCrash
  <2>2. Severed(call[h]).pc \in {"idle", "sorry"} \/ Severed(call[h]) = call[h]
    <3>1. NoCall.pc = "idle" /\ [NoCall EXCEPT !.pc = "sorry", !.key = call[h].key,
                                               !.serve = call[h].serve].pc = "sorry"
      BY DEF NoCall
    <3> QED BY <3>1 DEF Severed
  <2> QED BY <1>1, <2>1, <2>2
<1> QED BY <1>2, <1>3, <1>4, <1>5 DEF DaemonNext

LEMMA PostTrueStep ==
  ASSUME NEW Result \in [Keys -> Outs], DaemonTypeOK, DaemonTypeOK', PostIsTrue(Result),
         [DaemonNext /\ PostsOnly(Result)]_daemonVars
  PROVE  PostIsTrue(Result)'
<1> SUFFICES ASSUME NEW h \in Calls, At(h, "record")', call'[h].rec.servable
             PROVE  call'[h].rec \in TrueRecords(Result)
  BY DEF PostIsTrue, TrueRecords
<1>1. CASE Finish(h) /\ PostsOnly(Result)
  <2>1. call'[h].rec \in Lines /\ call'[h].rec.key = call'[h].key
    BY DEF DaemonTypeOK, CallOK, At, RecordPCs
  <2>2. call'[h].key = call[h].key
    BY <1>1 DEF Finish, DaemonTypeOK, CallState
  <2>3. call'[h].rec.out = Result[call[h].key]
    BY <1>1 DEF PostsOnly
  <2> QED BY <2>1, <2>2, <2>3 DEF Lines, TrueRecords
<1>2. CASE ~Finish(h)
  <2>1. call'[h] = call[h]
    BY <1>2, OnlyFinishPosts
  <2> QED BY <2>1 DEF PostIsTrue, At
<1>3. CASE UNCHANGED daemonVars
  BY <1>3 DEF daemonVars, PostIsTrue, At
<1> QED BY <1>1, <1>2, <1>3

(* The lines the daemon writes are true when those it is posted are.       *)
LEMMA DaemonWorkFrom ==
  ASSUME NEW Result, DaemonTypeOK, PostIsTrue(Result), [DaemonNext]_daemonVars
  PROVE  [WorkFrom(TrueRecords(Result))]_storeVars
<1> DEFINE G == TrueRecords(Result)
<1> HIDE DEF G
<1>1. CASE UNCHANGED daemonVars
  BY <1>1 DEF daemonVars
<1>2. ASSUME NEW h \in Calls, HandlerStep(h) \/ ClientStep(h) \/ Expire(h) \/ RecordFails(h)
      PROVE  [WorkFrom(G)]_storeVars
  <2>1. CASE FindExact(h) \/ TryScope(h) \/ Peek(h) \/ DropExpired(h) \/ Recheck(h)
             \/ Acquire(h) \/ Mark(h) \/ Release(h) \/ Close(h)
    BY <2>1 DEF FindExact, TryScope, Peek, DropExpired, Recheck, Acquire, Mark,
                Release, Close
  <2>2. CASE ClientStep(h) \/ Expire(h)
    BY <2>2 DEF ClientStep, Lookup, Finish, Die, LosePost, PostRelease, LoseRelease,
                Expire
  <2>3. CASE Serve(h)
    <3>1. HitLine(h) \in Lines /\ ~HitLine(h).servable
      BY <2>3, HitLineIsLine DEF Serve, HitLine
    <3> QED BY <2>3, <3>1 DEF Serve, WorkFrom
  <2>4. CASE RecordAppend(h) \/ RecordFails(h)
    <3>1. At(h, "record") /\ call[h].rec \in Lines
      BY <2>4, PostedLineIsLine DEF RecordAppend, RecordFails
    <3>2. call[h].rec.servable => call[h].rec \in G
      BY <3>1 DEF PostIsTrue, G
    <3> QED BY <2>4, <3>1, <3>2 DEF RecordAppend, RecordFails, WorkFrom
  <2> QED BY <1>2, <2>1, <2>2, <2>3, <2>4 DEF HandlerStep
<1>3. ASSUME NEW v \in Verifiers, VerifierStep(v) PROVE [WorkFrom(G)]_storeVars
  <2>1. CASE FetchServable(v) \/ Verdict(v)
    BY <2>1 DEF FetchServable, Verdict
  <2>2. CASE VerifyEvict(v)
    <3>1. ver[v].key \in Keys
      BY <2>2 DEF VerifyEvict, DaemonTypeOK
    <3> QED BY <2>2, <3>1 DEF VerifyEvict, WorkFrom
  <2>3. CASE VerifyAppend(v)
    <3>1. VerdictLine(v) \in Lines /\ ~VerdictLine(v).servable
      BY <2>3, VerdictLineIsLine DEF VerifyAppend, VerdictLine
    <3> QED BY <2>3, <3>1 DEF VerifyAppend, WorkFrom
  <2> QED BY <1>3, <2>1, <2>2, <2>3 DEF VerifierStep
<1>4. CASE Starting \/ DaemonCrash
  BY <1>4 DEF Starting, DaemonCrash, WorkFrom
<1> QED BY <1>1, <1>2, <1>3, <1>4 DEF DaemonNext, G

LEMMA HitTrueStep ==
  ASSUME NEW Result, SoundFor(Result), DaemonTypeOK, IndexesAgree, ServeAsked,
         OnlyFrom(TrueRecords(Result)), HitIsTrue(Result), [DaemonNext]_daemonVars
  PROVE  HitIsTrue(Result)'
<1> SUFFICES ASSUME NEW h \in Calls, At(h, "serve")'
             PROVE  call'[h].rec.out = Result[call'[h].key]
  BY DEF HitIsTrue
<1>1. OwnTypeOK /\ call[h] \in CallState /\ CallOK(call[h]) /\ call'[h].pc = "serve"
  BY DEF DaemonTypeOK, OwnTypeOK, At
<1>2. CASE FindExact(h) \/ Recheck(h)
  <2> DEFINE r == servable[call[h].key]
  <2>1. call[h].key \in Keys /\ call'[h].key = call[h].key /\ call'[h].rec = r /\ r # NoRecord
    BY <1>1, <1>2 DEF FindExact, Recheck, At, CallOK, OwnTypeOK, CallState
  <2>2. r.key = call[h].key /\ r \in TrueRecords(Result)
    BY <2>1 DEF IndexesAgree, ServableIsCandidate, OnlyFrom, IndexesFrom
  <2> QED BY <2>1, <2>2 DEF TrueRecords
<1>3. CASE TryScope(h)
  <2>1. PICK c \in Promotable(call[h].key) :
          call' = [call EXCEPT ![h].pc = "serve", ![h].rec = c.rec]
    BY <1>1, <1>3 DEF TryScope, Goto, OwnTypeOK, CallState
  <2>2. call[h].key \in Keys
    BY <1>1, <1>3 DEF TryScope, At, CallOK
  <2>3. call'[h].rec = c.rec /\ call'[h].key = call[h].key
    BY <1>1, <2>1 DEF OwnTypeOK, CallState
  <2>4. /\ c \in candidates[CandKey[call[h].key]] /\ CandKey[call[h].key] \in CandKeys
        /\ <<c.rec.key, c.rec.out, call[h].key>> \in Promotes
    BY <2>1, <2>2, StoreAssumption DEF Promotable, Recent
  <2>5. c.rec \in TrueRecords(Result) /\ c.rec.key \in Keys
    BY <2>4 DEF OnlyFrom, IndexesFrom, IndexesAgree, CandidatesAreServable
  <2>6. c.rec.out = Result[c.rec.key]
    BY <2>5 DEF TrueRecords
  <2>7. c.rec.out = Result[call[h].key]
    BY <2>4, <2>6 DEF SoundFor
  <2> QED BY <2>3, <2>7
<1>4. CASE ~FindExact(h) /\ ~Recheck(h) /\ ~TryScope(h)
  <2>1. call'[h] = call[h]
    BY <1>4, OnlyLookupsServe
  <2> QED BY <1>1, <2>1 DEF HitIsTrue, At
<1> QED BY <1>2, <1>3, <1>4

(* The cache cannot be told from executing: if every command's outcome is  *)
(* a function of its key, what is posted as servable is that outcome, and  *)
(* promotions are sound, then every HIT carries what the command would     *)
(* give, through peers, restarts, torn lines, evictions and lost messages. *)
THEOREM DaemonIsTransparent ==
  ASSUME NEW Result \in [Keys -> Outs], SoundFor(Result)
  PROVE  DaemonSpec /\ [][PostsOnly(Result)]_daemonVars => []HitIsTrue(Result)
<1> DEFINE G == TrueRecords(Result)
           Posts == DaemonNext /\ PostsOnly(Result)
<1>1. DaemonInit => PostIsTrue(Result) /\ HitIsTrue(Result)
  BY DEF DaemonInit, NoCall, PostIsTrue, HitIsTrue, At
<1>2. [DaemonNext]_daemonVars /\ [PostsOnly(Result)]_daemonVars => [Posts]_daemonVars
  OBVIOUS
<1>3. DaemonTypeOK /\ DaemonTypeOK' /\ PostIsTrue(Result) /\ [Posts]_daemonVars
        => PostIsTrue(Result)'
  BY PostTrueStep
<1>4. DaemonTypeOK /\ PostIsTrue(Result) /\ [DaemonNext]_daemonVars => [WorkFrom(G)]_storeVars
  BY DaemonWorkFrom
<1>5. DaemonInit => OnlyFrom(G)
  BY FromInit DEF DaemonInit
<1>6. StoreInv /\ OnlyFrom(G) /\ [WorkFrom(G)]_storeVars => OnlyFrom(G)'
  BY FromStep DEF StoreInv
<1>7. DaemonTypeOK /\ StoreInv /\ ServeAsked /\ OnlyFrom(G) /\ HitIsTrue(Result)
        /\ [DaemonNext]_daemonVars => HitIsTrue(Result)'
  BY HitTrueStep DEF StoreInv
<1> HIDE DEF G, Posts
<1> QED BY <1>1, <1>2, <1>3, <1>4, <1>5, <1>6, <1>7, DaemonTypeCorrect, DaemonKeepsStoreInv,
           DaemonServesWhoAsked, PTL DEF DaemonSpec
=============================================================================
