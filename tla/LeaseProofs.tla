---------------------------- MODULE LeaseProofs -----------------------------
(* Theorems about the leases of Daemon: no done channel is closed twice,   *)
(* no wakeup is lost, a key known to be unservable drains, and without     *)
(* failures every lease has a call that will release it.                   *)
EXTENDS DaemonProofs

(* A lease in the map was not abandoned by a waiter that timed out.        *)
LeasedNotExpired == \A k \in Keys : leases[k] \notin expired

(* The conjunction that is inductive.  A closer's channel must be out of   *)
(* the map for the next closer to find another one, a leased channel must  *)
(* not be abandoned for its closer's not to be, and a waiter whose wakeup  *)
(* is coming is what a release that finds no lease relies on.              *)
LeaseInv == ClosedOnce /\ LeasedNotExpired /\ WaiterCanWake /\ KnownUnservableDrains

(* A step of one call that neither waits nor closes after it, neither      *)
(* releases nor closes before it, and leaves the maps alone.               *)
LEMMA QuietStep ==
  ASSUME OwnTypeOK, LeaseInv, NEW h \in Calls, UNCHANGED flightVars,
         \A g \in Calls \ {h} : call'[g] = call[g],
         call[h].pc \notin {"release", "close"}, call'[h].pc \notin {"wait", "close"}
  PROVE  LeaseInv'
<1>1. UNCHANGED <<leases, unservable, expired>>
  BY DEF flightVars
<1>2. ClosedOnce' /\ LeasedNotExpired'
  BY <1>1 DEF LeaseInv, ClosedOnce, LeasedNotExpired, At
<1>3. WaiterCanWake'
  BY <1>1 DEF LeaseInv, WaiterCanWake, At
<1>4. KnownUnservableDrains'
  BY <1>1 DEF LeaseInv, KnownUnservableDrains, At
<1> QED BY <1>2, <1>3, <1>4 DEF LeaseInv

(* The handlers and the wrapper, where they only move on.                  *)
LEMMA QuietActions ==
  ASSUME OwnTypeOK, LeaseInv, NEW h \in Calls,
         \/ FindExact(h) \/ TryScope(h) \/ Recheck(h) \/ Serve(h) \/ Expire(h)
         \/ ClientStep(h) \/ RecordAppend(h) \/ RecordFails(h)
  PROVE  LeaseInv'
<1>1. CASE FindExact(h)
  BY <1>1, QuietStep DEF FindExact, At, OwnTypeOK, CallState
<1>2. CASE TryScope(h)
  BY <1>2, QuietStep DEF TryScope, Goto, At, OwnTypeOK, CallState
<1>3. CASE Recheck(h)
  BY <1>3, QuietStep DEF Recheck, At, OwnTypeOK, CallState
<1>4. CASE Serve(h)
  BY <1>4, QuietStep DEF Serve, Return, NoCall, At, OwnTypeOK, CallState
<1>5. CASE Expire(h)
  BY <1>5, QuietStep DEF Expire, Goto, At, OwnTypeOK, CallState
<1>6. ASSUME NEW k \in Keys, Lookup(h, k) PROVE LeaseInv'
  <2>1. PICK b \in BOOLEAN :
          call' = [call EXCEPT ![h] = [NoCall EXCEPT
                     !.pc = IF b THEN "lookup" ELSE "acquire", !.key = k, !.serve = b]]
    BY <1>6 DEF Lookup
  <2>2. call'[h].pc = IF b THEN "lookup" ELSE "acquire"
    BY <2>1 DEF OwnTypeOK, NoCall
  <2> QED BY <1>6, <2>1, <2>2, QuietStep DEF Lookup, At, OwnTypeOK
<1>7. CASE Finish(h)
  BY <1>7, QuietStep DEF Finish, At, OwnTypeOK, CallState
<1>8. CASE Die(h) \/ LoseRelease(h)
  BY <1>8, QuietStep DEF Die, LoseRelease, Return, NoCall, At, OwnTypeOK
<1>9. CASE LosePost(h) \/ PostRelease(h)
  BY <1>9, QuietStep DEF LosePost, PostRelease, Goto, At, OwnTypeOK, CallState
<1>10. CASE RecordAppend(h)
  BY <1>10, QuietStep DEF RecordAppend, AfterAppend, Goto, At, OwnTypeOK, CallState
<1>11. CASE RecordFails(h)
  BY <1>11, QuietStep DEF RecordFails, Return, NoCall, At, OwnTypeOK
<1> QED BY <1>1, <1>2, <1>3, <1>4, <1>5, <1>6, <1>7, <1>8, <1>9, <1>10, <1>11
        DEF ClientStep

(* A lookup blocks on the lease it finds, unless the key is unservable.    *)
LEMMA PeekStep ==
  ASSUME OwnTypeOK, LeaseInv, NEW h \in Calls, Peek(h)
  PROVE  LeaseInv'
<1>1. At(h, "peek") /\ UNCHANGED flightVars /\ \A g \in Calls \ {h} : call'[g] = call[g]
  BY DEF Peek, Goto, OwnTypeOK
<1>2. CASE Goto(h, "acquire")
  BY <1>1, <1>2, QuietStep DEF Goto, At, OwnTypeOK, CallState
<1>3. CASE ~Goto(h, "acquire")
  <2>1. /\ call[h].key \notin unservable /\ call'[h].pc = "wait"
        /\ call'[h].key = call[h].key /\ call'[h].chan = leases[call[h].key]
    BY <1>3 DEF Peek, OwnTypeOK, CallState
  <2>2. UNCHANGED <<leases, unservable, expired>>
    BY <1>1 DEF flightVars
  <2>3. ClosedOnce' /\ LeasedNotExpired'
    BY <1>1, <2>1, <2>2 DEF LeaseInv, ClosedOnce, LeasedNotExpired, At
  <2>4. WaiterCanWake'
    BY <1>1, <2>1, <2>2 DEF LeaseInv, WaiterCanWake, At
  <2>5. KnownUnservableDrains'
    BY <1>1, <2>1, <2>2 DEF LeaseInv, KnownUnservableDrains, At
  <2> QED BY <2>3, <2>4, <2>5 DEF LeaseInv
<1> QED BY <1>2, <1>3

(* A timed-out waiter removes the lease only while it is the one it waited *)
(* on, so the channel it abandons is nobody's to close.                    *)
LEMMA DropExpiredStep ==
  ASSUME OwnTypeOK, LeaseInv, NEW h \in Calls, DropExpired(h)
  PROVE  LeaseInv'
<1> DEFINE k == call[h].key
           x == call[h].chan
<1>1. /\ At(h, "expired") /\ k \in Keys /\ x \in Chans
      /\ call'[h].pc = "acquire" /\ \A g \in Calls \ {h} : call'[g] = call[g]
      /\ unservable' = unservable
  BY DEF DropExpired, At, OwnTypeOK, CallOK, CallState
<1>2. CASE leases[k] # x
  BY <1>1, <1>2, QuietStep DEF DropExpired, At, flightVars
<1>3. CASE leases[k] = x
  <2>1. /\ leases' = [leases EXCEPT ![k] = NoChan] /\ expired' = expired \cup {x}
    BY <1>3 DEF DropExpired
  <2>2. /\ leases'[k] = NoChan /\ \A j \in Keys \ {k} : leases'[j] = leases[j]
        /\ x # NoChan /\ NoChan \notin expired
    BY <1>1, <2>1, DaemonAssumption DEF OwnTypeOK
  <2>3. \A j \in Keys \ {k} : leases[j] # x
    BY <1>1, <1>3, <2>2 DEF LeaseInv, ClosedOnce
  <2>4. ClosedOnce'
    <3>1. \A g \in Calls : At(g, "close")' =>
            At(g, "close") /\ call'[g] = call[g] /\ call[g].chan # x
      BY <1>1, <1>3 DEF LeaseInv, ClosedOnce, At
    <3>2. \A g \in Calls : At(g, "close") => call[g].chan # NoChan
      BY DEF OwnTypeOK, CallOK, At
    <3> QED BY <1>1, <2>1, <2>2, <3>1, <3>2 DEF LeaseInv, ClosedOnce
  <2>5. LeasedNotExpired'
    BY <1>1, <2>1, <2>2, <2>3 DEF LeaseInv, LeasedNotExpired
  <2>6. WaiterCanWake'
    BY <1>1, <1>3, <2>1, <2>2 DEF LeaseInv, WaiterCanWake, At
  <2>7. KnownUnservableDrains'
    BY <1>1, <2>1 DEF LeaseInv, KnownUnservableDrains, At
  <2> QED BY <2>4, <2>5, <2>6, <2>7 DEF LeaseInv
<1> QED BY <1>2, <1>3

(* A lease is taken on a key that has none, with a channel nobody knows.   *)
LEMMA AcquireStep ==
  ASSUME OwnTypeOK, LeaseInv, NEW h \in Calls, Acquire(h)
  PROVE  LeaseInv'
<1> DEFINE k == call[h].key
<1>1. /\ At(h, "acquire") /\ k \in Keys /\ call'[h].pc = "run"
      /\ \A g \in Calls \ {h} : call'[g] = call[g]
      /\ unservable' = unservable
  BY DEF Acquire, Goto, At, OwnTypeOK, CallOK, CallState
<1>2. CASE leases[k] # NoChan
  BY <1>1, <1>2, QuietStep DEF Acquire, At, flightVars
<1>3. CASE leases[k] = NoChan
  <2>1. PICK c \in Chans \ LiveChans :
          leases' = [leases EXCEPT ![k] = c] /\ expired' = expired \ {c}
    BY <1>3 DEF Acquire
  <2>2. leases'[k] = c /\ \A j \in Keys \ {k} : leases'[j] = leases[j]
    BY <1>1, <2>1 DEF OwnTypeOK
  <2>3. (\A j \in Keys : leases[j] # c) /\ (\A g \in Calls : call[g].chan # c)
    BY <2>1 DEF LiveChans
  <2>4. ClosedOnce'
    BY <1>1, <2>1, <2>2, <2>3 DEF LeaseInv, ClosedOnce, At
  <2>5. LeasedNotExpired'
    BY <1>1, <2>1, <2>2, <2>3 DEF LeaseInv, LeasedNotExpired
  <2>6. WaiterCanWake'
    <3> SUFFICES ASSUME NEW g \in Calls, At(g, "wait")'
                 PROVE  \/ leases'[call'[g].key] = call'[g].chan
                        \/ \E f \in Calls : At(f, "close")' /\ call'[f].chan = call'[g].chan
                        \/ call'[g].chan \in expired'
      BY DEF WaiterCanWake
    <3>1. g # h /\ call'[g] = call[g] /\ At(g, "wait")
      BY <1>1 DEF At
    <3>2. call[g].chan # NoChan /\ call[g].key \in Keys /\ call[g].chan # c
      BY <2>3, <3>1 DEF OwnTypeOK, CallOK, At
    <3>3. CASE leases[call[g].key] = call[g].chan
      BY <1>3, <2>2, <3>1, <3>2, <3>3
    <3>4. CASE call[g].chan \in expired
      BY <2>1, <3>1, <3>2, <3>4
    <3>5. CASE \E f \in Calls : At(f, "close") /\ call[f].chan = call[g].chan
      BY <1>1, <3>1, <3>5 DEF At
    <3> QED BY <3>1, <3>3, <3>4, <3>5 DEF LeaseInv, WaiterCanWake
  <2>7. KnownUnservableDrains'
    BY <1>1, <2>1, <2>3 DEF LeaseInv, KnownUnservableDrains, At
  <2> QED BY <2>4, <2>5, <2>6, <2>7 DEF LeaseInv
<1> QED BY <1>2, <1>3

(* A key becomes known as unservable just before its lease is released.    *)
LEMMA MarkStep ==
  ASSUME OwnTypeOK, LeaseInv, NEW h \in Calls, Mark(h)
  PROVE  LeaseInv'
<1>1. /\ At(h, "mark") /\ call'[h].pc = "release" /\ call'[h].key = call[h].key
      /\ \A g \in Calls \ {h} : call'[g] = call[g]
      /\ unservable' = unservable \cup {call[h].key}
      /\ UNCHANGED <<leases, expired>>
  BY DEF Mark, Goto, At, OwnTypeOK, CallState
<1>2. ClosedOnce' /\ LeasedNotExpired'
  BY <1>1 DEF LeaseInv, ClosedOnce, LeasedNotExpired, At
<1>3. WaiterCanWake'
  BY <1>1 DEF LeaseInv, WaiterCanWake, At
<1>4. KnownUnservableDrains'
  BY <1>1 DEF LeaseInv, KnownUnservableDrains, At
<1> QED BY <1>2, <1>3, <1>4 DEF LeaseInv

(* A release takes the lease out of the map and is then its only closer.   *)
LEMMA ReleaseStep ==
  ASSUME OwnTypeOK, LeaseInv, NEW h \in Calls, Release(h)
  PROVE  LeaseInv'
<1> DEFINE k == call[h].key
           x == leases[k]
<1>1. /\ At(h, "release") /\ k \in Keys
      /\ \A g \in Calls \ {h} : call'[g] = call[g]
      /\ UNCHANGED <<unservable, expired>>
  BY DEF Release, Return, At, OwnTypeOK, CallOK
<1>2. CASE x = NoChan
  <2>1. call'[h].pc = "idle" /\ leases' = leases
    BY <1>2 DEF Release, Return, NoCall, OwnTypeOK
  <2>2. ClosedOnce' /\ LeasedNotExpired'
    BY <1>1, <2>1 DEF LeaseInv, ClosedOnce, LeasedNotExpired, At
  <2>3. WaiterCanWake'
    BY <1>1, <2>1 DEF LeaseInv, WaiterCanWake, At
  <2>4. KnownUnservableDrains'
    <3> SUFFICES ASSUME NEW g \in Calls, At(g, "wait"), g # h,
                        call[g].key \in unservable, call[g].chan \notin expired
                 PROVE  \E f \in Calls \ {h} :
                          \/ At(f, "release") /\ call[f].key = call[g].key
                          \/ At(f, "close") /\ call[f].chan = call[g].chan
      BY <1>1, <2>1 DEF KnownUnservableDrains, At
    <3>1. call[g].chan # NoChan
      BY DEF OwnTypeOK, CallOK, At
    <3>2. CASE call[g].key = k
      BY <1>1, <1>2, <3>1, <3>2 DEF LeaseInv, WaiterCanWake, At
    <3>3. CASE call[g].key # k
      BY <1>1, <3>3 DEF LeaseInv, KnownUnservableDrains, At
    <3> QED BY <3>2, <3>3
  <2> QED BY <2>2, <2>3, <2>4 DEF LeaseInv
<1>3. CASE x # NoChan
  <2>1. /\ call'[h].pc = "close" /\ call'[h].chan = x /\ call'[h].key = k
        /\ leases'[k] = NoChan /\ \A j \in Keys \ {k} : leases'[j] = leases[j]
    BY <1>1, <1>3 DEF Release, OwnTypeOK, CallState
  <2>2. \A j \in Keys \ {k} : leases[j] # x
    BY <1>1, <1>3 DEF LeaseInv, ClosedOnce
  <2>3. x \notin expired /\ \A g \in Calls : At(g, "close") => call[g].chan # x
    BY <1>1 DEF LeaseInv, ClosedOnce, LeasedNotExpired
  <2>4. \A g \in Calls : At(g, "close") => call[g].chan # NoChan
    BY DEF OwnTypeOK, CallOK, At
  <2>5. ClosedOnce'
    BY <1>1, <1>3, <2>1, <2>2, <2>3, <2>4 DEF LeaseInv, ClosedOnce, At
  <2>6. LeasedNotExpired'
    BY <1>1, <2>1, DaemonAssumption DEF LeaseInv, LeasedNotExpired, OwnTypeOK
  <2>7. WaiterCanWake'
    <3> SUFFICES ASSUME NEW g \in Calls, At(g, "wait"), g # h
                 PROVE  \/ leases'[call[g].key] = call[g].chan
                        \/ call[g].chan = x
                        \/ \E f \in Calls \ {h} : At(f, "close") /\ call[f].chan = call[g].chan
                        \/ call[g].chan \in expired
      BY <1>1, <2>1 DEF WaiterCanWake, At
    <3>1. call[g].key \in Keys
      BY DEF OwnTypeOK, CallOK, At
    <3>2. CASE leases[call[g].key] = call[g].chan
      BY <2>1, <3>1, <3>2
    <3>3. CASE leases[call[g].key] # call[g].chan
      BY <1>1, <3>3 DEF LeaseInv, WaiterCanWake, At
    <3> QED BY <3>2, <3>3
  <2>8. KnownUnservableDrains'
    <3> SUFFICES ASSUME NEW g \in Calls, At(g, "wait"), g # h,
                        call[g].key \in unservable, call[g].chan \notin expired
                 PROVE  \/ call[g].chan = x
                        \/ \E f \in Calls \ {h} :
                              \/ At(f, "release") /\ call[f].key = call[g].key
                              \/ At(f, "close") /\ call[f].chan = call[g].chan
      BY <1>1, <2>1 DEF KnownUnservableDrains, At
    <3>1. CASE call[g].key = k
      BY <1>1, <3>1 DEF LeaseInv, WaiterCanWake, At
    <3>2. CASE call[g].key # k
      BY <1>1, <3>2 DEF LeaseInv, KnownUnservableDrains, At
    <3> QED BY <3>1, <3>2
  <2> QED BY <2>5, <2>6, <2>7, <2>8 DEF LeaseInv
<1> QED BY <1>2, <1>3

(* Closing a channel wakes every call that waits on it.                    *)
LEMMA CloseStep ==
  ASSUME OwnTypeOK, LeaseInv, NEW h \in Calls, Close(h)
  PROVE  LeaseInv'
<1>1. /\ At(h, "close") /\ call'[h] = NoCall
      /\ UNCHANGED <<leases, unservable, expired>>
      /\ \A g \in Calls \ {h} :
           IF At(g, "wait") /\ call[g].chan = call[h].chan
           THEN call'[g].pc = "woken" ELSE call'[g] = call[g]
  BY DEF Close, flightVars, At, OwnTypeOK, CallState
<1>2. call'[h].pc = "idle"
  BY <1>1 DEF NoCall
<1>3. ClosedOnce' /\ LeasedNotExpired'
  BY <1>1, <1>2 DEF LeaseInv, ClosedOnce, LeasedNotExpired, At
<1>4. \A g \in Calls : At(g, "wait")' =>
        /\ g # h /\ At(g, "wait") /\ call'[g] = call[g] /\ call[g].chan # call[h].chan
  BY <1>1, <1>2 DEF At
<1>5. \A f \in Calls : At(f, "close") /\ f # h => call'[f] = call[f]
  BY <1>1 DEF At
<1>6. \A f \in Calls : At(f, "release") => call'[f] = call[f]
  BY <1>1 DEF At
<1>7. WaiterCanWake'
  BY <1>1, <1>4, <1>5 DEF LeaseInv, WaiterCanWake, At
<1>8. KnownUnservableDrains'
  BY <1>1, <1>4, <1>5, <1>6 DEF LeaseInv, KnownUnservableDrains, At
<1> QED BY <1>3, <1>7, <1>8 DEF LeaseInv

(* After a crash nobody waits, closes or holds a lease.                    *)
LEMMA CrashLeaseStep == ASSUME OwnTypeOK, DaemonCrash PROVE LeaseInv'
<1>1. /\ leases' = [k \in Keys |-> NoChan] /\ unservable' = {} /\ expired' = {}
      /\ \A h \in Calls : call'[h] = Severed(call[h])
  BY DEF DaemonCrash
<1>2. ASSUME NEW h \in Calls PROVE call'[h].pc \notin {"wait", "close"}
  <2>1. CASE call[h].pc \in LookupPCs
    <3>1. call'[h] = NoCall
      BY <1>1, <2>1 DEF Severed
    <3> QED BY <3>1 DEF NoCall
  <2>2. CASE call[h].pc \in RecordPCs
    <3>1. call[h].pc \notin LookupPCs
      BY <2>2 DEF LookupPCs, RecordPCs
    <3>2. call'[h].pc = "sorry"
      BY <1>1, <2>2, <3>1 DEF Severed, NoCall
    <3> QED BY <3>2
  <2>3. CASE call[h].pc \notin LookupPCs \cup RecordPCs
    BY <1>1, <2>3 DEF Severed, LookupPCs, RecordPCs
  <2> QED BY <2>1, <2>2, <2>3
<1>3. ClosedOnce' /\ LeasedNotExpired'
  BY <1>1, <1>2 DEF ClosedOnce, LeasedNotExpired, At
<1>4. WaiterCanWake' /\ KnownUnservableDrains'
  BY <1>2 DEF WaiterCanWake, KnownUnservableDrains, At
<1> QED BY <1>3, <1>4 DEF LeaseInv

-----------------------------------------------------------------------------
LEMMA LeaseStep ==
  ASSUME DaemonTypeOK, LeaseInv, [DaemonNext]_daemonVars
  PROVE  LeaseInv'
<1>1. OwnTypeOK
  BY DEF DaemonTypeOK, OwnTypeOK
<1>2. ASSUME UNCHANGED <<flightVars, call>> PROVE LeaseInv'
  BY <1>2 DEF flightVars, LeaseInv, ClosedOnce, LeasedNotExpired, WaiterCanWake,
              KnownUnservableDrains, At
<1>3. ASSUME NEW h \in Calls, HandlerStep(h) \/ ClientStep(h) \/ Expire(h) \/ RecordFails(h)
      PROVE  LeaseInv'
  <2>1. CASE \/ FindExact(h) \/ TryScope(h) \/ Recheck(h) \/ Serve(h) \/ Expire(h)
             \/ ClientStep(h) \/ RecordAppend(h) \/ RecordFails(h)
    BY <1>1, <2>1, QuietActions
  <2>2. CASE Peek(h) \/ DropExpired(h) \/ Acquire(h)
    BY <1>1, <2>2, PeekStep, DropExpiredStep, AcquireStep
  <2>3. CASE Mark(h) \/ Release(h) \/ Close(h)
    BY <1>1, <2>3, MarkStep, ReleaseStep, CloseStep
  <2> QED BY <1>3, <2>1, <2>2, <2>3 DEF HandlerStep
<1>4. ASSUME NEW v \in Verifiers, VerifierStep(v) PROVE LeaseInv'
  BY <1>2, <1>4 DEF VerifierStep, FetchServable, Verdict, VerifyEvict, VerifyAppend
<1>5. ASSUME Starting PROVE LeaseInv'
  BY <1>2, <1>5 DEF Starting
<1>6. ASSUME UNCHANGED daemonVars PROVE LeaseInv'
  BY <1>2, <1>6 DEF daemonVars, flightVars
<1>7. ASSUME DaemonCrash PROVE LeaseInv'
  BY <1>1, <1>7, CrashLeaseStep
<1> QED BY <1>3, <1>4, <1>5, <1>6, <1>7 DEF DaemonNext

LEMMA LeaseInit == DaemonInit => LeaseInv
BY DaemonAssumption
   DEF DaemonInit, NoCall, LeaseInv, ClosedOnce, LeasedNotExpired, WaiterCanWake,
       KnownUnservableDrains, At

THEOREM DaemonLeaseInvariant == DaemonSpec => []LeaseInv
<1>1. DaemonTypeOK /\ LeaseInv /\ [DaemonNext]_daemonVars => LeaseInv'
  BY LeaseStep
<1> QED BY <1>1, LeaseInit, DaemonTypeCorrect, PTL DEF DaemonSpec

(* No execution of the daemon closes a done channel twice, however many    *)
(* releases of a key race: release never panics.                           *)
THEOREM DaemonClosesOnce == DaemonSpec => []ClosedOnce
<1>1. LeaseInv => ClosedOnce
  BY DEF LeaseInv
<1> QED BY <1>1, DaemonLeaseInvariant, PTL

(* A lookup that blocks in waitForPeer can still be woken: by the lease it *)
(* waits on, by a closer on its way, or by its own timer alone when a peer *)
(* has abandoned that lease.                                               *)
THEOREM DaemonLosesNoWakeup == DaemonSpec => []WaiterCanWake
<1>1. LeaseInv => WaiterCanWake
  BY DEF LeaseInv
<1> QED BY <1>1, DaemonLeaseInvariant, PTL

(* Once a key is known to be unservable, a lookup still blocked on it is   *)
(* about to be released.                                                   *)
THEOREM DaemonDrainsUnservable == DaemonSpec => []KnownUnservableDrains
<1>1. LeaseInv => KnownUnservableDrains
  BY DEF LeaseInv
<1> QED BY <1>1, DaemonLeaseInvariant, PTL

-----------------------------------------------------------------------------
(* Without failures.                                                       *)

Claims(c, k) == c.key = k /\ c.pc \in {"run", "record", "mark", "release"}
Claimed == \A k \in Keys : leases[k] # NoChan => \E h \in Calls : Claims(call[h], k)

(* No call is served while the daemon starts for the first time.           *)
IdleAtStart == phase = "replay" => \A h \in Calls : At(h, "idle")

NoFailure == Faults \subseteq {"expire"}

(* While no call is idle by accident of a restart, the store stays open.   *)
LEMMA StaysOpen ==
  ASSUME DaemonTypeOK, [DaemonNext]_daemonVars, ~DaemonCrash, phase = "open"
  PROVE  phase' = "open"
BY DaemonStoreWork
   DEF StoreWork, AppendRecord, AppendShort, Evict, ReplayLine, ReplayDone, storeVars

(* One call steps: the claims of the others stay, and what it does to its  *)
(* own claim or to the leases is given.                                    *)
LEMMA ClaimKept ==
  ASSUME OwnTypeOK, Claimed, NEW h \in Calls,
         \A g \in Calls \ {h} : call'[g] = call[g],
         \A k \in Keys : leases'[k] # NoChan => leases[k] # NoChan \/ Claims(call'[h], k),
         \A k \in Keys : Claims(call[h], k) /\ leases'[k] # NoChan => Claims(call'[h], k)
  PROVE  Claimed'
BY DEF Claimed

LEMMA ClaimStep ==
  ASSUME NoFailure, DaemonTypeOK, IdleAtStart, Claimed, [DaemonNext]_daemonVars
  PROVE  IdleAtStart' /\ Claimed'
<1>1. OwnTypeOK /\ StoreTypeOK
  BY DEF DaemonTypeOK, OwnTypeOK
<1>2. ~DaemonCrash
  BY DEF DaemonCrash, NoFailure
<1>3. ASSUME NEW h \in Calls, HandlerStep(h) \/ ClientStep(h) \/ Expire(h) \/ RecordFails(h)
      PROVE  IdleAtStart' /\ Claimed'
  <2>1. phase = "open"
    <3>1. call[h].pc # "idle" \/ phase = "open"
      BY <1>3 DEF HandlerStep, ClientStep, FindExact, TryScope, Peek, DropExpired, Recheck,
                  Serve, Acquire, RecordAppend, Mark, Release, Close, Lookup, Finish, Die,
                  LosePost, PostRelease, LoseRelease, Expire, RecordFails, At
    <3> QED BY <1>1, <3>1 DEF IdleAtStart, StoreTypeOK, At
  <2>2. IdleAtStart'
    BY <1>2, <2>1, StaysOpen DEF IdleAtStart
  <2> USE <1>1 DEF OwnTypeOK, CallState
  <2>3. CASE \/ FindExact(h) \/ TryScope(h) \/ Peek(h) \/ Expire(h) \/ Recheck(h)
             \/ Serve(h)
    <3>1. /\ call[h].pc \in {"lookup", "scope", "peek", "wait", "woken", "serve"}
          /\ \A g \in Calls \ {h} : call'[g] = call[g]
          /\ leases' = leases
      BY <2>3 DEF FindExact, TryScope, Peek, Expire, Recheck, Serve, Return, Goto, At,
                  flightVars
    <3> QED BY <2>2, <3>1, ClaimKept DEF Claims
  <2>4. CASE DropExpired(h)
    <3>1. /\ At(h, "expired") /\ \A g \in Calls \ {h} : call'[g] = call[g]
          /\ \A k \in Keys : leases'[k] # NoChan => leases[k] # NoChan
      BY <2>4 DEF DropExpired
    <3> QED BY <2>2, <3>1, ClaimKept DEF Claims, At
  <2>5. CASE Acquire(h)
    <3>1. /\ At(h, "acquire") /\ \A g \in Calls \ {h} : call'[g] = call[g]
          /\ call'[h].pc = "run" /\ call'[h].key = call[h].key
          /\ \A k \in Keys \ {call[h].key} : leases'[k] = leases[k]
      BY <2>5 DEF Acquire, Goto
    <3> QED BY <2>2, <3>1, ClaimKept DEF Claims, At
  <2>6. CASE RecordAppend(h) \/ Mark(h)
    <3>1. /\ \A g \in Calls \ {h} : call'[g] = call[g]
          /\ call'[h].pc \in {"mark", "release"} /\ call'[h].key = call[h].key
          /\ leases' = leases
      BY <2>6 DEF RecordAppend, AfterAppend, Mark, Goto, flightVars
    <3> QED BY <2>2, <3>1, ClaimKept DEF Claims
  <2>7. CASE Release(h)
    <3>1. /\ At(h, "release") /\ \A g \in Calls \ {h} : call'[g] = call[g]
          /\ leases'[call[h].key] = NoChan \/ call[h].key \notin Keys
          /\ \A k \in Keys : leases'[k] # NoChan => leases[k] # NoChan
      BY <2>7 DEF Release, Return
    <3> QED BY <2>2, <3>1, ClaimKept DEF Claims
  <2>8. CASE Close(h)
    <3>1. /\ leases' = leases
          /\ \A g \in Calls : call'[g] = call[g] \/ call[g].pc \in {"close", "wait"}
      BY <2>8 DEF Close, At, flightVars
    <3>2. \A g \in Calls, k \in Keys : Claims(call[g], k) => Claims(call'[g], k)
      BY <3>1 DEF Claims
    <3> QED BY <2>2, <3>1, <3>2 DEF Claimed
  <2>9. ASSUME NEW k \in Keys, Lookup(h, k) PROVE Claimed'
    <3>1. /\ At(h, "idle") /\ \A g \in Calls \ {h} : call'[g] = call[g]
          /\ leases' = leases
      BY <2>9 DEF Lookup, flightVars
    <3> QED BY <2>2, <3>1, ClaimKept DEF Claims, At
  <2>10. CASE Finish(h)
    <3>1. /\ \A g \in Calls \ {h} : call'[g] = call[g]
          /\ call'[h].pc = "record" /\ call'[h].key = call[h].key
          /\ leases' = leases
      BY <2>10 DEF Finish, flightVars
    <3> QED BY <2>2, <3>1, ClaimKept DEF Claims
  <2>11. CASE PostRelease(h) \/ LoseRelease(h)
    <3>1. /\ At(h, "sorry") /\ \A g \in Calls \ {h} : call'[g] = call[g]
          /\ leases' = leases
      BY <2>11 DEF PostRelease, LoseRelease, Goto, Return, flightVars
    <3> QED BY <2>2, <3>1, ClaimKept DEF Claims, At
  <2>12. ~Die(h) /\ ~LosePost(h) /\ ~RecordFails(h)
    BY <2>1 DEF Die, LosePost, RecordFails, NoFailure
  <2> QED BY <1>3, <2>2, <2>3, <2>4, <2>5, <2>6, <2>7, <2>8, <2>9, <2>10, <2>11, <2>12
          DEF HandlerStep, ClientStep
<1>4. ASSUME UNCHANGED <<leases, call>>, phase' = "replay" => phase = "replay"
      PROVE  IdleAtStart' /\ Claimed'
  BY <1>4 DEF IdleAtStart, Claimed, At
<1>5. phase' = "replay" => phase = "replay"
  BY <1>1, <1>2, StaysOpen DEF StoreTypeOK
<1>6. ASSUME NEW v \in Verifiers, VerifierStep(v) PROVE IdleAtStart' /\ Claimed'
  BY <1>4, <1>5, <1>6
     DEF VerifierStep, FetchServable, Verdict, VerifyEvict, VerifyAppend, flightVars
<1>7. ASSUME Starting \/ UNCHANGED daemonVars PROVE IdleAtStart' /\ Claimed'
  BY <1>4, <1>5, <1>7 DEF Starting, daemonVars, flightVars
<1> QED BY <1>2, <1>3, <1>6, <1>7 DEF DaemonNext

(* Without failures no lease is orphaned: the call that will release it is *)
(* executing or recording, though the races of release without an owner    *)
(* let it be another call than the one that took it.                       *)
THEOREM DaemonClaimsLeases == DaemonSpec => []LeaseIsClaimed
<1> DEFINE I == NoFailure => IdleAtStart /\ Claimed
<1>1. DaemonInit => I
  BY DEF DaemonInit, NoCall, IdleAtStart, Claimed, At
<1>2. DaemonTypeOK /\ I /\ [DaemonNext]_daemonVars => I'
  BY ClaimStep DEF NoFailure
<1>3. I => LeaseIsClaimed
  BY DEF NoFailure, Claimed, Claims, LeaseIsClaimed
<1> HIDE DEF I
<1> QED BY <1>1, <1>2, <1>3, DaemonTypeCorrect, PTL DEF DaemonSpec
=============================================================================
