------------------------------- MODULE Daemon -------------------------------
(***************************************************************************)
(* The shared cache server of internal/hp/daemon.go, over the store: its   *)
(* HTTP handlers, the leases that make concurrent executions of a command  *)
(* single-flight, and the clients of internal/hp/client.go that call it.   *)
(*                                                                         *)
(* A call is one command an agent's hook intercepts: the lookup handler    *)
(* the daemon runs for it, then, on a MISS, the wrapper that executes the  *)
(* command (hindsight record) and the record or release handler it ends    *)
(* with.  Handlers run concurrently; each action below is one critical     *)
(* section of a handler, under Store.mu or Server.mu, or one step of a     *)
(* client.  call[h].pc is where the call is:                               *)
(*   lookup   store.Lookup is next          run      wrapper executes      *)
(*   scope    tryScope is next              record   Append is next        *)
(*   peek     waitForPeer reads the lease   mark     unservable is next    *)
(*   wait     blocked on the lease's done   release  delete lease is next  *)
(*   expired  its timer fired               close    close(done) is next   *)
(*   woken    done was closed               sorry    wrapper will send     *)
(*   serve    a HIT is being written                 /release instead      *)
(*   acquire  acquire is next                                              *)
(***************************************************************************)
EXTENDS Store, FiniteSets

CONSTANTS
  Calls,          \* commands in flight at once
  Verifiers,      \* processes of hindsight verify
  Chans,          \* identities of the done channels
  NoChan,
  RecordOnly,     \* keys of commands whose policy is RECORD_ONLY
  Promotes,       \* <<c, o, k>>: the tree difference between a record of key c
                  \* with outcome o and a request for key k cannot affect the
                  \* command (tier 1), or touches nothing o was observed to
                  \* read (tier 2)
  MaxCandidates,  \* how many recent candidates tryScope looks at
  Faults          \* which failures happen, of AllFaults

AllFaults == {"expire", "die", "lost", "full", "crash"}

ASSUME DaemonAssumption ==
  /\ NoChan \notin Chans
  /\ RecordOnly \subseteq Keys
  /\ \A p \in Promotes : /\ p \in Keys \X Outs \X Keys
                         /\ p[1] # p[3] /\ CandKey[p[1]] = CandKey[p[3]]
  /\ MaxCandidates \in Nat
  /\ Outs # {}
  /\ Faults \subseteq AllFaults

VARIABLES
  leases,      \* leases[k]: the done channel of the lease on k
  unservable,  \* keys known to finish without a servable result
  expired,     \* history: channels whose lease a timed-out waiter removed
  call,        \* the calls
  ver          \* the verifiers: the key under judgement and the handler's place

flightVars == <<leases, unservable, expired>>
daemonVars == <<storeVars, leases, unservable, expired, call, ver>>

LookupPCs == {"lookup", "scope", "peek", "wait", "expired", "woken", "serve", "acquire"}
RecordPCs == {"record", "mark", "release", "close"}
PCs == {"idle", "run", "sorry"} \cup LookupPCs \cup RecordPCs

CallState == [pc : PCs, key : Keys \cup {NoKey}, serve : BOOLEAN,
              chan : Chans \cup {NoChan}, rec : Record \cup {NoRecord}]

NoCall == [pc |-> "idle", key |-> NoKey, serve |-> FALSE,
           chan |-> NoChan, rec |-> NoRecord]

VerifierState == [pc : {"idle", "judge", "evict", "append"}, key : Keys \cup {NoKey},
                  ok : BOOLEAN]
NoVerdict == [pc |-> "idle", key |-> NoKey, ok |-> FALSE]

DaemonInit ==
  /\ StoreInit
  /\ leases = [k \in Keys |-> NoChan]
  /\ unservable = {} /\ expired = {}
  /\ call = [h \in Calls |-> NoCall]
  /\ ver = [v \in Verifiers |-> NoVerdict]

At(h, pc) == call[h].pc = pc
Goto(h, pc) == call' = [call EXCEPT ![h].pc = pc]
Return(h) == call' = [call EXCEPT ![h] = NoCall]

(* Channels some goroutine or the lease map still refers to; make(chan)    *)
(* returns one that none of them does.                                     *)
LiveChans == {leases[k] : k \in Keys} \cup {call[h].chan : h \in Calls}

-----------------------------------------------------------------------------
(* handleLookup.                                                           *)

(* A hook asks about key k.  The baseline arm and the RECORD_ONLY commands  *)
(* ask with Serve = false and go straight to acquire.                      *)
Lookup(h, k) ==
  /\ phase = "open" /\ At(h, "idle")
  /\ \E s \in IF k \in RecordOnly THEN {FALSE} ELSE BOOLEAN :
       call' = [call EXCEPT ![h] = [NoCall EXCEPT
                  !.pc = IF s THEN "lookup" ELSE "acquire", !.key = k, !.serve = s]]
  /\ UNCHANGED <<storeVars, flightVars, ver>>

FindExact(h) ==
  /\ At(h, "lookup")
  /\ LET r == servable[call[h].key] IN
       call' = [call EXCEPT ![h].pc = IF r = NoRecord THEN "scope" ELSE "serve",
                            ![h].rec = r]
  /\ UNCHANGED <<storeVars, flightVars, ver>>

(* tryScope: the most recent candidates, newest first, and the first whose *)
(* tree difference is irrelevant is served.  The candidates are a copy; the *)
(* answer is given later, whatever happened to the index meanwhile.        *)
Recent(ck) ==
  {c \in candidates[ck] :
     Cardinality({d \in candidates[ck] : d.at > c.at}) < MaxCandidates}
Promotable(k) ==
  {c \in Recent(CandKey[k]) : <<c.rec.key, c.rec.out, k>> \in Promotes}
Newest(c, C) == \A d \in C : d.at <= c.at

TryScope(h) ==
  /\ At(h, "scope")
  /\ LET C == Promotable(call[h].key) IN
       \/ C = {} /\ Goto(h, "peek")
       \/ \E c \in C : /\ Newest(c, C)
                       /\ call' = [call EXCEPT ![h].pc = "serve", ![h].rec = c.rec]
  /\ UNCHANGED <<storeVars, flightVars, ver>>

Peek_IgnoresUnservable(h) ==
  /\ At(h, "peek")
  /\ LET l == leases[call[h].key] IN
       IF l = NoChan THEN Goto(h, "acquire")
       ELSE call' = [call EXCEPT ![h].pc = "wait", ![h].chan = l]
  /\ UNCHANGED <<storeVars, flightVars, ver>>

(* waitForPeer, its first critical section: block on the lease of the key, *)
(* unless nobody holds it or the key is known to be unservable.            *)
Peek(h) ==
  /\ At(h, "peek")
  /\ LET l == leases[call[h].key] IN
       IF l = NoChan \/ call[h].key \in unservable THEN Goto(h, "acquire")
       ELSE call' = [call EXCEPT ![h].pc = "wait", ![h].chan = l]
  /\ UNCHANGED <<storeVars, flightVars, ver>>

(* The 15 minutes of leaseTimeout are over.                                *)
Expire(h) ==
  /\ "expire" \in Faults /\ At(h, "wait")
  /\ Goto(h, "expired")
  /\ UNCHANGED <<storeVars, flightVars, ver>>

DropExpired_WaitsAgain(h) ==
  /\ At(h, "expired")
  /\ call' = [call EXCEPT ![h].pc = "peek", ![h].chan = NoChan]
  /\ UNCHANGED <<storeVars, flightVars, ver>>

(* The timed-out waiter removes the lease if it is still the one it waited *)
(* on; its done channel is never closed.                                   *)
DropExpired(h) ==
  /\ At(h, "expired")
  /\ LET k == call[h].key IN
       IF leases[k] = call[h].chan
       THEN /\ leases' = [leases EXCEPT ![k] = NoChan]
            /\ expired' = expired \cup {call[h].chan}
       ELSE UNCHANGED <<leases, expired>>
  /\ call' = [call EXCEPT ![h].pc = "acquire", ![h].chan = NoChan]
  /\ UNCHANGED <<storeVars, unservable, ver>>

Recheck_ServesNothing(h) ==
  /\ At(h, "woken")
  /\ call' = [call EXCEPT ![h].pc = "serve", ![h].rec = servable[call[h].key]]
  /\ UNCHANGED <<storeVars, flightVars, ver>>

(* The waiter was woken: the peer's result, if there is one, is served.    *)
Recheck(h) ==
  /\ At(h, "woken")
  /\ LET r == servable[call[h].key] IN
       call' = [call EXCEPT ![h].pc = IF r = NoRecord THEN "acquire" ELSE "serve",
                            ![h].rec = r]
  /\ UNCHANGED <<storeVars, flightVars, ver>>

(* emitDecision or emitScopedHit, then the response.  The HIT is served    *)
(* whether or not its line could be appended.                              *)
HitLine(h) == [key |-> call[h].key, out |-> call[h].rec.out, servable |-> FALSE,
               verified |-> "null"]
Serve(h) ==
  /\ At(h, "serve")
  /\ \/ AppendRecord(HitLine(h))
     \/ "full" \in Faults /\ (AppendShort(HitLine(h)) \/ UNCHANGED storeVars)
  /\ Return(h)
  /\ UNCHANGED <<flightVars, ver>>

Acquire_Overwrites(h) ==
  /\ At(h, "acquire")
  /\ \E c \in Chans \ LiveChans :
       /\ leases' = [leases EXCEPT ![call[h].key] = c]
       /\ expired' = expired \ {c}
  /\ Goto(h, "run")
  /\ UNCHANGED <<storeVars, unservable, ver>>

(* acquire, then the MISS.  The lease is taken unless one is held already; *)
(* either way the caller is told to execute.                               *)
Acquire(h) ==
  /\ At(h, "acquire")
  /\ IF leases[call[h].key] # NoChan THEN UNCHANGED <<leases, expired>>
     ELSE \E c \in Chans \ LiveChans :
            /\ leases' = [leases EXCEPT ![call[h].key] = c]
            /\ expired' = expired \ {c}
  /\ Goto(h, "run")
  /\ UNCHANGED <<storeVars, unservable, ver>>

-----------------------------------------------------------------------------
(* The wrapper, handleRecord and handleRelease.                            *)

(* Servable lines there is still room for, within the bound MaxLog.        *)
Room ==
  LET posted == Cardinality({h \in Calls : At(h, "record") /\ call[h].rec.servable}) IN
    Len(log) + posted < MaxLog /\ count + posted < MaxLog

(* The command ran and its result is posted.  A RECORD_ONLY command is     *)
(* never servable; any other is when it left the workspace as it was.      *)
Finish(h) ==
  /\ phase = "open" /\ At(h, "run")
  /\ \E o \in Outs : \E s \in IF call[h].key \in RecordOnly \/ ~Room THEN {FALSE} ELSE BOOLEAN :
       call' = [call EXCEPT ![h].pc = "record",
                  ![h].rec = [key |-> call[h].key, out |-> o, servable |-> s,
                              verified |-> "null"]]
  /\ UNCHANGED <<storeVars, flightVars, ver>>

(* The wrapper never posts: it is killed, the agent never runs it, or the  *)
(* hook gave up on its lookup, in which case the handler, which does not   *)
(* look at the request's context, took the lease for nobody.               *)
Die(h) ==
  /\ "die" \in Faults /\ At(h, "run")
  /\ Return(h)
  /\ UNCHANGED <<storeVars, flightVars, ver>>

(* client.Record does not reach the daemon, always so while it is down, and *)
(* the wrapper releases instead; that call may be lost too.                *)
LosePost(h) ==
  /\ "lost" \in Faults \/ phase = "replay"
  /\ At(h, "run")
  /\ Goto(h, "sorry")
  /\ UNCHANGED <<storeVars, flightVars, ver>>
PostRelease(h) ==
  /\ phase = "open" /\ At(h, "sorry")
  /\ Goto(h, "release")
  /\ UNCHANGED <<storeVars, flightVars, ver>>
LoseRelease(h) ==
  /\ At(h, "sorry")
  /\ Return(h)
  /\ UNCHANGED <<storeVars, flightVars, ver>>

AfterAppend(h) == IF call[h].rec.servable THEN "release" ELSE "mark"

RecordAppend_ReleasesFirst(h) ==
  /\ At(h, "record")
  /\ Goto(h, AfterAppend(h))
  /\ UNCHANGED <<storeVars, flightVars, ver>>

RecordAppend(h) ==
  /\ At(h, "record")
  /\ AppendRecord(call[h].rec)
  /\ Goto(h, AfterAppend(h))
  /\ UNCHANGED <<flightVars, ver>>

(* Append fails: the handler answers 500 and returns, the lease stays, and *)
(* client.Record does not look at the status.                              *)
RecordFails(h) ==
  /\ "full" \in Faults /\ At(h, "record")
  /\ AppendShort(call[h].rec) \/ UNCHANGED storeVars
  /\ Return(h)
  /\ UNCHANGED <<flightVars, ver>>

Mark(h) ==
  /\ At(h, "mark")
  /\ unservable' = unservable \cup {call[h].key}
  /\ Goto(h, "release")
  /\ UNCHANGED <<storeVars, leases, expired, ver>>

Release_KeepsLease(h) ==
  /\ At(h, "release")
  /\ IF leases[call[h].key] = NoChan THEN Return(h)
     ELSE call' = [call EXCEPT ![h].pc = "close", ![h].chan = leases[call[h].key]]
  /\ UNCHANGED <<storeVars, flightVars, ver>>

(* release: whatever lease the key has is deleted, its holder not asked.   *)
Release(h) ==
  /\ At(h, "release")
  /\ LET k == call[h].key IN
       IF leases[k] = NoChan
       THEN Return(h) /\ UNCHANGED leases
       ELSE /\ leases' = [leases EXCEPT ![k] = NoChan]
            /\ call' = [call EXCEPT ![h].pc = "close", ![h].chan = leases[k]]
  /\ UNCHANGED <<storeVars, unservable, expired, ver>>

(* close(done), outside the mutex: every call waiting on it is woken.  The *)
(* record of the closer that a woken call holds is history.                *)
Close(h) ==
  /\ At(h, "close")
  /\ call' = [g \in Calls |->
                IF g = h THEN NoCall
                ELSE IF At(g, "wait") /\ call[g].chan = call[h].chan
                THEN [call[g] EXCEPT !.pc = "woken", !.chan = NoChan, !.rec = call[h].rec]
                ELSE call[g]]
  /\ UNCHANGED <<storeVars, flightVars, ver>>

-----------------------------------------------------------------------------
(* hindsight verify and handleVerify.                                      *)

(* A verifier picks a record from /servable and re-executes it.            *)
FetchServable(v) ==
  /\ phase = "open" /\ ver[v].pc = "idle"
  /\ \E k \in Keys :
       /\ servable[k] # NoRecord
       /\ ver' = [ver EXCEPT ![v] = [NoVerdict EXCEPT !.pc = "judge", !.key = k]]
  /\ UNCHANGED <<storeVars, flightVars, call>>

(* It posts its verdict on the key; handleVerify evicts, if the outputs    *)
(* diverged, and then appends.                                             *)
Verdict(v) ==
  /\ phase = "open" /\ ver[v].pc = "judge"
  /\ \E ok \in BOOLEAN :
       ver' = [ver EXCEPT ![v].pc = IF ok THEN "append" ELSE "evict", ![v].ok = ok]
  /\ UNCHANGED <<storeVars, flightVars, call>>
VerifyEvict(v) ==
  /\ ver[v].pc = "evict"
  /\ Evict(ver[v].key)
  /\ ver' = [ver EXCEPT ![v].pc = "append"]
  /\ UNCHANGED <<flightVars, call>>
VerdictLine(v) == [key |-> ver[v].key, out |-> CHOOSE o \in Outs : TRUE,
                   servable |-> FALSE,
                   verified |-> IF ver[v].ok THEN "true" ELSE "false"]
VerifyAppend(v) ==
  /\ ver[v].pc = "append"
  /\ \/ AppendRecord(VerdictLine(v))
     \/ "full" \in Faults /\ (AppendShort(VerdictLine(v)) \/ UNCHANGED storeVars)
  /\ ver' = [ver EXCEPT ![v] = NoVerdict]
  /\ UNCHANGED <<flightVars, call>>

-----------------------------------------------------------------------------
(* The daemon process.                                                     *)

(* What is left of a call when its daemon dies: a lookup fails and the     *)
(* command passes through; a record fails and the wrapper will release.    *)
Severed(c) ==
  IF c.pc \in LookupPCs THEN NoCall
  ELSE IF c.pc \in RecordPCs THEN [NoCall EXCEPT !.pc = "sorry", !.key = c.key, !.serve = c.serve]
  ELSE c
SeveredVerdict(s) == IF s.pc \in {"evict", "append"} THEN NoVerdict ELSE s

DaemonCrash ==
  /\ "crash" \in Faults
  /\ Crash
  /\ leases' = [k \in Keys |-> NoChan] /\ unservable' = {} /\ expired' = {}
  /\ call' = [h \in Calls |-> Severed(call[h])]
  /\ ver' = [v \in Verifiers |-> SeveredVerdict(ver[v])]

Starting == (ReplayLine \/ ReplayDone) /\ UNCHANGED <<flightVars, call, ver>>

-----------------------------------------------------------------------------
(* What the goroutines of the daemon do for a call once it has arrived.    *)
HandlerStep(h) ==
  \/ FindExact(h) \/ TryScope(h) \/ Peek(h) \/ DropExpired(h) \/ Recheck(h)
  \/ Serve(h) \/ Acquire(h)
  \/ RecordAppend(h) \/ Mark(h) \/ Release(h) \/ Close(h)

ClientStep(h) ==
  \/ \E k \in Keys : Lookup(h, k)
  \/ Finish(h) \/ Die(h) \/ LosePost(h) \/ PostRelease(h) \/ LoseRelease(h)

VerifierStep(v) == FetchServable(v) \/ Verdict(v) \/ VerifyEvict(v) \/ VerifyAppend(v)

DaemonNext ==
  \/ \E h \in Calls : HandlerStep(h) \/ ClientStep(h) \/ Expire(h) \/ RecordFails(h)
  \/ \E v \in Verifiers : VerifierStep(v)
  \/ DaemonCrash
  \/ Starting

DaemonSpec == DaemonInit /\ [][DaemonNext]_daemonVars

(* Handlers are goroutines the Go scheduler runs, timers fire, a daemon    *)
(* that starts finishes its scan, and a wrapper ends: hindsight record     *)
(* kills its command after 30 minutes.  Nothing makes an agent issue a     *)
(* command, and nothing makes a failure happen or not happen.              *)
DaemonFairness ==
  /\ \A h \in Calls : WF_daemonVars(HandlerStep(h)) /\ WF_daemonVars(Expire(h))
                     /\ WF_daemonVars(Finish(h) \/ PostRelease(h))
  /\ WF_daemonVars(Starting)

DaemonFairSpec == DaemonSpec /\ DaemonFairness

-----------------------------------------------------------------------------
(* Properties.                                                             *)

(* The shape of the daemon's maps and of the calls: a call holds a channel *)
(* when it waits on it or is to close it, a record when it is to serve or  *)
(* to append it, and the record it appends is of its own key.              *)
CallOK(c) ==
  /\ c.pc = "idle" \/ c.key \in Keys
  /\ c.chan # NoChan <=> c.pc \in {"wait", "expired", "close"}
  /\ c.pc \in {"serve", "record", "mark"} => c.rec # NoRecord
  /\ c.rec # NoRecord => c.pc \in {"serve", "woken"} \cup RecordPCs
  /\ c.pc \in RecordPCs /\ c.rec # NoRecord => c.rec \in Lines /\ c.rec.key = c.key
DaemonTypeOK ==
  /\ StoreTypeOK
  /\ leases \in [Keys -> Chans \cup {NoChan}]
  /\ unservable \subseteq Keys
  /\ expired \subseteq Chans
  /\ call \in [Calls -> CallState]
  /\ \A h \in Calls : CallOK(call[h])
  /\ ver \in [Verifiers -> VerifierState]
  /\ \A v \in Verifiers : ver[v].pc = "idle" \/ ver[v].key \in Keys

(* No done channel is closed twice, which would panic the daemon: a channel *)
(* about to be closed belongs to no lease, to no other closer, and was not *)
(* abandoned by a timeout.  release deletes under the mutex and closes     *)
(* after it; two releases of one key race between the two.                 *)
ClosedOnce ==
  /\ \A j, k \in Keys : j # k /\ leases[j] # NoChan => leases[j] # leases[k]
  /\ \A g \in Calls : At(g, "close") =>
       /\ \A k \in Keys : leases[k] # call[g].chan
       /\ \A h \in Calls : h # g /\ At(h, "close") => call[h].chan # call[g].chan
       /\ call[g].chan \notin expired

(* No wakeup is lost: a blocked lookup waits on the lease of its key, or   *)
(* the channel it waits on is about to be closed, or a peer's timeout      *)
(* removed that lease, and then its own timer is what is left.             *)
WaiterCanWake ==
  \A h \in Calls : At(h, "wait") =>
    \/ leases[call[h].key] = call[h].chan
    \/ \E g \in Calls : At(g, "close") /\ call[g].chan = call[h].chan
    \/ call[h].chan \in expired

(* A HIT, whatever path it takes (exact, scoped or woken by a peer), is a  *)
(* record that passed the purity gate, of the key asked for or of one the  *)
(* tree difference promotes, and its own key is servable when it is chosen: *)
(* a record evicted by shadow verification does not come back through      *)
(* scoping.  It is only given to a request that asked to be served.        *)
ChosenToServe(h) == ~At(h, "serve") /\ At(h, "serve")'
Legitimate(h) ==
  LET r == call'[h].rec IN
  /\ call[h].serve /\ call[h].key \notin RecordOnly
  /\ r.servable /\ servable[r.key] # NoRecord
  /\ r.key = call[h].key \/ <<r.key, r.out, call[h].key>> \in Promotes
HitIsLegitimate == [][\A h \in Calls : ChosenToServe(h) => Legitimate(h)]_daemonVars

(* Whoever waits for a result finds it: from the moment a servable record  *)
(* is appended until the last lookup woken by its poster has looked, the   *)
(* key that lookup asked for is in the index, unless shadow verification   *)
(* evicted it in between.  The poster closes the channel of the lease it   *)
(* finds under its key, whoever took it, and channels are reused.          *)
Waking(c) ==
  c.pc \in {"mark", "release", "close", "woken"} /\ c.rec # NoRecord /\ c.rec.servable
ResultBeforeWake ==
  \A h \in Calls : Waking(call[h]) =>
    servable[call[h].key] # NoRecord \/ call[h].key \in evicted

(* One wave can pay for an unservable key, no wave after it: once a key is *)
(* known unservable, a lookup still blocked on it is about to be released, *)
(* so nobody blocks on a lease taken later.                                *)
KnownUnservableDrains ==
  \A h \in Calls :
    At(h, "wait") /\ call[h].key \in unservable /\ call[h].chan \notin expired =>
      \E g \in Calls : \/ At(g, "release") /\ call[g].key = call[h].key
                       \/ At(g, "close") /\ call[g].chan = call[h].chan

(* Without failures every lease has a call that will release it: the one   *)
(* that took it is executing or recording.                                 *)
LeaseIsClaimed ==
  Faults \subseteq {"expire"} =>
    \A k \in Keys : leases[k] # NoChan =>
      \E h \in Calls : call[h].key = k /\ call[h].pc \in {"run", "record", "mark", "release"}

(* Every lookup is answered, whatever happens to the wrapper it waits for. *)
LookupAnswered ==
  \A h \in Calls : call[h].pc \in LookupPCs ~> call[h].pc \notin LookupPCs

(* Handlers that interleave are still one step each to their callers: a    *)
(* HIT is a record that was in the index at some moment of the call, a MISS *)
(* means that at some moment there was none, a result that was posted is in *)
(* the index whole or not at all, and a restart brings back what was put   *)
(* there, less what a torn write spoiled, and nothing else.                *)
Stage(pc) ==
  CASE pc = "lookup" -> "asked"
    [] pc \in LookupPCs \ {"lookup", "serve"} -> "none"
    [] pc = "serve" -> "hit"
    [] pc = "sorry" -> "run"
    [] pc = "record" -> "post"
    [] pc \in {"mark", "release", "close"} -> "done"
    [] OTHER -> pc
Told(c) == [st |-> Stage(c.pc), key |-> c.key, wants |-> c.serve,
            rec |-> IF c.pc \in {"serve", "record"} THEN c.rec ELSE NoRecord]
Kept == {log[i] : i \in 1 .. Len(log)}
Svc == INSTANCE Service WITH
  Callers <- Calls, Records <- {r \in Record : r.key \in Keys},
  Tears <- "full" \in Faults, up <- phase = "open", index <- servable,
  kept <- Kept, asks <- [h \in Calls |-> Told(call[h])]
ServiceSpec == Svc!SvcSpec

(* Single-flight: of the lookups of one key that ask to be served, one is  *)
(* executing at a time, unless the key is known to be unservable.  It does *)
(* not hold: waitForPeer and acquire are two critical sections.            *)
SingleFlight ==
  \A k \in Keys \ unservable : \A g, h \in Calls :
    (\A c \in {g, h} : At(c, "run") /\ call[c].key = k /\ call[c].serve) => g = h
=============================================================================
