----------------------------- MODULE GateProofs -----------------------------
(* Theorems about the purity gate and about shadow verification: for any   *)
(* workspace, any number of commands and any edits, what is cached was     *)
(* computed from the state its key names.                                  *)
EXTENDS Gate, TLAPS

(* The types alone, without what GateTypeOK says of the cache.             *)
Typed ==
  /\ ws \in [Parts -> Contents]
  /\ cache \subseteq RecordSet
  /\ call \in [Calls -> CallSet]
  /\ ver \in VerSet

LEMMA NothingTyped ==
  /\ Nothing \in Snapshot /\ NoCall \in CallSet
  /\ NoJudged \in RecordSet /\ NoVerifier \in VerSet
<1>1. Nothing \in Snapshot
  BY DEF Nothing, Snapshot
<1>2. NoCall \in CallSet
  BY <1>1 DEF NoCall, CallSet, Dirs
<1>3. NoJudged \in RecordSet
  BY <1>1 DEF NoJudged, RecordSet, Dirs
<1>4. NoVerifier \in VerSet
  BY <1>1, <1>3 DEF NoVerifier, VerSet
<1> QED BY <1>1, <1>2, <1>3, <1>4

LEMMA TypedStep ==
  ASSUME Typed, [GateNext]_gateVars
  PROVE  Typed'
<1> USE NothingTyped DEF Typed
<1>1. ASSUME NEW s \in Snapshot, NEW p \in Parts
      PROVE  [s EXCEPT ![p] = ws[p]] \in Snapshot
  BY <1>1 DEF Snapshot
<1>2. ASSUME NEW c \in Calls, CallStep(c) PROVE Typed'
  <2>1. call[c] \in CallSet /\ call[c].before \in Snapshot /\ call[c].saw \in Snapshot
        /\ call[c].after \in Snapshot
    BY DEF CallSet
  <2>2. CASE Intercept(c)
    <3>1. PICK d \in Dirs, s \in BOOLEAN : call' =
            [call EXCEPT ![c] = [NoCall EXCEPT !.pc = "hash", !.dir = d, !.serve = s]]
      BY <2>2 DEF Intercept
    <3>2. [NoCall EXCEPT !.pc = "hash", !.dir = d, !.serve = s] \in CallSet
      BY DEF CallSet
    <3>3. UNCHANGED <<ws, cache, ver>>
      BY <2>2 DEF Intercept
    <3> QED BY <3>1, <3>2, <3>3
  <2>3. CASE Hash(c)
    <3>1. PICK p \in Parts : call' =
            [call EXCEPT ![c].before[p] = ws[p],
                         ![c].pc = IF Complete([call[c].before EXCEPT ![p] = ws[p]])
                                   THEN "ask" ELSE "hash"]
      BY <2>3 DEF Hash
    <3>2. [call[c].before EXCEPT ![p] = ws[p]] \in Snapshot
      BY <1>1, <2>1
    <3> QED BY <2>1, <2>3, <3>1, <3>2 DEF Hash, CallSet
  <2>4. CASE PassThrough(c) \/ Hit(c) \/ Unservable(c)
    BY <2>4 DEF PassThrough, Hit, Unservable, Leaves
  <2>5. CASE End(c) \/ PurityGate(c)
    BY <2>1, <2>5 DEF End, PurityGate, CallSet
  <2>9. CASE Miss(c)
    <3>1. PICK s \in BOOLEAN : s = (~call[c].restored /\ ws = call[c].before)
      OBVIOUS
    <3>2. [call[c] EXCEPT !.pc = "run", !.stood = s] \in CallSet
      BY <2>1 DEF CallSet
    <3>3. [call[c] EXCEPT !.pc = "run",
                          !.stood = (~call[c].restored /\ ws = call[c].before)] \in CallSet
      BY <3>1, <3>2, Zenon
    <3> QED BY <2>9, <3>3 DEF Miss
  <2>6. CASE Read(c)
    <3>1. PICK p \in Parts : call' = [call EXCEPT ![c].saw[p] = ws[p]]
      BY <2>6 DEF Read
    <3>2. [call[c].saw EXCEPT ![p] = ws[p]] \in Snapshot
      BY <1>1, <2>1
    <3> QED BY <2>1, <2>6, <3>1, <3>2 DEF Read, CallSet
  <2>7. CASE Rehash(c)
    <3>1. PICK p \in Parts : call' = [call EXCEPT ![c].after[p] = ws[p]]
      BY <2>7 DEF Rehash
    <3>2. [call[c].after EXCEPT ![p] = ws[p]] \in Snapshot
      BY <1>1, <2>1
    <3> QED BY <2>1, <2>7, <3>1, <3>2 DEF Rehash, CallSet
  <2>8. CASE Post(c)
    <3>1. Wrapped(c) \in RecordSet
      BY <2>1 DEF Wrapped, RecordSet, CallSet
    <3> QED BY <2>8, <3>1 DEF Post, Leaves
  <2> QED BY <1>2, <2>2, <2>3, <2>4, <2>5, <2>6, <2>7, <2>8, <2>9 DEF CallStep
<1>3. ASSUME VerifyStep PROVE Typed'
  <2>1. ver \in VerSet /\ ver.now \in Snapshot /\ ver.saw \in Snapshot
    BY DEF VerSet
  <2>2. CASE VerifyBegin
    BY <2>2 DEF VerifyBegin, VerSet, NoVerifier
  <2>3. CASE VerifyHash
    <3>1. PICK p \in Parts : ver' = [ver EXCEPT !.now[p] = ws[p]]
      BY <2>3 DEF VerifyHash
    <3>2. [ver.now EXCEPT ![p] = ws[p]] \in Snapshot
      BY <1>1, <2>1
    <3> QED BY <2>1, <2>3, <3>1, <3>2 DEF VerifyHash, VerSet
  <2>4. CASE VerifyFetch
    BY <2>1, <2>4 DEF VerifyFetch, VerSet
  <2>5. CASE VerifyPick
    BY <2>1, <2>5 DEF VerifyPick, VerSet
  <2>6. CASE VerifyRead
    <3>1. PICK p \in Parts : ver' = [ver EXCEPT !.saw[p] = ws[p]]
      BY <2>6 DEF VerifyRead
    <3>2. [ver.saw EXCEPT ![p] = ws[p]] \in Snapshot
      BY <1>1, <2>1
    <3> QED BY <2>1, <2>6, <3>1, <3>2 DEF VerifyRead, VerSet
  <2>7. CASE VerifyVerdict \/ VerifyGivesUp \/ VerdictLost
    BY <2>1, <2>7 DEF VerifyVerdict, VerifyGivesUp, VerdictLost, Judges, VerSet
  <2>8. CASE VerifySpoilt
    BY <2>1, <2>8 DEF VerifySpoilt, VerSet
  <2>9. CASE VerifyCutShort
    BY <2>1, <2>9 DEF VerifyCutShort, VerSet
  <2> QED BY <1>3, <2>2, <2>3, <2>4, <2>5, <2>6, <2>7, <2>8, <2>9 DEF VerifyStep
<1>4. ASSUME Edit PROVE Typed'
  <2>1. ws' \in [Parts -> Contents] /\ cache' = cache
    BY <1>4 DEF Edit
  <2>2. call' \in [Calls -> CallSet]
    <3>1. ASSUME NEW c \in Calls, NEW r, NEW s PROVE
            [call[c] EXCEPT !.restored = @ \/ r, !.stood = @ /\ s] \in CallSet
      <4>1. PICK x \in BOOLEAN, y \in BOOLEAN :
              x = (call[c].restored \/ r) /\ y = (call[c].stood /\ s)
        OBVIOUS
      <4>2. [call[c] EXCEPT !.restored = x, !.stood = y] \in CallSet
        BY DEF CallSet
      <4> QED BY <4>1, <4>2, Zenon
    <3>2. PICK p \in Parts, v \in Contents : call' =
            [c \in Calls |->
               IF At(c, "idle") THEN call[c]
               ELSE [call[c] EXCEPT !.restored = @ \/ v < ws[p],
                                    !.stood = @ /\ ~At(c, "run") /\ v > ws[p]]]
      BY <1>4, Zenon DEF Edit
    <3> DEFINE n(c) == [call[c] EXCEPT !.restored = @ \/ v < ws[p],
                                       !.stood = @ /\ ~At(c, "run") /\ v > ws[p]]
    <3>3. \A c \in Calls : n(c) \in CallSet
      BY <3>1, Zenon
    <3>4. call' = [c \in Calls |-> IF At(c, "idle") THEN call[c] ELSE n(c)]
      BY <3>2, Zenon
    <3> HIDE DEF n
    <3> QED BY <3>3, <3>4
  <2>3. ver' \in VerSet
    BY <1>4 DEF Edit, VerSet
  <2> QED BY <2>1, <2>2, <2>3
<1>5. CASE UNCHANGED gateVars
  BY <1>5 DEF gateVars
<1> QED BY <1>2, <1>3, <1>4, <1>5 DEF GateNext

LEMMA GateTyped == GateSpec => []Typed
<1>1. GateInit => Typed
  BY NothingTyped, GateAssumption DEF GateInit, Typed, Contents
<1>2. Typed /\ [GateNext]_gateVars => Typed'
  BY TypedStep
<1> QED BY <1>1, <1>2, PTL DEF GateSpec

-----------------------------------------------------------------------------
(* The inductive invariant.                                                *)

(* A part's content only grows while nothing is restored, so the three     *)
(* readings of it are in the order in which they were made.                *)
Ordered(k) ==
  \A p \in Parts :
    /\ k.before[p] # Unread => k.before[p] <= ws[p]
    /\ k.saw[p] # Unread =>
         k.before[p] # Unread /\ k.before[p] <= k.saw[p] /\ k.saw[p] <= ws[p]
    /\ k.after[p] # Unread =>
         k.saw[p] # Unread /\ k.saw[p] <= k.after[p] /\ k.after[p] <= ws[p]

(* A command whose start or run the workspace moved under left a part      *)
(* beyond its first reading, where the second reading is or will be too.   *)
Drifts(k) ==
  k.pc \in {"run", "rehash", "post"} /\ ~k.stood =>
    \E p \in Parts : /\ k.after[p] = Unread => k.before[p] < ws[p]
                     /\ k.after[p] # Unread => k.before[p] < k.after[p]

Phases(k) ==
  /\ k.pc = "idle" => k = NoCall
  /\ k.pc \in {"hash", "ask", "run"} => k.after = Nothing
  /\ k.pc \in {"ask", "run", "rehash", "post"} => Complete(k.before)
  /\ k.pc \in {"rehash", "post"} => Complete(k.saw)
  /\ k.pc = "post" => k.after = k.before

CallInv(c) ==
  Phases(call[c]) /\ (call[c].restored \/ (Ordered(call[c]) /\ Drifts(call[c])))

CacheInv ==
  /\ \A r, s \in cache : SameKey(r, s) => r = s
  /\ \A r \in cache : Complete(r.key) /\ Complete(r.saw)
  /\ CachedIsOfItsKey

(* Until the workspace moves, what the verifier has read is what it is.    *)
VerInv ==
  /\ ver.pc = "idle" => ver = NoVerifier
  /\ ver.moved \/ /\ \A p \in Parts : ver.now[p] \in {Unread, ws[p]}
                  /\ \A p \in Parts : ver.saw[p] \in {Unread, ws[p]}
                  /\ \A r \in ver.list : r.key = ws
                  /\ ver.pc = "run" => ver.rec.key = ws

GateInv == Typed /\ (\A c \in Calls : CallInv(c)) /\ CacheInv /\ VerInv

(* A call that does not run is in order.                                   *)
LEMMA NoCallInOrder == Phases(NoCall) /\ Ordered(NoCall) /\ Drifts(NoCall)
  BY DEF Phases, Ordered, Drifts, NoCall, Nothing, Complete

(* What the other calls and the workspace do not touch stays in order.     *)
LEMMA OtherCalls ==
  ASSUME NEW c \in Calls, Typed, \A d \in Calls : CallInv(d),
         ws' = ws, NEW k \in CallSet, call' = [call EXCEPT ![c] = k],
         Phases(k), k.restored \/ (Ordered(k) /\ Drifts(k))
  PROVE  \A d \in Calls : CallInv(d)'
<1> SUFFICES ASSUME NEW d \in Calls PROVE CallInv(d)'
  OBVIOUS
<1>1. CASE d = c
  <2>1. call'[d] = k
    BY <1>1 DEF Typed
  <2> QED BY <2>1 DEF CallInv, Ordered, Drifts, Phases, Complete
<1>2. CASE d # c
  <2>1. call'[d] = call[d]
    BY <1>2 DEF Typed
  <2> QED BY <2>1 DEF CallInv, Ordered, Drifts, Phases, Complete
<1> QED BY <1>1, <1>2

(* What PurityGate lets through was computed from its key.                 *)
LEMMA PostedIsOfItsKey ==
  ASSUME NEW c \in Calls, Typed, CallInv(c), At(c, "post")
  PROVE  /\ Complete(Wrapped(c).key) /\ Complete(Wrapped(c).saw)
         /\ Wrapped(c).restored \/ (Wrapped(c).saw = Wrapped(c).key /\ Wrapped(c).stood)
<1>1. call[c] \in CallSet
  BY DEF Typed
<1>2. /\ Complete(call[c].before) /\ Complete(call[c].saw)
      /\ call[c].after = call[c].before
  BY DEF At, CallInv, Phases
<1>3. CASE ~call[c].restored
  <2>1. call[c].before \in Snapshot /\ call[c].saw \in Snapshot
    BY <1>1 DEF CallSet
  <2>2. \A p \in Parts : call[c].before[p] <= call[c].saw[p]
                        /\ call[c].saw[p] <= call[c].before[p]
    BY <1>2, <1>3 DEF CallInv, Ordered, Complete
  <2>3. \A p \in Parts : call[c].before[p] \in Nat /\ call[c].saw[p] \in Nat
    BY <1>2, <2>1 DEF Snapshot, Contents, Complete
  <2>4. \A p \in Parts : call[c].before[p] = call[c].saw[p]
    BY <2>2, <2>3
  <2>5. call[c].before = call[c].saw
    BY <2>1, <2>4 DEF Snapshot
  <2>6. call[c].stood
    <3>1. \A p \in Parts : ~(call[c].before[p] < call[c].before[p])
      BY <2>3
    <3> QED BY <1>2, <1>3, <3>1 DEF CallInv, Drifts, At, Complete
  <2> QED BY <1>2, <2>5, <2>6 DEF Wrapped
<1> QED BY <1>2, <1>3 DEF Wrapped

-----------------------------------------------------------------------------
(* The calls.                                                              *)

LEMMA CallsStep ==
  ASSUME GateInv, NEW c \in Calls, CallStep(c)
  PROVE  (\A d \in Calls : CallInv(d)') /\ CacheInv'
<1> USE NothingTyped DEF GateInv
<1> DEFINE k == call[c]
<1>1. /\ k \in CallSet /\ k.before \in Snapshot /\ k.saw \in Snapshot /\ k.after \in Snapshot
      /\ Phases(k) /\ (k.restored \/ (Ordered(k) /\ Drifts(k)))
  BY DEF Typed, CallSet, CallInv
<1>2. ws' = ws
  BY DEF CallStep, Intercept, Hash, PassThrough, Hit, Miss, Read, End, Rehash,
         PurityGate, Unservable, Post
<1>3. \A p \in Parts : ws[p] \in Nat
  BY DEF Typed, Contents
<1>4. ASSUME NEW s \in Snapshot, NEW p \in Parts
      PROVE  [s EXCEPT ![p] = ws[p]] \in Snapshot
  BY DEF Snapshot, Typed
<1>5. ASSUME NEW n \in CallSet, call' = [call EXCEPT ![c] = n],
             Phases(n), n.restored \/ (Ordered(n) /\ Drifts(n))
      PROVE  \A d \in Calls : CallInv(d)'
  BY <1>2, <1>5, OtherCalls
<1>6. ASSUME cache' = cache PROVE CacheInv'
  BY <1>6 DEF CacheInv, CachedIsOfItsKey
<1>7. CASE Intercept(c)
  <2>1. PICK d \in Dirs, s \in BOOLEAN : call' =
          [call EXCEPT ![c] = [NoCall EXCEPT !.pc = "hash", !.dir = d, !.serve = s]]
    BY <1>7 DEF Intercept
  <2> DEFINE n == [NoCall EXCEPT !.pc = "hash", !.dir = d, !.serve = s]
  <2>2. n \in CallSet
    BY DEF CallSet
  <2>3. Phases(n) /\ Ordered(n) /\ Drifts(n)
    BY DEF Phases, Ordered, Drifts, NoCall, Nothing
  <2> QED BY <1>5, <1>6, <1>7, <2>1, <2>2, <2>3 DEF Intercept
<1>8. CASE Hash(c)
  <2>1. PICK p \in Parts :
          /\ k.before[p] = Unread
          /\ call' = [call EXCEPT ![c].before[p] = ws[p],
                                  ![c].pc = IF Complete([k.before EXCEPT ![p] = ws[p]])
                                            THEN "ask" ELSE "hash"]
    BY <1>8 DEF Hash
  <2> DEFINE b == [k.before EXCEPT ![p] = ws[p]]
             n == [k EXCEPT !.before = b, !.pc = IF Complete(b) THEN "ask" ELSE "hash"]
  <2>2. b \in Snapshot
    BY <1>1, <1>4
  <2>3. n \in CallSet /\ call' = [call EXCEPT ![c] = n]
    BY <1>1, <2>1, <2>2 DEF CallSet, Typed
  <2>4. Phases(n)
    BY <1>1, <1>8 DEF Phases, Hash, At, CallSet
  <2>5. n.restored \/ (Ordered(n) /\ Drifts(n))
    <3> SUFFICES ASSUME ~n.restored PROVE Ordered(n)
      BY <1>1 DEF Drifts, CallSet
    <3>1. Ordered(k)
      BY <1>1 DEF CallSet
    <3>2. /\ b \in [Parts -> Contents \cup {Unread}] /\ b[p] = ws[p]
          /\ \A q \in Parts \ {p} : b[q] = k.before[q]
      BY <1>1, <2>2 DEF Snapshot
    <3>3. n.before = b /\ n.saw = k.saw /\ n.after = k.after
      BY <1>1 DEF CallSet
    <3>4. k.saw[p] = Unread /\ k.after[p] = Unread
      BY <2>1, <3>1 DEF Ordered
    <3>5. ws[p] <= ws[p]
      BY <1>3
    <3> QED BY <3>1, <3>2, <3>3, <3>4, <3>5 DEF Ordered
  <2> QED BY <1>5, <1>6, <1>8, <2>3, <2>4, <2>5 DEF Hash
<1>9. CASE PassThrough(c) \/ Hit(c) \/ Unservable(c)
  BY <1>5, <1>6, <1>9, NoCallInOrder DEF PassThrough, Hit, Unservable, Leaves
<1>10. ASSUME NEW pc \in {"rehash", "post"}, k.pc \in {"run", "rehash"}, call' = [call EXCEPT ![c].pc = pc],
              cache' = cache, Phases([k EXCEPT !.pc = pc])
       PROVE  (\A d \in Calls : CallInv(d)') /\ CacheInv'
  <2> DEFINE n == [k EXCEPT !.pc = pc]
  <2>1. n \in CallSet /\ call' = [call EXCEPT ![c] = n]
    BY <1>1, <1>10 DEF CallSet, Typed
  <2>2. n.restored \/ (Ordered(n) /\ Drifts(n))
    BY <1>1, <1>10 DEF Ordered, Drifts, CallSet
  <2> QED BY <1>5, <1>6, <1>10, <2>1, <2>2
<1>11. CASE Miss(c)
  <2>1. PICK s \in BOOLEAN : s = (~k.restored /\ ws = k.before)
    OBVIOUS
  <2> DEFINE n == [k EXCEPT !.pc = "run", !.stood = s]
  <2>2. call' = [call EXCEPT ![c] = n] /\ UNCHANGED <<ws, cache, ver>>
    <3>1. call' = [call EXCEPT ![c] = [k EXCEPT !.pc = "run",
                                                !.stood = (~k.restored /\ ws = k.before)]]
      BY <1>11 DEF Miss, Typed
    <3>2. UNCHANGED <<ws, cache, ver>>
      BY <1>11 DEF Miss
    <3> QED BY <2>1, <3>1, <3>2, Zenon
  <2>3. /\ n \in CallSet /\ n.pc = "run" /\ n.stood = s /\ n.restored = k.restored
        /\ n.before = k.before /\ n.saw = k.saw /\ n.after = k.after
    BY <1>1 DEF CallSet
  <2> HIDE DEF n
  <2>4. k.pc = "ask" /\ Complete(k.before) /\ k.after = Nothing
    BY <1>1, <1>11 DEF Miss, At, Phases
  <2>5. Phases(n)
    BY <2>3, <2>4 DEF Phases, Complete
  <2>6. ASSUME ~n.restored, ~n.stood PROVE \E p \in Parts : k.before[p] < ws[p]
    <3>1. ws # k.before /\ Ordered(k)
      BY <1>1, <2>1, <2>3, <2>6
    <3>2. PICK p \in Parts : ws[p] # k.before[p]
      BY <1>1, <3>1 DEF Typed, Snapshot
    <3>3. k.before[p] \in Nat /\ k.before[p] <= ws[p]
      BY <1>1, <2>4, <3>1 DEF Snapshot, Contents, Complete, Ordered
    <3> QED BY <1>3, <3>2, <3>3
  <2>7. n.restored \/ (Ordered(n) /\ Drifts(n))
    BY <1>1, <2>3, <2>4, <2>6 DEF Ordered, Drifts, Nothing
  <2> QED BY <1>5, <1>6, <2>2, <2>3, <2>5, <2>7
<1>12. CASE Read(c)
  <2>1. PICK p \in Parts : k.saw[p] = Unread /\ call' = [call EXCEPT ![c].saw[p] = ws[p]]
    BY <1>12 DEF Read
  <2> DEFINE b == [k.saw EXCEPT ![p] = ws[p]]
             n == [k EXCEPT !.saw = b]
  <2>2. b \in Snapshot
    BY <1>1, <1>4
  <2>3. n \in CallSet /\ call' = [call EXCEPT ![c] = n]
    BY <1>1, <2>1, <2>2 DEF CallSet, Typed
  <2>4. Phases(n)
    BY <1>1, <1>12 DEF Phases, Read, At, CallSet
  <2>5. n.restored \/ (Ordered(n) /\ Drifts(n))
    <3> SUFFICES ASSUME ~n.restored PROVE Ordered(n)
      BY <1>1 DEF Drifts, CallSet
    <3>1. Ordered(k) /\ Complete(k.before)
      BY <1>1, <1>12 DEF CallSet, Phases, Read, At
    <3>2. /\ b \in [Parts -> Contents \cup {Unread}] /\ b[p] = ws[p]
          /\ \A q \in Parts \ {p} : b[q] = k.saw[q]
      BY <1>1, <2>2 DEF Snapshot
    <3>3. n.before = k.before /\ n.saw = b /\ n.after = k.after
      BY <1>1 DEF CallSet
    <3>4. k.after[p] = Unread /\ k.before[p] # Unread /\ k.before[p] <= ws[p]
      BY <2>1, <3>1 DEF Ordered, Complete
    <3>5. ws[p] <= ws[p]
      BY <1>3
    <3> QED BY <3>1, <3>2, <3>3, <3>4, <3>5 DEF Ordered
  <2> QED BY <1>5, <1>6, <1>12, <2>3, <2>4, <2>5 DEF Read
<1>13. CASE End(c)
  <2>1. Phases([k EXCEPT !.pc = "rehash"])
    BY <1>1, <1>13 DEF Phases, End, At, CallSet
  <2> QED BY <1>10, <1>13, <2>1 DEF End, At
<1>14. CASE Rehash(c)
  <2>1. PICK p \in Parts : k.after[p] = Unread /\ call' = [call EXCEPT ![c].after[p] = ws[p]]
    BY <1>14 DEF Rehash
  <2> DEFINE b == [k.after EXCEPT ![p] = ws[p]]
             n == [k EXCEPT !.after = b]
  <2>2. b \in Snapshot
    BY <1>1, <1>4
  <2>3. n \in CallSet /\ call' = [call EXCEPT ![c] = n]
    BY <1>1, <2>1, <2>2 DEF CallSet, Typed
  <2>4. Phases(n)
    BY <1>1, <1>14 DEF Phases, Rehash, At, CallSet
  <2>5. n.restored \/ (Ordered(n) /\ Drifts(n))
    <3> SUFFICES ASSUME ~n.restored PROVE Ordered(n) /\ Drifts(n)
      OBVIOUS
    <3>1. Ordered(k) /\ Complete(k.saw)
      BY <1>1, <1>14 DEF CallSet, Phases, Rehash, At
    <3>2. /\ b \in [Parts -> Contents \cup {Unread}] /\ b[p] = ws[p]
          /\ \A q \in Parts \ {p} : b[q] = k.after[q]
      BY <1>1, <2>2 DEF Snapshot
    <3>3. n.before = k.before /\ n.saw = k.saw /\ n.after = b
      BY <1>1 DEF CallSet
    <3>4. k.saw[p] # Unread /\ k.saw[p] <= ws[p]
      BY <3>1 DEF Ordered, Complete
    <3>5. ws[p] <= ws[p]
      BY <1>3
    <3>6. Ordered(n)
      BY <3>1, <3>2, <3>3, <3>4, <3>5 DEF Ordered
    <3>7. Drifts(n)
      <4>1. Drifts(k) /\ n.pc = k.pc /\ n.stood = k.stood
        BY <1>1 DEF CallSet
      <4>2. ws[p] # Unread
        BY <1>3, GateAssumption
      <4> QED BY <2>1, <3>2, <3>3, <4>1, <4>2 DEF Drifts
    <3> QED BY <3>6, <3>7
  <2> QED BY <1>5, <1>6, <1>14, <2>3, <2>4, <2>5 DEF Rehash
<1>15. CASE PurityGate(c)
  <2>1. Phases([k EXCEPT !.pc = "post"])
    BY <1>1, <1>15 DEF Phases, PurityGate, At, CallSet
  <2> QED BY <1>10, <1>15, <2>1 DEF PurityGate, At
<1>16. CASE Post(c)
  <2>1. /\ Complete(Wrapped(c).key) /\ Complete(Wrapped(c).saw)
        /\ Wrapped(c).restored \/ (Wrapped(c).saw = Wrapped(c).key /\ Wrapped(c).stood)
    BY <1>16, PostedIsOfItsKey DEF Post
  <2>2. cache' = {r \in cache : ~SameKey(r, Wrapped(c))} \cup {Wrapped(c)}
    BY <1>16 DEF Post
  <2>3. CacheInv'
    <3> DEFINE w == Wrapped(c)
    <3> HIDE DEF w
    <3>1. cache' = {r \in cache : ~SameKey(r, w)} \cup {w}
      BY <2>2 DEF w
    <3>2. \A r, s \in cache' : SameKey(r, s) => r = s
      BY <3>1 DEF CacheInv, SameKey
    <3>3. Complete(w.key) /\ Complete(w.saw) /\ (w.restored \/ (w.saw = w.key /\ w.stood))
      BY <2>1 DEF w
    <3>4. \A r \in cache' : /\ Complete(r.key) /\ Complete(r.saw)
                            /\ r.restored \/ (r.saw = r.key /\ r.stood)
      BY <3>1, <3>3 DEF CacheInv, CachedIsOfItsKey
    <3> QED BY <3>2, <3>4 DEF CacheInv, CachedIsOfItsKey, SameKey, Complete
  <2> QED BY <1>5, <1>16, <2>3, NoCallInOrder DEF Post, Leaves
<1> QED BY <1>7, <1>8, <1>9, <1>11, <1>12, <1>13, <1>14, <1>15, <1>16 DEF CallStep

-----------------------------------------------------------------------------
(* The verifier and the editor.                                            *)

LEMMA VerifierStep ==
  ASSUME GateInv, VerifyStep
  PROVE  VerInv' /\ CacheInv' /\ (\A c \in Calls : CallInv(c)')
<1> USE NothingTyped DEF GateInv
<1>1. UNCHANGED <<ws, call>>
  BY DEF VerifyStep, VerifyBegin, VerifyHash, VerifyFetch, VerifyPick, VerifySpoilt, VerifyRead,
         VerifyCutShort, VerifyVerdict, VerifyGivesUp, VerdictLost, Judges
<1>2. \A c \in Calls : CallInv(c)'
  BY <1>1 DEF CallInv, Phases, Ordered, Drifts, Complete
<1>3. CacheInv'
  <2>1. cache' \subseteq cache
    BY DEF VerifyStep, VerifyBegin, VerifyHash, VerifyFetch, VerifyPick, VerifySpoilt, VerifyRead,
           VerifyCutShort, VerifyVerdict, VerifyGivesUp, VerdictLost, Judges
  <2> QED BY <2>1 DEF CacheInv, CachedIsOfItsKey
<1>4. ver \in VerSet /\ ver.now \in Snapshot /\ ver.saw \in Snapshot
  BY DEF Typed, VerSet
<1>5. VerInv'
  <2>1. CASE VerifyBegin
    BY <1>1, <2>1 DEF VerifyBegin, VerInv, NoVerifier, Nothing
  <2>2. CASE VerifyHash
    <3>1. PICK p \in Parts : ver' = [ver EXCEPT !.now[p] = ws[p]]
      BY <2>2 DEF VerifyHash
    <3>2. /\ ver'.saw = ver.saw /\ ver'.list = ver.list /\ ver'.rec = ver.rec
          /\ ver'.moved = ver.moved /\ ver'.pc = "hash"
          /\ ver'.now = [ver.now EXCEPT ![p] = ws[p]]
      BY <1>4, <2>2, <3>1 DEF VerSet, VerifyHash
    <3>3. \A q \in Parts : ver'.now[q] \in {ver.now[q], ws[q]}
      BY <1>4, <3>2 DEF Snapshot
    <3> QED BY <1>1, <3>2, <3>3 DEF VerInv
  <2>3. CASE VerifyFetch
    <3>1. ver.moved \/ ver.now = ws
      BY <1>4, <2>3 DEF VerifyFetch, VerInv, Complete, Snapshot, Typed
    <3>2. /\ ver'.pc = "pick" /\ ver'.now = Nothing /\ ver'.saw = ver.saw
          /\ ver'.moved = ver.moved
          /\ ver'.list = {r \in cache : r.key = ver.now}
      BY <1>4, <2>3 DEF VerifyFetch, VerSet
    <3> QED BY <1>1, <2>3, <3>1, <3>2 DEF VerInv, VerifyFetch, Nothing
  <2>4. CASE VerifyPick
    <3>1. CASE ver' = NoVerifier
      BY <1>1, <3>1 DEF VerInv, NoVerifier, Nothing
    <3>2. CASE \E r \in ver.list : ver' =
                 [ver EXCEPT !.pc = "run", !.list = @ \ {r}, !.saw = Nothing, !.rec = r]
      BY <1>1, <1>4, <3>2 DEF VerInv, VerSet, Nothing
    <3> QED BY <2>4, <3>1, <3>2 DEF VerifyPick
  <2>5. CASE VerifyRead
    <3>1. PICK p \in Parts : ver' = [ver EXCEPT !.saw[p] = ws[p]]
      BY <2>5 DEF VerifyRead
    <3>2. /\ ver'.now = ver.now /\ ver'.list = ver.list /\ ver'.rec = ver.rec
          /\ ver'.moved = ver.moved /\ ver'.pc = "run" /\ ver.pc = "run"
          /\ ver'.saw = [ver.saw EXCEPT ![p] = ws[p]]
      BY <1>4, <2>5, <3>1 DEF VerSet, VerifyRead
    <3>3. \A q \in Parts : ver'.saw[q] \in {ver.saw[q], ws[q]}
      BY <1>4, <3>2 DEF Snapshot
    <3> QED BY <1>1, <3>2, <3>3 DEF VerInv
  <2>6. CASE VerifyVerdict \/ VerifyGivesUp \/ VerdictLost
    <3>1. ver' = [ver EXCEPT !.pc = "pick", !.saw = Nothing, !.rec = NoJudged]
      BY <2>6 DEF VerifyVerdict, VerifyGivesUp, VerdictLost, Judges
    <3>2. /\ ver'.pc = "pick" /\ ver'.saw = Nothing /\ ver'.now = ver.now
          /\ ver'.list = ver.list /\ ver'.moved = ver.moved
      BY <1>4, <3>1 DEF VerSet
    <3>3. ver.pc # "idle"
      BY <2>6 DEF VerifyVerdict, VerifyGivesUp, VerdictLost, Reexecuted, Unjudgeable
    <3> QED BY <1>1, <3>2, <3>3 DEF VerInv, Nothing
  <2>7. CASE VerifySpoilt
    BY <1>1, <1>4, <2>7 DEF VerifySpoilt, VerInv, VerSet, Nothing
  <2>8. CASE VerifyCutShort
    BY <1>1, <1>4, <2>8 DEF VerifyCutShort, VerInv, VerSet, Nothing
  <2> QED BY <2>1, <2>2, <2>3, <2>4, <2>5, <2>6, <2>7, <2>8 DEF VerifyStep
<1> QED BY <1>2, <1>3, <1>5

(* An edit that restores nothing only raises what the readings are below.  *)
LEMMA EditStep ==
  ASSUME GateInv, Edit
  PROVE  VerInv' /\ CacheInv' /\ (\A c \in Calls : CallInv(c)')
<1> USE NothingTyped DEF GateInv
<1>1. PICK p \in Parts, v \in Contents :
        /\ ws' = [ws EXCEPT ![p] = v]
        /\ call' = [c \in Calls |->
                      IF At(c, "idle") THEN call[c]
                      ELSE [call[c] EXCEPT !.restored = @ \/ v < ws[p],
                                           !.stood = @ /\ ~At(c, "run") /\ v > ws[p]]]
        /\ v # ws[p]
        /\ ver' = IF ver.pc = "idle" THEN ver ELSE [ver EXCEPT !.moved = TRUE]
        /\ UNCHANGED cache
  BY DEF Edit
<1>2. CacheInv'
  BY <1>1 DEF CacheInv, CachedIsOfItsKey
<1>3. VerInv'
  <2>1. CASE ver.pc = "idle"
    <3>1. ver' = NoVerifier
      BY <1>1, <2>1 DEF VerInv
    <3> QED BY <3>1 DEF VerInv, NoVerifier, Nothing
  <2>2. CASE ver.pc # "idle"
    <3>1. ver'.pc = ver.pc /\ ver'.moved
      BY <1>1, <2>2 DEF Typed, VerSet
    <3> QED BY <2>2, <3>1 DEF VerInv
  <2> QED BY <2>1, <2>2
<1>4. ASSUME NEW c \in Calls PROVE CallInv(c)'
  <2> DEFINE k == call[c]
  <2>1. /\ k \in CallSet /\ k.before \in Snapshot /\ k.saw \in Snapshot
        /\ k.after \in Snapshot /\ Phases(k)
        /\ k.restored \/ (Ordered(k) /\ Drifts(k))
    BY <1>4 DEF Typed, CallSet, CallInv
  <2>2. CASE At(c, "idle")
    <3>1. call'[c] = NoCall
      BY <1>1, <2>1, <2>2 DEF At, Phases
    <3> QED BY <3>1 DEF CallInv, Phases, Ordered, Drifts, NoCall, Nothing, Complete
  <2>3. CASE ~At(c, "idle")
    <3>2. PICK r \in BOOLEAN, s \in BOOLEAN :
            r = (k.restored \/ v < ws[p]) /\ s = (k.stood /\ ~At(c, "run") /\ v > ws[p])
      OBVIOUS
    <3> DEFINE n == [k EXCEPT !.restored = r, !.stood = s]
    <3>1. call'[c] = n
      <4>1. call'[c] = [k EXCEPT !.restored = (k.restored \/ v < ws[p]),
                                 !.stood = (k.stood /\ ~At(c, "run") /\ v > ws[p])]
        BY <1>1, <2>3
      <4> QED BY <3>2, <4>1, Zenon
    <3>3. /\ n.pc = k.pc /\ n.stood = s /\ n.restored = r
          /\ n.before = k.before /\ n.saw = k.saw /\ n.after = k.after
      BY <2>1 DEF CallSet
    <3> HIDE DEF n
    <3>4. Phases(n)
      BY <2>1, <2>3, <3>3 DEF Phases, At, Complete
    <3>5. CASE n.restored
      BY <3>1, <3>4, <3>5 DEF CallInv, Phases, Complete
    <3>6. CASE ~n.restored
      <4>1. v > ws[p] /\ Ordered(k) /\ Drifts(k)
        <5>1. v \in Nat /\ ws[p] \in Nat
          BY DEF Typed, Contents
        <5>2. v # ws[p] /\ ~(v < ws[p]) /\ ~k.restored
          BY <1>1, <3>2, <3>3, <3>6
        <5> QED BY <2>1, <5>1, <5>2
      <4>2. \A q \in Parts : ws[q] \in Nat /\ ws'[q] \in Nat /\ ws[q] <= ws'[q]
        <5>1. ws' = [ws EXCEPT ![p] = v]
          BY <1>1
        <5> QED BY <4>1, <5>1 DEF Typed, Contents
      <4>3. \A q \in Parts : /\ k.before[q] \in Nat \cup {Unread}
                            /\ k.saw[q] \in Nat \cup {Unread}
                            /\ k.after[q] \in Nat \cup {Unread}
        BY <2>1 DEF Snapshot, Contents
      <4>4. \A q \in Parts : \A x \in Nat : (x <= ws[q] => x <= ws'[q]) /\ (x < ws[q] => x < ws'[q])
        BY <4>2
      <4>5. \A q \in Parts :
              /\ n.before[q] # Unread => n.before[q] <= ws'[q]
              /\ n.saw[q] # Unread =>
                   n.before[q] # Unread /\ n.before[q] <= n.saw[q] /\ n.saw[q] <= ws'[q]
              /\ n.after[q] # Unread =>
                   n.saw[q] # Unread /\ n.saw[q] <= n.after[q] /\ n.after[q] <= ws'[q]
        BY <3>3, <4>1, <4>3, <4>4 DEF Ordered
      <4>6. ASSUME n.pc \in {"run", "rehash", "post"}, ~n.stood
            PROVE  \E q \in Parts : /\ n.after[q] = Unread => n.before[q] < ws'[q]
                                    /\ n.after[q] # Unread => n.before[q] < n.after[q]
        <5>1. \A q \in Parts : k.before[q] \in Nat
          BY <2>1, <3>3, <4>3, <4>6 DEF Phases, Complete
        <5>2. CASE ~k.stood
          BY <3>3, <4>1, <4>4, <4>6, <5>1, <5>2 DEF Drifts
        <5>3. CASE k.stood
          <6>1. At(c, "run") /\ k.after = Nothing
            BY <2>1, <3>2, <3>3, <4>1, <4>6, <5>3 DEF Phases, At
          <6>2. k.before[p] <= ws[p] /\ ws'[p] = v
            BY <1>1, <2>1, <3>3, <4>1, <4>6 DEF Ordered, Phases, Complete, Typed
          <6>3. k.before[p] < ws'[p]
            BY <4>1, <4>2, <5>1, <6>2
          <6> QED BY <3>3, <6>1, <6>3 DEF Nothing
        <5> QED BY <5>2, <5>3
      <4> QED BY <3>1, <3>4, <4>5, <4>6 DEF CallInv, Ordered, Drifts, Phases, Complete
    <3> QED BY <3>5, <3>6
  <2> QED BY <2>2, <2>3
<1> QED BY <1>2, <1>3, <1>4

-----------------------------------------------------------------------------
(* The theorems.                                                           *)

(* The inductive invariant of the gate.                                    *)
THEOREM GateInvariant == GateSpec => []GateInv
<1>1. GateInit => GateInv
  <2> SUFFICES ASSUME GateInit PROVE GateInv
    OBVIOUS
  <2>1. Typed
    BY NothingTyped, GateAssumption DEF GateInit, Typed, Contents
  <2>2. \A c \in Calls : CallInv(c)
    BY NoCallInOrder DEF GateInit, CallInv
  <2>3. CacheInv
    BY DEF GateInit, CacheInv, CachedIsOfItsKey
  <2>4. VerInv
    BY DEF GateInit, VerInv, NoVerifier, Nothing
  <2> QED BY <2>1, <2>2, <2>3, <2>4 DEF GateInv
<1>2. GateInv /\ [GateNext]_gateVars => GateInv'
  <2> SUFFICES ASSUME GateInv, [GateNext]_gateVars PROVE GateInv'
    OBVIOUS
  <2>1. Typed'
    BY TypedStep DEF GateInv
  <2>2. ASSUME NEW c \in Calls, CallStep(c) PROVE GateInv'
    <3>1. ver' = ver /\ ws' = ws
      BY <2>2 DEF CallStep, Intercept, Hash, PassThrough, Hit, Miss, Read, End, Rehash,
                  PurityGate, Unservable, Post
    <3>2. VerInv'
      BY <3>1 DEF VerInv, GateInv
    <3> QED BY <2>1, <2>2, <3>2, CallsStep DEF GateInv
  <2>3. CASE VerifyStep
    BY <2>1, <2>3, VerifierStep DEF GateInv
  <2>4. CASE Edit
    BY <2>1, <2>4, EditStep DEF GateInv
  <2>5. CASE UNCHANGED gateVars
    BY <2>1, <2>5 DEF gateVars, GateInv, CallInv, Phases, Ordered, Drifts, Complete, CacheInv,
                      CachedIsOfItsKey, VerInv
  <2> QED BY <2>2, <2>3, <2>4, <2>5 DEF GateNext
<1> QED BY <1>1, <1>2, PTL DEF GateSpec

(* Every state has the shape GateTypeOK describes, the cache included.     *)
THEOREM GateTypeCorrect == GateSpec => []GateTypeOK
<1>1. GateInv => GateTypeOK
  BY DEF GateInv, Typed, CacheInv, GateTypeOK
<1> QED BY <1>1, GateInvariant, PTL

(* What the purity gate lets into the cache was computed from the state    *)
(* its key names, unless an earlier content came back during that call.    *)
THEOREM GateCachesItsKey == GateSpec => []CachedIsOfItsKey
<1>1. GateInv => CachedIsOfItsKey
  BY DEF GateInv, CacheInv
<1> QED BY <1>1, GateInvariant, PTL

(* A HIT prints what executing the command would print.                    *)
THEOREM GateHitIsWhatWouldRun == GateSpec => HitIsWhatWouldRun
<1>1. GateInv /\ [GateNext]_gateVars =>
        [\A c \in Calls : Hit(c) /\ ws = call[c].before =>
           \A r \in HitFor(c) : r.restored \/ (r.saw = ws /\ r.dir = call[c].dir)]_gateVars
  BY DEF GateInv, CacheInv, CachedIsOfItsKey, HitFor
<1> QED BY <1>1, GateInvariant, PTL DEF GateSpec, HitIsWhatWouldRun

(* While nobody edited the workspace, the verifier re-executed in the      *)
(* state that the key of the record names.                                 *)
LEMMA RereadIsTheState ==
  ASSUME GateInv, VerifyVerdict, ~ver.moved
  PROVE  ver.rec.key = ws /\ ver.saw = ws
<1>1. ver.rec.key = ws
  BY DEF VerifyVerdict, Reexecuted, GateInv, VerInv
<1>2. \A p \in Parts : ver.saw[p] = ws[p]
  BY DEF VerifyVerdict, Reexecuted, GateInv, VerInv, Complete
<1>3. ver.saw = ws
  BY <1>2 DEF GateInv, Typed, VerSet, Snapshot
<1> QED BY <1>1, <1>3

(* Shadow verification evicts only what was recorded wrongly, what it did  *)
(* not re-execute in the state or directory of the recording, to the end   *)
(* and against the whole of it, or a record newer than the one it judged.  *)
THEOREM GateEvictsForACause == GateSpec => EvictionHasCause
<1>1. GateInv /\ [GateNext]_gateVars =>
        [\A r \in cache \ cache' : VerifyStep =>
           \/ ver.pc \in {"spoilt", "cut"}
           \/ r.saw # r.key \/ ver.moved \/ r.dir # "root" \/ r # ver.rec]_gateVars
  <2> SUFFICES ASSUME GateInv, NEW r \in cache, r \notin cache', VerifyStep,
                      ver.pc \notin {"spoilt", "cut"},
                      r.saw = r.key, ~ver.moved, r.dir = "root", r = ver.rec
               PROVE  FALSE
    OBVIOUS
  <2>1. VerifyVerdict /\ Diverged
    <3>1. CASE VerifyVerdict
      BY <3>1 DEF VerifyVerdict, Judges
    <3>2. ~VerifyGivesUp /\ ~VerdictLost
      BY DEF VerifyGivesUp, VerdictLost, Judges, Unjudgeable
    <3> QED BY <3>1, <3>2 DEF VerifyStep, VerifyBegin, VerifyHash, VerifyFetch, VerifyPick,
                              VerifySpoilt, VerifyRead, VerifyCutShort
  <2>2. ver.saw # ver.rec.saw
    BY <2>1 DEF Diverged
  <2>3. ver.rec.key = ws /\ ver.saw = ws
    BY <2>1, RereadIsTheState
  <2> QED BY <2>2, <2>3
<1> QED BY <1>1, GateInvariant, PTL DEF GateSpec, EvictionHasCause

(* A wrong record that shadow verification re-executes in the state of its *)
(* key and in its directory is evicted, and so is a newer one of its key.  *)
THEOREM GateEvictsTheWrong == GateSpec => WrongIsEvicted
<1>1. GateInv /\ [GateNext]_gateVars =>
        [VerifyVerdict /\ ~ver.moved /\ ver.rec.dir = "root" /\ ver.rec.saw # ver.rec.key =>
           \A r \in cache' : ~SameKey(r, ver.rec)]_gateVars
  <2> SUFFICES ASSUME GateInv, VerifyVerdict, ~ver.moved, ver.rec.saw # ver.rec.key
               PROVE  \A r \in cache' : ~SameKey(r, ver.rec)
    OBVIOUS
  <2>1. ver.rec.key = ws /\ ver.saw = ws
    BY RereadIsTheState
  <2>2. Diverged
    BY <2>1 DEF Diverged
  <2> QED BY <2>2 DEF VerifyVerdict, Judges
<1> QED BY <1>1, GateInvariant, PTL DEF GateSpec, WrongIsEvicted
=============================================================================
