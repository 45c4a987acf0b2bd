-------------------------------- MODULE Gate --------------------------------
(***************************************************************************)
(* The agent's side: cmdHook and cmdRecord (cmd/hindsight/hook.go and      *)
(* record.go), and hindsight verify (verify.go), all in one worktree that  *)
(* somebody else may be editing: another tool call of the agent, the       *)
(* editor, a process that an earlier command left behind.                  *)
(*                                                                         *)
(* The workspace consists of Parts: files the tree hash covers and         *)
(* ecosystems the environment fingerprint covers.  No lock protects it.    *)
(* Workspace.State (key.go) reads it part by part, and so does a command;  *)
(* a command's outcome is where it ran and what it read.  Contents are     *)
(* numbered: an edit that lowers a part's number brings something back.    *)
(*                                                                         *)
(* The daemon is only its servable index here: cache is a set of records.  *)
(***************************************************************************)
EXTENDS Naturals, FiniteSets

CONSTANTS
  Parts,
  Calls,      \* commands intercepted at once in this worktree
  MaxContent, \* bound on the contents of a part
  MaxCache,   \* bound on the records in the cache
  Unread      \* what a snapshot holds of a part not read, or not readable

Contents == 0 .. MaxContent

ASSUME GateAssumption == MaxContent \in Nat /\ MaxCache \in Nat /\ Unread \notin Nat

VARIABLES
  ws,        \* ws[p]: the content of part p
  cache,     \* the servable records
  call,      \* the hooks and wrappers
  ver        \* the verifier

gateVars == <<ws, cache, call, ver>>

Snapshot == [Parts -> Contents \cup {Unread}]
Nothing == [p \in Parts |-> Unread]
Complete(s) == \A p \in Parts : s[p] # Unread

Dirs == {"root", "sub"}  \* the working directory, relative to the root

(* Two histories.  restored: while the hook and the wrapper were at work   *)
(* an edit brought something back.  stood: nothing was brought back, the   *)
(* workspace was what the hook had hashed when the command started, and    *)
(* nobody edited it until the command ended.                               *)
RecordSet == [key : Snapshot, dir : Dirs, saw : Snapshot, restored : BOOLEAN,
              stood : BOOLEAN]

(* hash, ask: cmdHook.  run, rehash, post: cmdRecord.                      *)
CallSet == [pc : {"idle", "hash", "ask", "run", "rehash", "post"}, dir : Dirs,
            serve : BOOLEAN, before : Snapshot, saw : Snapshot, after : Snapshot,
            restored : BOOLEAN, stood : BOOLEAN]
NoCall == [pc |-> "idle", dir |-> "root", serve |-> FALSE, before |-> Nothing,
           saw |-> Nothing, after |-> Nothing, restored |-> FALSE, stood |-> FALSE]

(* spoilt, cut: the record cannot be judged by a re-execution.  moved is   *)
(* history: the workspace was edited since the verifier began.             *)
NoJudged == [key |-> Nothing, dir |-> "root", saw |-> Nothing, restored |-> FALSE,
             stood |-> FALSE]
VerSet == [pc : {"idle", "hash", "pick", "run", "spoilt", "cut"}, now : Snapshot, saw : Snapshot,
           list : SUBSET RecordSet, rec : RecordSet, moved : BOOLEAN]
NoVerifier == [pc |-> "idle", now |-> Nothing, saw |-> Nothing, list |-> {},
               rec |-> NoJudged, moved |-> FALSE]

GateInit ==
  /\ ws = [p \in Parts |-> 0]
  /\ cache = {}
  /\ call = [c \in Calls |-> NoCall]
  /\ ver = NoVerifier

At(c, pc) == call[c].pc = pc
Leaves(c) == call' = [call EXCEPT ![c] = NoCall]

-----------------------------------------------------------------------------
(* cmdHook.                                                                *)

(* A command that is not passed through; only a SERVE command asks to be   *)
(* served and may become servable.                                         *)
Intercept(c) ==
  /\ At(c, "idle")
  /\ \E d \in Dirs, s \in BOOLEAN :
       call' = [call EXCEPT ![c] = [NoCall EXCEPT !.pc = "hash", !.dir = d, !.serve = s]]
  /\ UNCHANGED <<ws, cache, ver>>

(* One part of the first snapshot.                                         *)
Hash(c) ==
  /\ At(c, "hash")
  /\ \E p \in Parts :
       /\ call[c].before[p] = Unread
       /\ call' = [call EXCEPT ![c].before[p] = ws[p],
                               ![c].pc = IF Complete([call[c].before EXCEPT ![p] = ws[p]])
                                         THEN "ask" ELSE "hash"]
  /\ UNCHANGED <<ws, cache, ver>>

(* git fails, an ecosystem in use cannot be read, or the daemon cannot be  *)
(* reached: the command passes through.                                    *)
PassThrough(c) ==
  /\ call[c].pc \in {"hash", "ask"}
  /\ Leaves(c)
  /\ UNCHANGED <<ws, cache, ver>>

(* A HIT: cat the recorded output instead of running the command.          *)
HitFor_AnyDir(c) == {r \in cache : r.key = call[c].before}

HitFor(c) == {r \in cache : r.key = call[c].before /\ r.dir = call[c].dir}
Hit(c) ==
  /\ At(c, "ask") /\ call[c].serve
  /\ HitFor(c) # {}
  /\ Leaves(c)
  /\ UNCHANGED <<ws, cache, ver>>

(* A MISS, perhaps after a long wait: the agent runs the wrapper.          *)
Miss(c) ==
  /\ At(c, "ask")
  /\ call' = [call EXCEPT ![c].pc = "run", ![c].stood = ~call[c].restored /\ ws = call[c].before]
  /\ UNCHANGED <<ws, cache, ver>>

-----------------------------------------------------------------------------
(* cmdRecord.                                                              *)

Read(c) ==
  /\ At(c, "run")
  /\ \E p \in Parts : /\ call[c].saw[p] = Unread
                      /\ call' = [call EXCEPT ![c].saw[p] = ws[p]]
  /\ UNCHANGED <<ws, cache, ver>>

End_TimedOut(c) ==
  /\ At(c, "run")
  /\ call' = [call EXCEPT ![c].pc = "rehash"]
  /\ UNCHANGED <<ws, cache, ver>>

(* hp.Run returns, the command having read what it reads.                  *)
End(c) ==
  /\ At(c, "run") /\ Complete(call[c].saw)
  /\ call' = [call EXCEPT ![c].pc = "rehash"]
  /\ UNCHANGED <<ws, cache, ver>>

(* One part of the second snapshot.                                        *)
Rehash(c) ==
  /\ At(c, "rehash")
  /\ \E p \in Parts : /\ call[c].after[p] = Unread
                      /\ call' = [call EXCEPT ![c].after[p] = ws[p]]
  /\ UNCHANGED <<ws, cache, ver>>

PurityGate_Skipped(c) ==
  /\ At(c, "rehash") /\ call[c].serve
  /\ Complete(call[c].after)
  /\ call' = [call EXCEPT ![c].pc = "post"]
  /\ UNCHANGED <<ws, cache, ver>>

(* The purity gate lets the record of a SERVE command through if the two   *)
(* snapshots are equal.                                                    *)
PurityGate(c) ==
  /\ At(c, "rehash") /\ call[c].serve
  /\ Complete(call[c].after) /\ call[c].after = call[c].before
  /\ call' = [call EXCEPT ![c].pc = "post"]
  /\ UNCHANGED <<ws, cache, ver>>

(* Otherwise, and if the command or its output was cut short, the second   *)
(* snapshot could not be taken, a blob could not be put, the duration is   *)
(* below the floor or the post is lost, no servable record reaches the     *)
(* daemon.                                                                 *)
Unservable(c) ==
  /\ call[c].pc \in {"run", "rehash", "post"}
  /\ Leaves(c)
  /\ UNCHANGED <<ws, cache, ver>>

Wrapped(c) == [key |-> call[c].before, dir |-> call[c].dir, saw |-> call[c].saw,
               restored |-> call[c].restored, stood |-> call[c].stood]
SameKey(r, s) == r.key = s.key /\ r.dir = s.dir

(* The record is posted and is the one served for its key from now on.     *)
Post(c) ==
  /\ At(c, "post")
  /\ cache' = {r \in cache : ~SameKey(r, Wrapped(c))} \cup {Wrapped(c)}
  /\ Cardinality(cache') <= MaxCache
  /\ Leaves(c)
  /\ UNCHANGED <<ws, ver>>

-----------------------------------------------------------------------------
(* hindsight verify.                                                       *)

VerifyBegin ==
  /\ ver.pc = "idle"
  /\ ver' = [NoVerifier EXCEPT !.pc = "hash"]
  /\ UNCHANGED <<ws, cache, call>>

(* Its only snapshot.                                                      *)
VerifyHash ==
  /\ ver.pc = "hash"
  /\ \E p \in Parts : /\ ver.now[p] = Unread
                      /\ ver' = [ver EXCEPT !.now[p] = ws[p]]
  /\ UNCHANGED <<ws, cache, call>>

VerifyFetch_AnyState ==
  /\ ver.pc = "hash" /\ Complete(ver.now)
  /\ ver' = [ver EXCEPT !.pc = "pick", !.list = cache]
  /\ UNCHANGED <<ws, cache, call>>

(* GET /servable, once; the records of any other state are skipped.        *)
VerifyFetch ==
  /\ ver.pc = "hash" /\ Complete(ver.now)
  /\ ver' = [ver EXCEPT !.pc = "pick", !.now = Nothing,
                         !.list = {r \in cache : r.key = ver.now}]
  /\ UNCHANGED <<ws, cache, call>>

(* The next record of the list is re-executed, or the limit is reached.    *)
VerifyPick ==
  /\ ver.pc = "pick"
  /\ \/ \E r \in ver.list :
          ver' = [ver EXCEPT !.pc = "run", !.list = @ \ {r}, !.saw = Nothing, !.rec = r]
     \/ ver' = NoVerifier
  /\ UNCHANGED <<ws, cache, call>>

(* A blob of the recording cannot be read, and nothing is re-executed, or  *)
(* holds only a part of it, and nothing will match.                        *)
VerifySpoilt ==
  /\ ver.pc = "pick"
  /\ \E r \in ver.list :
       ver' = [ver EXCEPT !.pc = "spoilt", !.list = @ \ {r}, !.saw = Nothing, !.rec = r]
  /\ UNCHANGED <<ws, cache, call>>

VerifyRead ==
  /\ ver.pc = "run"
  /\ \E p \in Parts : /\ ver.saw[p] = Unread
                      /\ ver' = [ver EXCEPT !.saw[p] = ws[p]]
  /\ UNCHANGED <<ws, cache, call>>

(* The re-execution cannot be started, or is killed when its 10 minutes    *)
(* are up, where the recording had 30.                                     *)
VerifyCutShort ==
  /\ ver.pc = "run"
  /\ ver' = [ver EXCEPT !.pc = "cut", !.saw = Nothing]
  /\ UNCHANGED <<ws, cache, call>>

(* The verdict; handleVerify evicts the key if it is a divergence.         *)
Judges(diverged) ==
  /\ cache' = IF diverged THEN {r \in cache : ~SameKey(r, ver.rec)} ELSE cache
  /\ ver' = [ver EXCEPT !.pc = "pick", !.saw = Nothing, !.rec = NoJudged]
  /\ UNCHANGED <<ws, call>>

(* The re-execution ran at the root of the worktree.  It is compared with  *)
(* the recording.                                                          *)
Reexecuted == ver.pc = "run" /\ Complete(ver.saw)
Diverged == ver.rec.dir # "root" \/ ver.saw # ver.rec.saw
VerifyVerdict == Reexecuted /\ Judges(Diverged)

Unjudgeable == ver.pc \in {"spoilt", "cut"}
VerifyGivesUp == Unjudgeable /\ Judges(TRUE)

(* The verdict does not reach the daemon, which nobody is told; or a run   *)
(* that was cut short had said all it had to say.                          *)
VerdictLost == (Reexecuted \/ Unjudgeable) /\ Judges(FALSE)

-----------------------------------------------------------------------------
(* Whoever else works in the worktree, the commands themselves included.   *)

Edit ==
  \E p \in Parts, v \in Contents :
    /\ v # ws[p]
    /\ ws' = [ws EXCEPT ![p] = v]
    /\ call' = [c \in Calls |->
                  IF At(c, "idle") THEN call[c]
                  ELSE [call[c] EXCEPT !.restored = @ \/ v < ws[p],
                                       !.stood = @ /\ ~At(c, "run") /\ v > ws[p]]]
    /\ ver' = IF ver.pc = "idle" THEN ver ELSE [ver EXCEPT !.moved = TRUE]
    /\ UNCHANGED cache

CallStep(c) ==
  \/ Intercept(c) \/ Hash(c) \/ PassThrough(c) \/ Hit(c) \/ Miss(c)
  \/ Read(c) \/ End(c) \/ Rehash(c) \/ PurityGate(c) \/ Unservable(c) \/ Post(c)

VerifyStep ==
  \/ VerifyBegin \/ VerifyHash \/ VerifyFetch \/ VerifyPick \/ VerifySpoilt
  \/ VerifyRead \/ VerifyCutShort \/ VerifyVerdict \/ VerifyGivesUp \/ VerdictLost

GateNext == (\E c \in Calls : CallStep(c)) \/ VerifyStep \/ Edit

GateSpec == GateInit /\ [][GateNext]_gateVars

-----------------------------------------------------------------------------
(* Properties.                                                             *)

(* The shape of the state; the cache holds one record of a key, and no     *)
(* snapshot with a hole in it.                                             *)
GateTypeOK ==
  /\ ws \in [Parts -> Contents]
  /\ cache \subseteq RecordSet
  /\ \A r, s \in cache : SameKey(r, s) => r = s
  /\ \A r \in cache : Complete(r.key) /\ Complete(r.saw)
  /\ call \in [Calls -> CallSet]
  /\ ver \in VerSet

(* The purity gate does what it is for, without a lock and though neither  *)
(* snapshot is atomic: a record that became servable was computed from the *)
(* state its key names, and the workspace was in that very state from the  *)
(* start of the command to its end, however often the command read it,     *)
(* whoever edited the worktree before and after, unless an edit during     *)
(* that call brought an earlier content back.                              *)
CachedIsOfItsKey == \A r \in cache : r.restored \/ (r.saw = r.key /\ r.stood)

(* A HIT prints what executing the command would print: if the workspace   *)
(* still is what the hook hashed, the recorded execution read exactly what *)
(* the command would now read, and ran in the same directory.              *)
HitIsWhatWouldRun ==
  [][\A c \in Calls : Hit(c) /\ ws = call[c].before =>
       \A r \in HitFor(c) : r.restored \/ (r.saw = ws /\ r.dir = call[c].dir)]_gateVars

(* Shadow verification evicts only for a reason.  The recorded outcome was *)
(* spoilt or the re-execution cut short.  Or the recorded execution read   *)
(* something else than its key says.  Or the re-execution was not the same *)
(* question: the workspace was edited since the verifier began, the        *)
(* command belongs in another directory, or the record was replaced by a   *)
(* newer one of its key while the older was judged.                        *)
EvictionHasCause ==
  [][\A r \in cache \ cache' : VerifyStep =>
       \/ ver.pc \in {"spoilt", "cut"}
       \/ r.saw # r.key \/ ver.moved \/ r.dir # "root" \/ r # ver.rec]_gateVars

(* And it does not miss: a record that read something else than its key    *)
(* says, re-executed in the state of its key and in its directory, is no   *)
(* longer served once the daemon has the verdict, nor is a newer one of    *)
(* its key.                                                                *)
WrongIsEvicted ==
  [][VerifyVerdict /\ ~ver.moved /\ ver.rec.dir = "root" /\ ver.rec.saw # ver.rec.key =>
       \A r \in cache' : ~SameKey(r, ver.rec)]_gateVars

(* A record that is right is not evicted while nobody edits the workspace. *)
(* It does not hold: verify re-executes every command at the root.         *)
RightRecordStays ==
  [][VerifyVerdict /\ ~ver.moved => (ver.rec \in cache \ cache' =>
       ver.rec.saw # ver.rec.key)]_gateVars
=============================================================================
