------------------------------ MODULE Fastpath ------------------------------
(***************************************************************************)
(* The fast-path memo (internal/hp/fastpath.go): a file in which every     *)
(* wrapper notes how long its command took, and from which the hook learns *)
(* that a command is not worth intercepting.  The wrappers are processes   *)
(* of their own: each loads the file, adds its observation and writes all  *)
(* of it back through one temporary name, without a lock.                  *)
(*                                                                         *)
(* The model has the entry of one command, not one of those that are       *)
(* always taken to be cheap (echo, pwd).  The file that a wrapper has open *)
(* is named by where it is now: at the temporary name, at the memo's own   *)
(* name because it was renamed meanwhile, or at neither.                   *)
(***************************************************************************)
EXTENDS Naturals, FiniteSets

CONSTANTS
  Wrappers,
  Durations,    \* how long the command may take
  Floor,        \* MinDurationMS
  Samples,      \* fastpathSamples
  MaxRuns,      \* bound on the observations
  NoFile,
  Blank, Torn,  \* a file just truncated; what two writers left, not JSON
  MemoFaults    \* which failures happen, of {"full", "die"}

ASSUME FastpathAssumption ==
  /\ Durations \subseteq Nat /\ Floor \in Nat /\ Samples \in Nat \ {0}
  /\ MaxRuns \in Nat /\ IsFiniteSet(Wrappers)
  /\ {NoFile, Blank, Torn} \cap [n : Nat, max : Nat] = {}

Longer(a, b) == IF a > b THEN a ELSE b

MemoEntry == [n : 0 .. MaxRuns, max : Nat]
NoEntry == [n |-> 0, max |-> 0]
MemoFile == MemoEntry \cup {NoFile, Blank, Torn}

(* load, open, write, rename: what is next.                                *)
ObserverState == [pc : {"idle", "load", "open", "write", "rename", "saved"},
                  ms : Durations \cup {0}, entry : MemoEntry,
                  file : {"none", "tmp", "memo", "gone"}]
NoObserver == [pc |-> "idle", ms |-> 0, entry |-> NoEntry, file |-> "none"]

VARIABLES
  memo, memoTmp,  \* the file and the temporary file
  obs,            \* the wrappers
  runs,           \* commands run under a wrapper
  slowest,        \* history: of the observations whose Save ended well
  met             \* history: one loaded while another had not yet saved

memoVars == <<memo, memoTmp, obs, runs, slowest, met>>

FastpathInit ==
  /\ memo = NoFile /\ memoTmp = NoFile
  /\ obs = [w \in Wrappers |-> NoObserver]
  /\ runs = 0 /\ slowest = 0 /\ met = FALSE

(* LoadFastpath: a corrupt memo is an empty memo.                          *)
Loaded(f) == IF f \in MemoEntry THEN f ELSE NoEntry
KnownFast_OneRun(e) == Floor > 0 /\ e.n > 0 /\ e.max < Floor
KnownFast(e) == Floor > 0 /\ e.n >= Samples /\ e.max < Floor

At(w, pc) == obs[w].pc = pc
Saving(w) == obs[w].pc \in {"open", "write", "rename"}
Note(w, pc) == obs' = [obs EXCEPT ![w].pc = pc]

-----------------------------------------------------------------------------
(* The hook finds that the command is not known to be fast, nothing can be *)
(* served, and it runs under a wrapper.  A command known to be fast runs   *)
(* without one and is never observed again.                                *)
Intercept(w, ms) ==
  /\ At(w, "idle") /\ runs < MaxRuns
  /\ ~KnownFast(Loaded(memo))
  /\ runs' = runs + 1
  /\ obs' = [obs EXCEPT ![w] = [NoObserver EXCEPT !.pc = "load", !.ms = ms]]
  /\ UNCHANGED <<memo, memoTmp, slowest, met>>

Observed_Replaces(e, ms) == [n |-> e.n + 1, max |-> ms]

(* LoadFastpath and Observe.                                               *)
Observed(e, ms) == [n |-> e.n + 1, max |-> Longer(e.max, ms)]
Observe(w) ==
  /\ At(w, "load")
  /\ obs' = [obs EXCEPT ![w].entry = Observed(Loaded(memo), obs[w].ms), ![w].pc = "open"]
  /\ met' = (met \/ \E v \in Wrappers \ {w} : Saving(v))
  /\ UNCHANGED <<memo, memoTmp, runs, slowest>>

(* Save: os.WriteFile opens the temporary file and truncates it;           *)
OpenTmp(w) ==
  /\ At(w, "open")
  /\ memoTmp' = Blank
  /\ obs' = [obs EXCEPT ![w].pc = "write", ![w].file = "tmp"]
  /\ UNCHANGED <<memo, runs, slowest, met>>

(* then it writes, over whatever another wrapper wrote meanwhile: what is  *)
(* shorter leaves the end of it.                                           *)
Over(entry, f) == IF f \in {Blank, entry} THEN {entry} ELSE {entry, Torn}
WriteTmp(w) ==
  /\ At(w, "write")
  /\ \/ /\ obs[w].file = "tmp" /\ memoTmp' \in Over(obs[w].entry, memoTmp)
        /\ UNCHANGED memo
     \/ /\ obs[w].file = "memo" /\ memo' \in Over(obs[w].entry, memo)
        /\ UNCHANGED memoTmp
     \/ obs[w].file = "gone" /\ UNCHANGED <<memo, memoTmp>>
  /\ obs' = [obs EXCEPT ![w].pc = "rename", ![w].file = "none"]
  /\ UNCHANGED <<runs, slowest, met>>

(* os.Rename moves whatever has the temporary name; that it fails, because *)
(* another wrapper was first, is ignored.                                  *)
Moved(file) == CASE file = "tmp" -> "memo" [] file = "memo" -> "gone" [] OTHER -> file
RenameTmp(w) ==
  /\ At(w, "rename")
  /\ \/ /\ memoTmp # NoFile
        /\ memo' = memoTmp /\ memoTmp' = NoFile
        /\ obs' = [v \in Wrappers |-> IF v = w THEN [obs[v] EXCEPT !.pc = "saved"]
                                      ELSE [obs[v] EXCEPT !.file = Moved(@)]]
     \/ memoTmp = NoFile /\ Note(w, "saved") /\ UNCHANGED <<memo, memoTmp>>
  /\ slowest' = Longer(slowest, obs[w].ms)
  /\ UNCHANGED <<runs, met>>

SaveFails_KeepsFile(w) ==
  /\ "full" \in MemoFaults /\ obs[w].pc \in {"open", "write"}
  /\ Note(w, "saved")
  /\ UNCHANGED <<memo, memoTmp, runs, slowest, met>>

(* The directory cannot be made, the file not opened, or the disk is full  *)
(* with part of the entry written: nobody is told.                         *)
Spoils(w, file, f) == IF At(w, "write") /\ obs[w].file = file THEN {f, Torn} ELSE {f}
SaveFails(w) ==
  /\ "full" \in MemoFaults /\ obs[w].pc \in {"open", "write"}
  /\ obs' = [obs EXCEPT ![w].pc = "saved", ![w].file = "none"]
  /\ memoTmp' \in Spoils(w, "tmp", memoTmp) /\ memo' \in Spoils(w, "memo", memo)
  /\ UNCHANGED <<runs, slowest, met>>

Ended(w) ==
  /\ obs' = [obs EXCEPT ![w] = NoObserver]
  /\ UNCHANGED <<memo, memoTmp, runs, slowest, met>>
Killed(w) == "die" \in MemoFaults /\ ~At(w, "idle") /\ Ended(w)

Save(w) == OpenTmp(w) \/ WriteTmp(w) \/ RenameTmp(w) \/ SaveFails(w)

FastpathNext ==
  \E w \in Wrappers :
    \/ \E ms \in Durations : Intercept(w, ms)
    \/ Observe(w) \/ Save(w) \/ Killed(w)
    \/ At(w, "saved") /\ Ended(w)

FastpathSpec == FastpathInit /\ [][FastpathNext]_memoVars

-----------------------------------------------------------------------------
(* Properties.                                                             *)

(* The shape of the state; a file is open exactly while it is written.     *)
FastpathTypeOK ==
  /\ memo \in MemoFile /\ memoTmp \in MemoFile
  /\ obs \in [Wrappers -> ObserverState]
  /\ \A w \in Wrappers : obs[w].file # "none" <=> At(w, "write")
  /\ runs \in 0 .. MaxRuns /\ slowest \in Durations \cup {0} /\ met \in BOOLEAN

(* "One observation should not be enough": whatever the wrappers do to the *)
(* file, it calls no command fast that did not run as often as it takes.   *)
KnownFastIsEarned == KnownFast(Loaded(memo)) => runs >= Samples

(* "A command which is ever expensive keeps being cached": an expensive    *)
(* run that was saved is not forgotten, through failed saves, killed       *)
(* wrappers and the files they leave, unless two wrappers met: then the    *)
(* one that loaded first can write over what the other saved.              *)
SlowIsRemembered == KnownFast(Loaded(memo)) => slowest < Floor \/ met
=============================================================================
