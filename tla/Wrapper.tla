------------------------------ MODULE Wrapper -------------------------------
(***************************************************************************)
(* The wrappers of one command, from the hook that starts them to the      *)
(* record they post (cmdHook, cmdRecord), as far as they share files: each *)
(* puts its output into the blob store (Blobs), then feeds the fast-path   *)
(* memo (Fastpath), and posts a record that claims to be servable if the   *)
(* output is stored and the command was slow enough.  Standard error is    *)
(* stored the same way under a name of its own.                            *)
(*                                                                         *)
(* A cache import (internal/hp/bundle.go) may run beside them: it puts the *)
(* output that the record of another cache names, by the same steps and    *)
(* through the same temporary name, and appends the record.  In the model  *)
(* a process whose output is being put and that observes nothing is one.   *)
(***************************************************************************)
EXTENDS Blobs, Fastpath

ASSUME WrapperAssumption == Wrappers = Writers

VARIABLES
  posted,  \* history: a servable record was posted or imported,
  bare     \* history: one from a bundle that lacks its output

wrapperVars == <<blobVars, memoVars, posted, bare>>

WrapperInit == BlobsInit /\ FastpathInit /\ posted = FALSE /\ bare = FALSE

(* The hook intercepts, the command runs, and the wrapper calls PutBlob.   *)
Start(w) ==
  /\ Call(w)
  /\ \E ms \in Durations : Intercept(w, ms)
  /\ UNCHANGED <<posted, bare>>

Put(w) ==
  /\ Stat(w) \/ Open(w) \/ Write(w) \/ Rename(w) \/ WriteFails(w)
  /\ UNCHANGED <<memoVars, posted, bare>>

(* PutBlob has returned, with a name or an error.                          *)
Feed(w) ==
  /\ Returned(w)
  /\ Observe(w) \/ Save(w)
  /\ UNCHANGED <<blobVars, posted, bare>>

Servable_Anyway(w) == obs[w].ms >= Floor
Servable(w) == In(w, "done") /\ obs[w].ms >= Floor
Post(w) ==
  /\ At(w, "saved") /\ Ended(w)
  /\ Leave(w)
  /\ posted' = (posted \/ Servable(w))
  /\ UNCHANGED bare

(* UnpackCache finds the output in the bundle, and that it has the hash it *)
(* is named by; it appends the log when every output is in place.          *)
Import(w) ==
  /\ At(w, "idle") /\ Call(w)
  /\ UNCHANGED <<memoVars, posted, bare>>
Imported(w) ==
  /\ At(w, "idle") /\ Leave(w)
  /\ posted' = (posted \/ In(w, "done"))
  /\ UNCHANGED <<memoVars, bare>>

(* PackCache could not read the output and left it out; but it packed the  *)
(* record, as servable as it was.                                          *)
ImportBare ==
  /\ posted' = TRUE /\ bare' = TRUE
  /\ UNCHANGED <<blobVars, memoVars>>

(* The process is killed, while it stores its output or later.             *)
Kill(w) ==
  /\ Killed(w) \/ ("die" \in Faults /\ At(w, "idle") /\ UNCHANGED memoVars)
  /\ Die(w) \/ Leave(w)
  /\ UNCHANGED <<posted, bare>>

WrapperNext ==
  \/ \E w \in Writers :
       \/ Start(w) \/ Put(w) \/ Feed(w) \/ Post(w)
       \/ Import(w) \/ Imported(w) \/ Kill(w)
  \/ ImportBare

WrapperSpec == WrapperInit /\ [][WrapperNext]_wrapperVars

-----------------------------------------------------------------------------
(* A servable record is never posted or imported before its output is      *)
(* stored, and whole unless two writers overlapped: an error of PutBlob, a *)
(* lost race, a damaged bundle and a killed process leave nothing that     *)
(* claims to be servable.  What is excepted is a bundle made without the   *)
(* output: nothing on the way to a HIT finds out that it is missing.       *)
PostedIsReplayable ==
  posted /\ ~bare => path # NoInode /\ (overlapped \/ data[path] = Whole)
=============================================================================
