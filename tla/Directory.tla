----------------------------- MODULE Directory ------------------------------
(***************************************************************************)
(* What the artifact guard (internal/hp/artifact.go) promises about the    *)
(* directory an install fills in, one per worktree: its owner may do       *)
(* anything to it; the guard puts a whole environment in its place, where  *)
(* there is no directory, an empty one, or one it was told to overwrite,   *)
(* and does nothing else to it.                                            *)
(***************************************************************************)
EXTENDS Naturals

CONSTANTS
  Roots,      \* worktrees
  Trees,      \* what a directory may hold
  Absent,
  Empty,
  Overwrite   \* some restore may replace a directory that is in use

VARIABLES
  dir,    \* dir[r]: the directory in worktree r
  edits,  \* how often an owner changed one
  whole,  \* whole[r]: the environments that may be restored in worktree r
  taken   \* what a restore is about to overwrite

dirVars == <<dir, edits, whole, taken>>

Free(r) == dir[r] \in {Absent, Empty}
Taken(r) == taken # Absent /\ dir[r] = taken
OnlyAt(r) == \A q \in Roots \ {r} : dir'[q] = dir[q]

DirInit ==
  /\ dir \in [Roots -> Trees \cup {Absent}]
  /\ edits = 0
  /\ whole = [r \in Roots |-> {}]
  /\ taken = Absent

(* The owner of a worktree installs, edits or removes.                     *)
Owner(r) ==
  /\ edits' = edits + 1
  /\ dir'[r] \in Trees \cup {Absent} /\ OnlyAt(r)
  /\ UNCHANGED <<whole, taken>>

(* An environment is captured and filed; those filed before stay.          *)
File ==
  /\ \A r \in Roots : whole[r] \subseteq whole'[r]
  /\ UNCHANGED <<dir, edits, taken>>

(* A whole environment, in one step.                                       *)
Restore(r) ==
  /\ Free(r) \/ Taken(r)
  /\ dir'[r] \in whole[r] /\ OnlyAt(r)
  /\ UNCHANGED <<edits, whole, taken>>

(* An empty directory is removed.                                          *)
Clear(r) ==
  /\ dir[r] = Empty
  /\ dir' = [dir EXCEPT ![r] = Absent]
  /\ UNCHANGED <<edits, whole, taken>>

(* A restore is about to overwrite, and later done with it.                *)
Take(r) ==
  /\ Overwrite
  /\ taken' = dir[r]
  /\ UNCHANGED <<dir, edits, whole>>
Done ==
  /\ taken' = Absent
  /\ UNCHANGED <<dir, edits, whole>>

(* It fails where somebody has removed the directory: it is back.          *)
Return(r) ==
  /\ taken # Absent /\ Free(r)
  /\ dir' = [dir EXCEPT ![r] = taken]
  /\ taken' = Absent
  /\ UNCHANGED <<edits, whole>>

(* It fails badly or dies and leaves no directory: the owner's has been    *)
(* renamed and nobody renames it back.                                     *)
Lose(r) ==
  /\ Taken(r)
  /\ dir' = [dir EXCEPT ![r] = Absent]
  /\ taken' = Absent
  /\ UNCHANGED <<edits, whole>>

DirNext ==
  \/ File \/ Done
  \/ \E r \in Roots : \/ Owner(r) \/ Restore(r) \/ Clear(r)
                      \/ Take(r) \/ Return(r) \/ Lose(r)

DirSpec == DirInit /\ [][DirNext]_dirVars
=============================================================================
