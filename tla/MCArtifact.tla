----------------------------- MODULE MCArtifact -----------------------------
(* Artifact over two worktrees and an environment of a script, a library   *)
(* and bytecode.                                                           *)
EXTENDS Artifact, TLC

CONSTANTS r1, r2, script, lib, pyc

MCKind == script :> "text" @@ lib :> "binary" @@ pyc :> "cache"
At(r, form) == [root |-> r, form |-> form]
Env(v, scriptNames, libNames) ==
  script :> [ver |-> v, names |-> scriptNames]
  @@ lib :> [ver |-> v, names |-> libNames]
  @@ pyc :> [ver |-> 0, names |-> {}]

(* An ordinary environment that also names neighbours of its worktree, and *)
(* that with a dot behind it, and one with the path compiled in that names *)
(* the other worktree.                                                     *)
MCMakes ==
  r1 :> {Env(0, {At(r1, "real"), At(r1, "longer"), At(r1, "onward"), At(r1, "dotted")}, {}),
         Env(1, {At(r1, "real"), At(r2, "real")}, {At(r1, "real")})}
  @@ r2 :> {}
=============================================================================
