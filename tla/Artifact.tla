------------------------------ MODULE Artifact ------------------------------
(***************************************************************************)
(* The artifact guard (internal/hp/artifact.go): CaptureInstall takes a    *)
(* snapshot of the directory an install produced and files it under the    *)
(* command's cache key; RestoreInstall reconstructs it in another          *)
(* worktree.  Wrappers and hooks of many agents do both at once, over one  *)
(* cache directory, while the owners of the worktrees use them.            *)
(*                                                                         *)
(* A directory is Absent or a tree: for each file an entry or NoFile.  Of  *)
(* an entry the model keeps a version and the worktrees it names:          *)
(*   real    the resolved path of the worktree                             *)
(*   raw     a path of it that runs through a symbolic link, other than    *)
(*           the /tmp and /var of macOS, which count as real               *)
(*   longer  a longer name that starts like it: /fleet/a10 for /fleet/a1,  *)
(*           going on with a letter, a digit, a dot, _ or -                *)
(*   onward  one that goes on with anything else: /fleet/a1+x              *)
(*   dotted  the resolved path again, at the end of a sentence: a dot      *)
(*           follows                                                       *)
(*   tail    a longer path that ends like it: /mnt/fleet/a1                *)
(* A snapshot is stored under the hash of what was walked, so the tree     *)
(* itself serves as its name.                                              *)
(***************************************************************************)
EXTENDS Naturals, FiniteSets

CONSTANTS
  Roots,       \* worktrees
  Ambiguous,   \* those where two ecosystems have installed something
  Files, NoFile,
  Kind,        \* Kind[f]: "text", "binary" or "cache" (below __pycache__)
  Versions,
  Makes,       \* Makes[r]: trees that an owner makes in worktree r
  Absent, Nowhere,
  Keys, NoDesc,
  Capturers, Restorers,
  Overwriter,  \* the restorer that is told to overwrite, or none of them
  Verify,      \* HP_ARTIFACT_VERIFY
  Faults,      \* which failures happen, of {"die", "fail"}
  MaxEdits,    \* bound on the changes that owners make
  MaxDamage,   \* bound on the archives and clones that get damaged
  MaxFiled     \* bound on the descriptors filed

Forms == {"real", "raw", "longer", "onward", "dotted", "tail"}
Mention == [root : Roots, form : Forms]
Entry == [ver : Versions, names : SUBSET Mention]
Tree == [Files -> Entry \cup {NoFile}]
Empty == [f \in Files |-> NoFile]

(* What is filed under a key.  moved is history: the directory changed     *)
(* while it was captured.                                                  *)
Desc == [tree : Tree, root : Roots, moved : BOOLEAN]

ASSUME ArtifactAssumption ==
  /\ NoFile \notin Entry /\ Absent \notin Tree /\ NoDesc \notin Desc
  /\ Nowhere \notin Roots
  /\ Kind \in [Files -> {"text", "binary", "cache"}]
  /\ \A r \in Roots : Makes[r] \subseteq Tree
  /\ Verify \in BOOLEAN /\ MaxEdits \in Nat /\ MaxDamage \in Nat
  /\ MaxFiled \in Nat

VARIABLES
  dir,      \* dir[r]: the directory in worktree r
  edits,    \* how often an owner changed one
  tars,     \* snapshots: what each is named after and what it holds
  clones,   \* unpacked snapshots, likewise
  refs,     \* refs[k]: the descriptor of key k
  cap, res, \* the processes that capture and that restore
  filed,    \* history: every descriptor ever filed
  damaged,  \* history: names of the clones and snapshots somebody changed
  gap       \* history: where a directory was renamed to make room and nobody
            \* has made another since

cacheVars == <<tars, clones, refs, filed, damaged>>
artVars == <<dir, edits, cacheVars, cap, res, gap>>

(* walk: tarTree.  store: the snapshot is hashed.  ref: it is in place.    *)
CapState == [pc : {"idle", "walk", "store", "ref"}, root : Roots \cup {Nowhere},
             got : Tree, todo : SUBSET Files, moved : BOOLEAN]
NoCapture == [pc |-> "idle", root |-> Nowhere, got |-> Empty, todo |-> {},
              moved |-> FALSE]

(* check, clone, publish, copy, rewrite, verify, swap: the steps of        *)
(* Materialize up to the first rename.  place: what was in the way, if     *)
(* anything, is aside.  clean: the environment is in place.                *)
ResPCs == {"idle", "check", "clone", "publish", "copy", "rewrite", "verify",
           "swap", "place", "clean"}
ResState == [pc : ResPCs, root : Roots \cup {Nowhere}, desc : Desc \cup {NoDesc},
             todo : SUBSET Files, stage : Tree, aside : Tree \cup {Absent}]
NoRestore == [pc |-> "idle", root |-> Nowhere, desc |-> NoDesc, todo |-> {},
              stage |-> Empty, aside |-> Absent]

Stored == [sha : Tree, holds : Tree]
NamedAfter(files, t) == {x \in files : x.sha = t}

Walked == {f \in Files : Kind[f] # "cache"}
Snapshot(t) == [f \in Files |-> IF f \in Walked THEN t[f] ELSE NoFile]

ArtInit ==
  /\ dir \in [Roots -> {Absent, Empty} \cup UNION {Makes[r] : r \in Roots}]
  /\ \A r \in Roots : dir[r] \in Makes[r] \cup {Absent, Empty}
  /\ edits = 0
  /\ tars = {} /\ clones = {}
  /\ refs = [k \in Keys |-> NoDesc]
  /\ cap = [c \in Capturers |-> NoCapture]
  /\ res = [m \in Restorers |-> NoRestore]
  /\ filed = {} /\ gap = Nowhere
  /\ damaged = [tars |-> {}, clones |-> {}]

-----------------------------------------------------------------------------
(* Relocation.                                                             *)

Written(t) == {f \in Files : t[f] # NoFile}

(* What the capture finds: the resolved or the raw path, wherever it       *)
(* occurs in the text.                                                     *)
Names(e, r) == \E p \in e.names : p.root = r
Hits(d) == {f \in Written(d.tree) : Names(d.tree[f], d.root)}

(* Rewrites, SymlinkRewrites; Relocatable.                                 *)
Rewrites(d) == {f \in Hits(d) : Kind[f] = "text"}
Relocatable(d) == \A f \in Hits(d) : Kind[f] = "text"
May(d, r) == r = d.root \/ Relocatable(d)

Renamed_NoBoundary(p, from, to) ==
  IF p.root = from /\ p.form # "raw" THEN [p EXCEPT !.root = to] ELSE p

(* rootReplacer.Replace: the bytes of the resolved path, unless a byte     *)
(* follows that isPathNameByte takes for more of its name.                 *)
Exchanged == {"real", "onward", "tail"}
Renamed(p, from, to) ==
  IF p.root = from /\ p.form \in Exchanged THEN [p EXCEPT !.root = to] ELSE p
Replaced(e, from, to) ==
  [e EXCEPT !.names = {Renamed(p, from, to) : p \in @}]
Rewritten(t, files, from, to) ==
  [f \in Files |-> IF f \in files /\ t[f] # NoFile
                   THEN Replaced(t[f], from, to) ELSE t[f]]

(* The environment of d in worktree r.                                     *)
Relocated(d, r) ==
  IF r = d.root THEN d.tree ELSE Rewritten(d.tree, Rewrites(d), d.root, r)

-----------------------------------------------------------------------------
(* The owners of the worktrees.                                            *)

(* The directory of worktree r becomes t.  A capture that is walking it    *)
(* does not notice.                                                        *)
Notices(r) ==
  cap' = [c \in Capturers |-> [cap[c] EXCEPT !.moved = @ \/ cap[c].root = r]]
Becomes(r, t) ==
  /\ dir' = [dir EXCEPT ![r] = t]
  /\ gap' = IF gap = r THEN Nowhere ELSE gap
  /\ Notices(r)

Owned(r, t) ==
  /\ edits < MaxEdits /\ edits' = edits + 1
  /\ Becomes(r, t)
  /\ UNCHANGED <<cacheVars, res>>

(* One file is written or removed, by an install or by hand.               *)
Edit(r, f) ==
  /\ dir[r] # Absent
  /\ \E e \in {t[f] : t \in Makes[r]} \cup {NoFile} :
       e # dir[r][f] /\ Owned(r, [dir[r] EXCEPT ![f] = e])
MakeDir(r) == dir[r] = Absent /\ Owned(r, Empty)
Remove(r) == dir[r] # Absent /\ Owned(r, Absent)

-----------------------------------------------------------------------------
(* CaptureInstall.                                                         *)

(* ArtifactTargets finds one directory that holds something; two are       *)
(* refused.                                                                *)
CaptureInstall(c, r) ==
  /\ cap[c].pc = "idle" /\ Cardinality(filed) < MaxFiled
  /\ r \notin Ambiguous /\ dir[r] \notin {Absent, Empty}
  /\ cap' = [cap EXCEPT ![c] = [NoCapture EXCEPT !.pc = "walk", !.root = r,
                                                 !.todo = Walked]]
  /\ UNCHANGED <<dir, edits, cacheVars, res, gap>>

(* tarTree reads the next file.                                            *)
Walk(c, f) ==
  /\ cap[c].pc = "walk" /\ f \in cap[c].todo
  /\ dir[cap[c].root] # Absent
  /\ cap' = [cap EXCEPT ![c].got[f] = dir[cap[c].root][f], ![c].todo = @ \ {f}]
  /\ UNCHANGED <<dir, edits, cacheVars, res, gap>>

(* The snapshot has its hash.                                              *)
Walk_Unfinished(c) ==
  /\ cap[c].pc = "walk"
  /\ cap' = [cap EXCEPT ![c].pc = "store"]
  /\ UNCHANGED <<dir, edits, cacheVars, res, gap>>

Hashed(c) ==
  /\ cap[c].pc = "walk" /\ cap[c].todo = {}
  /\ cap' = [cap EXCEPT ![c].pc = "store"]
  /\ UNCHANGED <<dir, edits, cacheVars, res, gap>>

StoreTar_Skipped(c) ==
  /\ cap[c].pc = "store"
  /\ cap' = [cap EXCEPT ![c].pc = "ref"]
  /\ UNCHANGED <<dir, edits, cacheVars, res, gap>>

(* It is renamed to it, unless a file of that name exists, whatever is in  *)
(* it.                                                                     *)
StoreTar(c) ==
  /\ cap[c].pc = "store"
  /\ tars' = IF NamedAfter(tars, cap[c].got) # {} THEN tars
             ELSE tars \cup {[sha |-> cap[c].got, holds |-> cap[c].got]}
  /\ cap' = [cap EXCEPT ![c].pc = "ref"]
  /\ UNCHANGED <<dir, edits, clones, refs, filed, damaged, res, gap>>

(* PutArtifactRef replaces the key's descriptor.                           *)
Described(c) == [tree |-> cap[c].got, root |-> cap[c].root, moved |-> cap[c].moved]
PutArtifactRef(c, k) ==
  /\ cap[c].pc = "ref"
  /\ refs' = [refs EXCEPT ![k] = Described(c)]
  /\ filed' = filed \cup {Described(c)}
  /\ cap' = [cap EXCEPT ![c] = NoCapture]
  /\ UNCHANGED <<dir, edits, tars, clones, damaged, res, gap>>

(* The directory or a file vanishes or grows under the walk, it is too     *)
(* large, takes too long, or the process dies.                             *)
CaptureEnds(c) ==
  /\ cap[c].pc # "idle"
  /\ {"fail", "die"} \cap Faults # {} \/ dir[cap[c].root] = Absent
  /\ cap' = [cap EXCEPT ![c] = NoCapture]
  /\ UNCHANGED <<dir, edits, cacheVars, res, gap>>

-----------------------------------------------------------------------------
(* RestoreInstall.                                                         *)

Doing(m, pc) == res[m].pc = pc
Goes(m, pc) == res' = [res EXCEPT ![m].pc = pc]
Stops(m) == res' = [res EXCEPT ![m] = NoRestore]
Relocating(m) == res[m].root # res[m].desc.root
Unpacked(d) == NamedAfter(clones, d.tree)

Lookup_Unfiled(m, r, k) ==
  /\ Doing(m, "idle")
  /\ res' = [res EXCEPT ![m] = [NoRestore EXCEPT !.pc = "check", !.root = r,
                                                 !.desc = refs[k]]]
  /\ UNCHANGED <<dir, edits, cacheVars, cap, gap>>

Lookup(m, r, k) ==
  /\ Doing(m, "idle") /\ refs[k] # NoDesc
  /\ res' = [res EXCEPT ![m] = [NoRestore EXCEPT !.pc = "check", !.root = r,
                                                 !.desc = refs[k]]]
  /\ UNCHANGED <<dir, edits, cacheVars, cap, gap>>

(* It may be moved here, and checkTargetFree finds nothing in the way: an  *)
(* empty directory is removed.                                             *)
Check(m) ==
  LET r == res[m].root IN
  /\ Doing(m, "check") /\ May(res[m].desc, r)
  /\ Goes(m, "clone")
  /\ \/ dir[r] = Empty /\ Becomes(r, Absent)
     \/ /\ dir[r] = Absent \/ (m = Overwriter /\ dir[r] # Empty)
        /\ UNCHANGED <<dir, cap, gap>>
  /\ UNCHANGED <<edits, cacheVars>>

(* The artifact may not be moved, or something is in the way.              *)
Refused(m) ==
  /\ Doing(m, "check")
  /\ \/ ~May(res[m].desc, res[m].root)
     \/ dir[res[m].root] \notin {Absent, Empty} /\ m # Overwriter
  /\ Stops(m)
  /\ UNCHANGED <<dir, edits, cacheVars, cap, gap>>

(* A clone that exists is taken to be the snapshot.                        *)
HasClone(m) ==
  /\ Doing(m, "clone") /\ Unpacked(res[m].desc) # {}
  /\ res' = [res EXCEPT ![m].pc = "copy", ![m].todo = Walked]
  /\ UNCHANGED <<dir, edits, cacheVars, cap, gap>>

(* ensureCloneSource unpacks the snapshot, if it still has its hash.       *)
Unpacks(m, x) ==
  /\ res' = [res EXCEPT ![m].pc = "publish", ![m].stage = x.holds]
  /\ UNCHANGED <<dir, edits, cacheVars, cap, gap>>
Unpack_Unchecked(m) ==
  /\ Doing(m, "clone") /\ Unpacked(res[m].desc) = {}
  /\ \E x \in NamedAfter(tars, res[m].desc.tree) : Unpacks(m, x)

Intact(d) == {x \in NamedAfter(tars, d.tree) : x.holds = x.sha}
Unpack(m) ==
  /\ Doing(m, "clone") /\ Unpacked(res[m].desc) = {}
  /\ \E x \in Intact(res[m].desc) : Unpacks(m, x)
Corrupt(m) ==
  /\ Doing(m, "clone") /\ Unpacked(res[m].desc) = {}
  /\ Intact(res[m].desc) = {}
  /\ Stops(m)
  /\ UNCHANGED <<dir, edits, cacheVars, cap, gap>>

(* The rename of the unpacked tree; a peer's that came first is as good.   *)
Publishes(m, x) ==
  /\ clones' = x
  /\ res' = [res EXCEPT ![m].pc = "copy", ![m].todo = Walked, ![m].stage = Empty]
  /\ UNCHANGED <<dir, edits, tars, refs, filed, damaged, cap, gap>>
Clone(m) == [sha |-> res[m].desc.tree, holds |-> res[m].stage]
Publish(m) ==
  /\ Doing(m, "publish")
  /\ Publishes(m, IF Unpacked(res[m].desc) # {} THEN clones ELSE clones \cup {Clone(m)})

(* One file of the copy that is made beside the target.                    *)
Copy(m, f) ==
  /\ Doing(m, "copy") /\ f \in res[m].todo
  /\ \E c \in Unpacked(res[m].desc) :
       res' = [res EXCEPT ![m].stage[f] = c.holds[f], ![m].todo = @ \ {f},
                          ![m].pc = IF res[m].todo = {f} THEN "rewrite" ELSE "copy"]
  /\ UNCHANGED <<dir, edits, cacheVars, cap, gap>>

(* applyRewrites.                                                          *)
Rewrite_Skipped(m) ==
  /\ Doing(m, "rewrite")
  /\ Goes(m, "verify")
  /\ UNCHANGED <<dir, edits, cacheVars, cap, gap>>

Rewrite(m) ==
  LET d == res[m].desc  s == res[m].stage IN
  /\ Doing(m, "rewrite")
  /\ Relocating(m) => \A f \in Rewrites(d) : s[f] # NoFile
  /\ res' = [res EXCEPT ![m].pc = "verify",
                ![m].stage = IF Relocating(m)
                             THEN Rewritten(s, Rewrites(d), d.root, res[m].root) ELSE s]
  /\ UNCHANGED <<dir, edits, cacheVars, cap, gap>>
RewriteFails(m) ==
  /\ Doing(m, "rewrite") /\ Relocating(m)
  /\ \E f \in Rewrites(res[m].desc) : res[m].stage[f] = NoFile
  /\ Stops(m)
  /\ UNCHANGED <<dir, edits, cacheVars, cap, gap>>

(* hashTree: the copy, with the relocation taken back, is the snapshot.    *)
Restored(m) ==
  LET d == res[m].desc IN
  Snapshot(IF Relocating(m)
           THEN Rewritten(res[m].stage, Rewrites(d), res[m].root, d.root)
           ELSE res[m].stage) = d.tree
Verified_Overwrites(m) ==
  /\ Doing(m, "verify")
  /\ Verify => Restored(m)
  /\ Goes(m, "swap")
  /\ UNCHANGED <<dir, edits, cacheVars, cap, gap>>

Verified(m) ==
  /\ Doing(m, "verify")
  /\ Verify => Restored(m)
  /\ Goes(m, IF m = Overwriter THEN "swap" ELSE "place")
  /\ UNCHANGED <<dir, edits, cacheVars, cap, gap>>
Mismatch(m) ==
  /\ Doing(m, "verify") /\ Verify /\ ~Restored(m)
  /\ Stops(m)
  /\ UNCHANGED <<dir, edits, cacheVars, cap, gap>>

(* The swap, first half: with Overwrite, what is there is renamed.         *)
Displace(m) ==
  LET r == res[m].root IN
  /\ Doing(m, "swap")
  /\ res' = [res EXCEPT ![m].pc = "place", ![m].aside = dir[r]]
  /\ IF dir[r] = Absent THEN UNCHANGED <<dir, cap, gap>>
     ELSE dir' = [dir EXCEPT ![r] = Absent] /\ gap' = r /\ Notices(r)
  /\ UNCHANGED <<edits, cacheVars>>

Vacant(r) == dir[r] \in {Absent, Empty}
Ends(m) == IF gap = res[m].root /\ m = Overwriter THEN gap' = Nowhere ELSE UNCHANGED gap

(* Second half: the rename succeeds where nothing or an empty directory is *)
(* in the way.                                                             *)
Place(m) ==
  LET r == res[m].root IN
  /\ Doing(m, "place") /\ Vacant(r)
  /\ Becomes(r, res[m].stage)
  /\ IF res[m].aside = Absent THEN Stops(m) ELSE Goes(m, "clean")
  /\ UNCHANGED <<edits, cacheVars>>

(* It fails, and what was displaced is renamed back if that can be done.   *)
PlaceFails(m) ==
  LET r == res[m].root IN
  /\ Doing(m, "place")
  /\ ~Vacant(r) \/ "fail" \in Faults
  /\ \/ /\ res[m].aside # Absent /\ Vacant(r)
        /\ Becomes(r, res[m].aside)
     \/ /\ res[m].aside = Absent \/ ~Vacant(r) \/ "fail" \in Faults
        /\ UNCHANGED <<dir, cap>> /\ Ends(m)
  /\ Stops(m)
  /\ UNCHANGED <<edits, cacheVars>>

Clean(m) ==
  /\ Doing(m, "clean")
  /\ Stops(m)
  /\ UNCHANGED <<dir, edits, cacheVars, cap, gap>>

(* Any other step fails or takes too long, and the copy is removed; or the *)
(* process dies.                                                           *)
Fails(m) ==
  /\ "fail" \in Faults /\ res[m].pc \notin {"idle", "place", "clean"}
  /\ Stops(m)
  /\ UNCHANGED <<dir, edits, cacheVars, cap, gap>>
Die(m) ==
  /\ "die" \in Faults /\ ~Doing(m, "idle")
  /\ Stops(m) /\ Ends(m)
  /\ UNCHANGED <<dir, edits, cacheVars, cap>>

-----------------------------------------------------------------------------
(* Files in the cache directory are changed by somebody else.              *)

Contents(f) == {NoFile} \cup UNION {{t[f] : t \in Makes[r]} : r \in Roots}
Damaged(files, x, t) == (files \ {x}) \cup {[x EXCEPT !.holds = t]}
Undamaged == Cardinality(damaged.tars) + Cardinality(damaged.clones) < MaxDamage
(* Of an archive only the hash matters, so it might as well be empty.      *)
DamageTar ==
  /\ Undamaged
  /\ \E x \in tars : /\ tars' = Damaged(tars, x, Empty)
                    /\ damaged' = [damaged EXCEPT !.tars = @ \cup {x.sha}]
  /\ UNCHANGED <<dir, edits, clones, refs, filed, cap, res, gap>>
DamageClone ==
  /\ Undamaged
  /\ \E x \in clones, f \in Walked : \E e \in Contents(f) :
       /\ clones' = Damaged(clones, x, [x.holds EXCEPT ![f] = e])
       /\ damaged' = [damaged EXCEPT !.clones = @ \cup {x.sha}]
  /\ UNCHANGED <<dir, edits, tars, refs, filed, cap, res, gap>>

OwnerStep == \E r \in Roots : MakeDir(r) \/ Remove(r) \/ \E f \in Files : Edit(r, f)
CaptureStep(c) ==
  \/ \E r \in Roots : CaptureInstall(c, r)
  \/ \E f \in Files : Walk(c, f)
  \/ Hashed(c) \/ StoreTar(c) \/ CaptureEnds(c)
  \/ \E k \in Keys : PutArtifactRef(c, k)
RestoreStep(m) ==
  \/ \E r \in Roots, k \in Keys : Lookup(m, r, k)
  \/ Check(m) \/ Refused(m) \/ HasClone(m) \/ Unpack(m) \/ Corrupt(m) \/ Publish(m)
  \/ \E f \in Files : Copy(m, f)
  \/ Rewrite(m) \/ RewriteFails(m) \/ Verified(m) \/ Mismatch(m)
  \/ Displace(m) \/ Place(m) \/ PlaceFails(m) \/ Clean(m) \/ Fails(m) \/ Die(m)

ArtNext ==
  \/ OwnerStep
  \/ \E c \in Capturers : CaptureStep(c)
  \/ \E m \in Restorers : RestoreStep(m)
  \/ DamageTar \/ DamageClone

ArtSpec == ArtInit /\ [][ArtNext]_artVars

-----------------------------------------------------------------------------
(* Properties.                                                             *)

(* The shape of the state.                                                 *)
ArtTypeOK ==
  /\ dir \in [Roots -> Tree \cup {Absent}]
  /\ edits \in 0 .. MaxEdits
  /\ tars \subseteq Stored /\ clones \subseteq Stored
  /\ \A x, y \in clones : x.sha = y.sha => x = y
  /\ refs \in [Keys -> Desc \cup {NoDesc}]
  /\ cap \in [Capturers -> CapState]
  /\ \A c \in Capturers : cap[c].pc # "idle" => cap[c].root \in Roots
  /\ res \in [Restorers -> ResState]
  /\ \A m \in Restorers : res[m].pc # "idle" => res[m].root \in Roots /\ res[m].desc \in Desc
  /\ filed \subseteq Desc
  /\ damaged \in [tars : SUBSET Tree, clones : SUBSET Tree]
  /\ gap \in Roots \cup {Nowhere}

(* A snapshot under way in a directory that nobody changed is that         *)
(* directory, as far as it was walked.                                     *)
CaptureIsDirectory ==
  \A c \in Capturers :
    cap[c].pc \in {"store", "ref"} /\ ~cap[c].moved =>
      cap[c].got = Snapshot(dir[cap[c].root])

(* A descriptor is never filed before its snapshot: a crash in between     *)
(* leaves no key that points nowhere.                                      *)
RefHasSnapshot == \A k \in Keys : refs[k] # NoDesc => NamedAfter(tars, refs[k].tree) # {}

(* "Its existence is the proof": a clone that nobody changed is the        *)
(* snapshot it is named after, whatever happened to the archive.           *)
CloneIsProof == \A x \in clones : x.sha \notin damaged.clones => x.holds = x.sha

(* What is about to be put in place is the captured environment, with the  *)
(* worktree's path exchanged and nothing else, and it may be moved here,   *)
(* even if the clone was changed before or during the copy.                *)
StageIsReplay ==
  \A m \in Restorers : Verify /\ res[m].pc \in {"swap", "place"} =>
    /\ May(res[m].desc, res[m].root)
    /\ res[m].stage = Relocated(res[m].desc, res[m].root)

(* Moved to another worktree, an environment does not name the one it came *)
(* from, and whatever else it names is left alone, /fleet/a10 included.    *)
(* Four spellings are excepted.  Replace knows no symbolic links (raw) and *)
(* takes a dot for more of the name (dotted), so these go on naming the    *)
(* old worktree; and it takes the start of a longer name for the worktree  *)
(* if the next byte is not one of a few (onward), and the end of a longer  *)
(* path in any case (tail).                                                *)
Spared(t, f, r) == {p \in t[f].names : p.root # r \/ p.form = "longer"}
Forgets(m) ==
  LET d == res[m].desc  s == res[m].stage IN
  \A f \in Written(d.tree) :
    /\ f \in Written(s)
    /\ [root |-> d.root, form |-> "real"] \notin s[f].names
    /\ Spared(d.tree, f, d.root) \subseteq s[f].names
FaithfulRelocation ==
  \A m \in Restorers :
    Verify /\ res[m].pc \in {"swap", "place"} /\ Relocating(m) => Forgets(m)

(* The guard implements what it promises about a directory: the two        *)
(* renames of a swap are one step, unless the process fails or dies        *)
(* between them.                                                           *)
Visible == [r \in Roots |-> IF gap = r THEN res[Overwriter].aside ELSE dir[r]]
Promise ==
  INSTANCE Directory WITH
    dir <- Visible,
    Trees <- Tree,
    Overwrite <- Overwriter \in Restorers,
    taken <- IF Overwriter \in Restorers THEN res[Overwriter].aside ELSE Absent,
    whole <- [r \in Roots |-> {Relocated(d, r) : d \in {e \in filed : May(e, r)}}]
DirectorySpec == Promise!DirSpec
=============================================================================
