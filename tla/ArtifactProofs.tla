--------------------------- MODULE ArtifactProofs ---------------------------
(* The artifact guard, for every set of worktrees, files, environments and *)
(* keys, any number of captures and restores at once, and whatever fails:  *)
(* its snapshots, clones and descriptors agree, what it puts in place is   *)
(* the captured environment with the worktree's path exchanged, and it     *)
(* implements what Directory promises.                                     *)
EXTENDS Artifact, FiniteSetTheorems, TLAPS

-----------------------------------------------------------------------------
(* Trees.                                                                  *)

LEMMA EmptyIsTree == Empty \in Tree
BY DEF Empty, Tree

LEMMA SnapshotIsTree ==
  ASSUME NEW t \in Tree
  PROVE  Snapshot(t) \in Tree
BY DEF Snapshot, Tree

LEMMA RenamedIsMention ==
  ASSUME NEW p \in Mention, NEW from \in Roots, NEW to \in Roots
  PROVE  Renamed(p, from, to) \in Mention
BY DEF Renamed, Mention

LEMMA ReplacedIsEntry ==
  ASSUME NEW e \in Entry, NEW from \in Roots, NEW to \in Roots
  PROVE  /\ Replaced(e, from, to) \in Entry
         /\ Replaced(e, from, to).ver = e.ver
         /\ Replaced(e, from, to).names = {Renamed(p, from, to) : p \in e.names}
<1>1. e.names \subseteq Mention
  BY DEF Entry
<1>2. {Renamed(p, from, to) : p \in e.names} \subseteq Mention
  BY <1>1, RenamedIsMention
<1> QED BY <1>2 DEF Replaced, Entry

LEMMA RewrittenIsTree ==
  ASSUME NEW t \in Tree, NEW files \in SUBSET Files, NEW from \in Roots, NEW to \in Roots
  PROVE  Rewritten(t, files, from, to) \in Tree
<1>1. ASSUME NEW f \in Files
      PROVE  Rewritten(t, files, from, to)[f] \in Entry \cup {NoFile}
  <2>1. t[f] \in Entry \cup {NoFile}
    BY DEF Tree
  <2> QED BY <2>1, ReplacedIsEntry DEF Rewritten
<1> QED BY <1>1 DEF Rewritten, Tree

(* No mention of worktree r is left that Replace would find.               *)
Clear(e, r) == \A p \in e.names : p.root = r => p.form \notin Exchanged

LEMMA ReplacedIsClear ==
  ASSUME NEW e \in Entry, NEW a \in Roots, NEW b \in Roots, a # b
  PROVE  Clear(Replaced(e, a, b), a)
<1> SUFFICES ASSUME NEW q \in Replaced(e, a, b).names, q.root = a
             PROVE  q.form \notin Exchanged
  BY DEF Clear
<1>1. PICK p \in e.names : q = Renamed(p, a, b)
  BY ReplacedIsEntry
<1>2. p \in Mention
  BY DEF Entry
<1> QED BY <1>1, <1>2 DEF Renamed, Mention

(* There and back again.                                                   *)
LEMMA ReplacedBack ==
  ASSUME NEW e \in Entry, NEW a \in Roots, NEW b \in Roots, a # b, Clear(e, a)
  PROVE  Replaced(Replaced(e, b, a), a, b) = e
<1>1. ASSUME NEW p \in e.names PROVE Renamed(Renamed(p, b, a), a, b) = p
  <2>1. p \in Mention
    BY DEF Entry
  <2>2. ~(p.root = a /\ p.form \in Exchanged)
    BY DEF Clear
  <2>3. CASE p.root = b /\ p.form \in Exchanged
    <3>1. Renamed(p, b, a) = [p EXCEPT !.root = a]
      BY <2>3 DEF Renamed
    <3>2. Renamed([p EXCEPT !.root = a], a, b) = p
      BY <2>1, <2>3 DEF Renamed, Mention
    <3> QED BY <3>1, <3>2
  <2>4. CASE ~(p.root = b /\ p.form \in Exchanged)
    BY <2>2, <2>4 DEF Renamed
  <2> QED BY <2>3, <2>4
<1> DEFINE e1 == Replaced(e, b, a)
           e2 == Replaced(e1, a, b)
<1>2. e1 \in Entry /\ e1.ver = e.ver /\ e1.names = {Renamed(p, b, a) : p \in e.names}
  BY ReplacedIsEntry
<1> HIDE DEF e1
<1>3. e2 \in Entry /\ e2.ver = e1.ver /\ e2.names = {Renamed(p, a, b) : p \in e1.names}
  BY <1>2, ReplacedIsEntry
<1> HIDE DEF e2
<1>4. e2.names = e.names
  BY <1>1, <1>2, <1>3
<1>5. e2 = e
  BY <1>2, <1>3, <1>4 DEF Entry
<1> QED BY <1>5 DEF e1, e2

LEMMA RewritesAreFiles ==
  ASSUME NEW d \in Desc
  PROVE  Rewrites(d) \subseteq Files /\ Rewrites(d) \subseteq Written(d.tree)
BY DEF Rewrites, Hits, Written

LEMMA RelocatedIsTree ==
  ASSUME NEW d \in Desc, NEW r \in Roots
  PROVE  Relocated(d, r) \in Tree
BY RewritesAreFiles, RewrittenIsTree DEF Relocated, Desc
-----------------------------------------------------------------------------
(* Types.                                                                  *)

LEMMA MakesAreTrees ==
  ASSUME NEW r \in Roots, NEW t \in Makes[r]
  PROVE  t \in Tree
BY ArtifactAssumption

LEMMA NoticesTyped ==
  ASSUME ArtTypeOK, NEW r \in Roots, Notices(r)
  PROVE  /\ cap' \in [Capturers -> CapState]
         /\ \A c \in Capturers : cap'[c].pc # "idle" => cap'[c].root \in Roots
<1>1. ASSUME NEW c \in Capturers
      PROVE  /\ cap'[c] \in CapState
             /\ cap'[c].pc # "idle" => cap'[c].root \in Roots
  <2>1. cap[c] \in CapState /\ (cap[c].pc # "idle" => cap[c].root \in Roots)
    BY DEF ArtTypeOK
  <2>2. ASSUME NEW b \in BOOLEAN
        PROVE  /\ [cap[c] EXCEPT !.moved = b] \in CapState
               /\ [cap[c] EXCEPT !.moved = b].pc = cap[c].pc
               /\ [cap[c] EXCEPT !.moved = b].root = cap[c].root
    BY <2>1 DEF CapState
  <2>3. (cap[c].moved \/ cap[c].root = r) \in BOOLEAN
    OBVIOUS
  <2>4. cap'[c] = [cap[c] EXCEPT !.moved = @ \/ cap[c].root = r]
    BY DEF Notices
  <2> QED BY <2>1, <2>2, <2>3, <2>4
<1>2. cap' = [c \in Capturers |-> cap'[c]]
  BY DEF Notices
<1> QED BY <1>1, <1>2

LEMMA BecomesTyped ==
  ASSUME ArtTypeOK, NEW r \in Roots, NEW t \in Tree \cup {Absent}, Becomes(r, t)
  PROVE  /\ dir' \in [Roots -> Tree \cup {Absent}]
         /\ gap' \in Roots \cup {Nowhere}
         /\ cap' \in [Capturers -> CapState]
         /\ \A c \in Capturers : cap'[c].pc # "idle" => cap'[c].root \in Roots
BY NoticesTyped DEF Becomes, ArtTypeOK

LEMMA OwnerTyped ==
  ASSUME ArtTypeOK, OwnerStep
  PROVE  ArtTypeOK'
<1>1. ASSUME NEW r \in Roots, NEW t \in Tree \cup {Absent}, Owned(r, t) PROVE ArtTypeOK'
  <2>1. edits' \in 0 .. MaxEdits
    BY <1>1, ArtifactAssumption DEF Owned, ArtTypeOK
  <2> QED BY <1>1, <2>1, BecomesTyped DEF Owned, ArtTypeOK, cacheVars
<1>2. ASSUME NEW r \in Roots, NEW f \in Files, Edit(r, f) PROVE ArtTypeOK'
  <2>1. PICK e \in {t[f] : t \in Makes[r]} \cup {NoFile} : Owned(r, [dir[r] EXCEPT ![f] = e])
    BY <1>2 DEF Edit
  <2>2. e \in Entry \cup {NoFile}
    BY MakesAreTrees DEF Tree
  <2>3. dir[r] \in Tree
    BY <1>2 DEF Edit, ArtTypeOK
  <2>4. [dir[r] EXCEPT ![f] = e] \in Tree
    BY <2>2, <2>3 DEF Tree
  <2> QED BY <1>1, <2>1, <2>4
<1>3. ASSUME NEW r \in Roots, MakeDir(r) \/ Remove(r) PROVE ArtTypeOK'
  BY <1>1, <1>3, EmptyIsTree DEF MakeDir, Remove
<1> QED BY <1>2, <1>3 DEF OwnerStep

LEMMA NoCaptureTyped == NoCapture \in CapState /\ NoCapture.pc = "idle"
BY EmptyIsTree DEF NoCapture, CapState

LEMMA CaptureTyped ==
  ASSUME ArtTypeOK, NEW c \in Capturers, CaptureStep(c)
  PROVE  ArtTypeOK'
<1> USE DEF ArtTypeOK, cacheVars
<1>0. cap[c] \in CapState /\ Walked \subseteq Files
  BY DEF Walked
<1>1. ASSUME NEW r \in Roots, CaptureInstall(c, r) PROVE ArtTypeOK'
  <2>1. [NoCapture EXCEPT !.pc = "walk", !.root = r, !.todo = Walked] \in CapState
    BY <1>0, NoCaptureTyped DEF CapState
  <2> QED BY <1>1, <2>1 DEF CaptureInstall
<1>2. ASSUME NEW f \in Files, Walk(c, f) PROVE ArtTypeOK'
  <2>1. cap[c].root \in Roots => dir[cap[c].root] \in Tree
    BY <1>2 DEF Walk
  <2> QED BY <1>0, <1>2, <2>1 DEF Walk, CapState, Tree
<1>3. CASE Hashed(c)
  BY <1>0, <1>3 DEF Hashed, CapState
<1>4. CASE StoreTar(c)
  BY <1>0, <1>4 DEF StoreTar, CapState, Stored
<1>5. CASE CaptureEnds(c)
  BY <1>5, NoCaptureTyped DEF CaptureEnds
<1>6. ASSUME NEW k \in Keys, PutArtifactRef(c, k) PROVE ArtTypeOK'
  <2>1. Described(c) \in Desc
    BY <1>0, <1>6 DEF Described, Desc, CapState, PutArtifactRef
  <2> QED BY <1>6, <2>1, NoCaptureTyped DEF PutArtifactRef
<1> QED BY <1>1, <1>2, <1>3, <1>4, <1>5, <1>6 DEF CaptureStep
LEMMA NoRestoreTyped == NoRestore \in ResState /\ NoRestore.pc = "idle" /\ NoRestore.aside = Absent
BY EmptyIsTree DEF NoRestore, ResState, ResPCs

LEMMA RestoreTyped ==
  ASSUME ArtTypeOK, NEW m \in Restorers, RestoreStep(m)
  PROVE  ArtTypeOK'
<1> USE DEF ArtTypeOK, cacheVars
<1>0. /\ res[m] \in ResState /\ Walked \subseteq Files
      /\ res[m].pc # "idle" => res[m].root \in Roots /\ res[m].desc \in Desc
  BY DEF Walked
<1>1. ASSUME NEW r \in Roots, NEW k \in Keys, Lookup(m, r, k) PROVE ArtTypeOK'
  <2>1. refs[k] \in Desc
    BY <1>1 DEF Lookup
  <2>2. [NoRestore EXCEPT !.pc = "check", !.root = r, !.desc = refs[k]] \in ResState
    BY <2>1, NoRestoreTyped DEF ResState, ResPCs
  <2>3. /\ [NoRestore EXCEPT !.pc = "check", !.root = r, !.desc = refs[k]].root \in Roots
        /\ [NoRestore EXCEPT !.pc = "check", !.root = r, !.desc = refs[k]].desc \in Desc
    BY <2>1, NoRestoreTyped DEF ResState
  <2> QED BY <1>1, <2>2, <2>3 DEF Lookup
<1>2. ASSUME NEW pc \in ResPCs, ~Doing(m, "idle"), Goes(m, pc)
      PROVE  /\ res' \in [Restorers -> ResState]
             /\ \A n \in Restorers : res'[n].pc # "idle" => res'[n].root \in Roots /\ res'[n].desc \in Desc
  BY <1>0, <1>2 DEF Goes, Doing, ResState
<1>3. ASSUME Stops(m)
      PROVE  /\ res' \in [Restorers -> ResState]
             /\ \A n \in Restorers : res'[n].pc # "idle" => res'[n].root \in Roots /\ res'[n].desc \in Desc
  BY <1>3, NoRestoreTyped DEF Stops
<1>4. CASE Check(m)
  <2>1. "clone" \in ResPCs
    BY DEF ResPCs
  <2>2. /\ res' \in [Restorers -> ResState]
        /\ \A n \in Restorers : res'[n].pc # "idle" => res'[n].root \in Roots /\ res'[n].desc \in Desc
    BY <1>2, <1>4, <2>1 DEF Check, Doing
  <2>3. res[m].root \in Roots
    BY <1>0, <1>4 DEF Check, Doing
  <2> QED BY <1>4, <2>2, <2>3, BecomesTyped DEF Check
<1>5. CASE Refused(m) \/ Corrupt(m) \/ RewriteFails(m) \/ Mismatch(m) \/ Clean(m) \/ Fails(m)
  BY <1>3, <1>5 DEF Refused, Corrupt, RewriteFails, Mismatch, Clean, Fails
<1>6. CASE HasClone(m)
  BY <1>0, <1>6 DEF HasClone, Doing, ResState, ResPCs
<1>7. CASE Unpack(m)
  <2>1. PICK x \in tars : Unpacks(m, x)
    BY <1>7 DEF Unpack, Intact, NamedAfter
  <2>2. x.holds \in Tree
    BY DEF Stored
  <2> QED BY <1>0, <1>7, <2>1, <2>2 DEF Unpack, Unpacks, Doing, ResState, ResPCs
<1>8. CASE Publish(m)
  <2>1. /\ res' \in [Restorers -> ResState]
        /\ \A n \in Restorers : res'[n].pc # "idle" => res'[n].root \in Roots /\ res'[n].desc \in Desc
    BY <1>0, <1>8, EmptyIsTree DEF Publish, Publishes, Doing, ResState, ResPCs
  <2>2. Clone(m) \in Stored /\ Clone(m).sha = res[m].desc.tree
    BY <1>0, <1>8 DEF Clone, Stored, Publish, Doing, ResState, Desc
  <2>3. clones' \subseteq Stored /\ \A x, y \in clones' : x.sha = y.sha => x = y
    BY <1>8, <2>2 DEF Publish, Publishes, Unpacked, NamedAfter
  <2> QED BY <1>8, <2>1, <2>3 DEF Publish, Publishes
<1>9. ASSUME NEW f \in Files, Copy(m, f) PROVE ArtTypeOK'
  <2>1. PICK c \in clones :
          res' = [res EXCEPT ![m].stage[f] = c.holds[f], ![m].todo = @ \ {f},
                             ![m].pc = IF res[m].todo = {f} THEN "rewrite" ELSE "copy"]
    BY <1>9 DEF Copy, Unpacked, NamedAfter
  <2>2. c.holds[f] \in Entry \cup {NoFile}
    BY DEF Stored, Tree
  <2>3. [res[m].stage EXCEPT ![f] = c.holds[f]] \in Tree
    BY <1>0, <2>2 DEF ResState, Tree
  <2> QED BY <1>0, <1>9, <2>1, <2>3 DEF Copy, Doing, ResState, ResPCs
<1>10. CASE Rewrite(m)
  <2> DEFINE d == res[m].desc
             new == IF Relocating(m)
                    THEN Rewritten(res[m].stage, Rewrites(d), d.root, res[m].root)
                    ELSE res[m].stage
  <2>1. d \in Desc /\ d.root \in Roots /\ res[m].root \in Roots /\ res[m].stage \in Tree
    BY <1>0, <1>10 DEF Rewrite, Doing, Desc, ResState
  <2>2. new \in Tree
    BY <2>1, RewrittenIsTree, RewritesAreFiles
  <2>3. res' = [res EXCEPT ![m].pc = "verify", ![m].stage = new]
    BY <1>10 DEF Rewrite
  <2> HIDE DEF new
  <2>4. [res[m] EXCEPT !.pc = "verify", !.stage = new] \in ResState
    BY <1>0, <2>2 DEF ResState, ResPCs
  <2>5. res' = [res EXCEPT ![m] = [res[m] EXCEPT !.pc = "verify", !.stage = new]]
    BY <2>3
  <2>6. /\ [res[m] EXCEPT !.pc = "verify", !.stage = new].root = res[m].root
        /\ [res[m] EXCEPT !.pc = "verify", !.stage = new].desc = res[m].desc
    BY <1>0 DEF ResState
  <2>7. /\ res' \in [Restorers -> ResState]
        /\ \A n \in Restorers : res'[n].pc # "idle" => res'[n].root \in Roots /\ res'[n].desc \in Desc
    BY <2>1, <2>4, <2>5, <2>6
  <2> QED BY <1>10, <2>7 DEF Rewrite
<1>11. CASE Verified(m)
  <2>1. "swap" \in ResPCs /\ "place" \in ResPCs
    BY DEF ResPCs
  <2> QED BY <1>2, <1>11, <2>1 DEF Verified, Doing
<1>12. CASE Displace(m)
  <2>1. res[m].root \in Roots
    BY <1>0, <1>12 DEF Displace, Doing
  <2>2. /\ res' \in [Restorers -> ResState]
        /\ \A n \in Restorers : res'[n].pc # "idle" => res'[n].root \in Roots /\ res'[n].desc \in Desc
    BY <1>0, <1>12, <2>1 DEF Displace, Doing, ResState, ResPCs
  <2>3. CASE dir[res[m].root] = Absent
    BY <1>12, <2>2, <2>3 DEF Displace
  <2>4. CASE dir[res[m].root] # Absent
    <3>1. dir' = [dir EXCEPT ![res[m].root] = Absent] /\ gap' = res[m].root /\ Notices(res[m].root)
      BY <1>12, <2>4 DEF Displace
    <3>2. /\ cap' \in [Capturers -> CapState]
          /\ \A c \in Capturers : cap'[c].pc # "idle" => cap'[c].root \in Roots
      BY <2>1, <3>1, NoticesTyped
    <3> QED BY <1>12, <2>1, <2>2, <3>1, <3>2 DEF Displace
  <2> QED BY <2>3, <2>4
<1>13. CASE Place(m)
  <2>1. res[m].root \in Roots /\ res[m].stage \in Tree
    BY <1>0, <1>13 DEF Place, Doing, ResState
  <2>2. /\ res' \in [Restorers -> ResState]
        /\ \A n \in Restorers : res'[n].pc # "idle" => res'[n].root \in Roots /\ res'[n].desc \in Desc
    <3>1. "clean" \in ResPCs
      BY DEF ResPCs
    <3> QED BY <1>2, <1>3, <1>13, <3>1 DEF Place, Doing
  <2>3. Becomes(res[m].root, res[m].stage) /\ UNCHANGED <<edits, cacheVars>>
    BY <1>13 DEF Place
  <2>4. /\ dir' \in [Roots -> Tree \cup {Absent}] /\ gap' \in Roots \cup {Nowhere}
        /\ cap' \in [Capturers -> CapState]
        /\ \A c \in Capturers : cap'[c].pc # "idle" => cap'[c].root \in Roots
    BY <2>1, <2>3, BecomesTyped
  <2> QED BY <2>2, <2>3, <2>4
<1>14. CASE PlaceFails(m)
  <2>1. res[m].root \in Roots /\ res[m].aside \in Tree \cup {Absent}
    BY <1>0, <1>14 DEF PlaceFails, Doing, ResState
  <2>2. CASE Becomes(res[m].root, res[m].aside)
    BY <1>3, <1>14, <2>1, <2>2, BecomesTyped DEF PlaceFails
  <2>3. CASE UNCHANGED <<dir, cap>> /\ Ends(m)
    BY <1>3, <1>14, <2>3 DEF PlaceFails, Ends
  <2> QED BY <1>14, <2>2, <2>3 DEF PlaceFails
<1>15. CASE Die(m)
  BY <1>3, <1>15 DEF Die, Ends
<1> QED BY <1>1, <1>4, <1>5, <1>6, <1>7, <1>8, <1>9, <1>10, <1>11, <1>12, <1>13, <1>14, <1>15
        DEF RestoreStep

LEMMA DamageTyped ==
  ASSUME ArtTypeOK, DamageTar \/ DamageClone
  PROVE  ArtTypeOK'
<1> USE DEF ArtTypeOK
<1>1. CASE DamageTar
  <2>1. PICK x \in tars : /\ tars' = Damaged(tars, x, Empty)
                          /\ damaged' = [damaged EXCEPT !.tars = @ \cup {x.sha}]
    BY <1>1 DEF DamageTar
  <2>2. [x EXCEPT !.holds = Empty] \in Stored /\ x.sha \in Tree
    BY EmptyIsTree DEF Stored
  <2> QED BY <1>1, <2>1, <2>2 DEF DamageTar, Damaged
<1>2. CASE DamageClone
  <2>1. PICK x \in clones, f \in Walked : \E e \in Contents(f) :
          /\ clones' = Damaged(clones, x, [x.holds EXCEPT ![f] = e])
          /\ damaged' = [damaged EXCEPT !.clones = @ \cup {x.sha}]
    BY <1>2 DEF DamageClone
  <2>2. PICK e \in Contents(f) :
          /\ clones' = Damaged(clones, x, [x.holds EXCEPT ![f] = e])
          /\ damaged' = [damaged EXCEPT !.clones = @ \cup {x.sha}]
    BY <2>1
  <2>3. e \in Entry \cup {NoFile} /\ f \in Files
    BY MakesAreTrees DEF Contents, Tree, Walked
  <2> DEFINE t == [x.holds EXCEPT ![f] = e]
             y == [x EXCEPT !.holds = t]
  <2>4. t \in Tree
    BY <2>3 DEF Stored, Tree
  <2> HIDE DEF t
  <2>5. y \in Stored /\ y.sha = x.sha /\ x.sha \in Tree
    BY <2>4 DEF Stored
  <2>6. clones' = (clones \ {x}) \cup {y} /\ damaged' = [damaged EXCEPT !.clones = @ \cup {x.sha}]
    BY <2>2 DEF Damaged, t
  <2> HIDE DEF y
  <2>7. clones' \subseteq Stored /\ \A v, w \in clones' : v.sha = w.sha => v = w
    BY <2>5, <2>6
  <2> QED BY <1>2, <2>5, <2>6, <2>7 DEF DamageClone
<1> QED BY <1>1, <1>2

LEMMA TypeStep ==
  ASSUME ArtTypeOK, [ArtNext]_artVars
  PROVE  ArtTypeOK'
<1>1. CASE UNCHANGED artVars
  BY <1>1 DEF artVars, cacheVars, ArtTypeOK
<1> QED BY <1>1, OwnerTyped, CaptureTyped, RestoreTyped, DamageTyped DEF ArtNext

LEMMA TypeInit == ArtInit => ArtTypeOK
<1> SUFFICES ASSUME ArtInit PROVE ArtTypeOK
  OBVIOUS
<1>1. dir \in [Roots -> Tree \cup {Absent}]
  BY MakesAreTrees, EmptyIsTree DEF ArtInit
<1>2. edits \in 0 .. MaxEdits
  BY ArtifactAssumption DEF ArtInit
<1>3. damaged \in [tars : SUBSET Tree, clones : SUBSET Tree]
  BY DEF ArtInit
<1> QED BY <1>1, <1>2, <1>3, NoCaptureTyped, NoRestoreTyped DEF ArtInit, ArtTypeOK

(* The shape of the state; one clone of a snapshot.                        *)
THEOREM ArtTypeCorrect == ArtSpec => []ArtTypeOK
BY TypeInit, TypeStep, PTL DEF ArtSpec
-----------------------------------------------------------------------------
(* Captures and descriptors.                                               *)

(* A capture has what it walked, unless somebody changed the directory.    *)
Walks ==
  \A c \in Capturers : cap[c].pc # "idle" =>
    /\ cap[c].todo \subseteq Walked
    /\ cap[c].pc # "walk" => cap[c].todo = {}
    /\ \A f \in Files \ Walked : cap[c].got[f] = NoFile
    /\ ~cap[c].moved => /\ dir[cap[c].root] # Absent
                        /\ \A f \in Walked \ cap[c].todo : cap[c].got[f] = dir[cap[c].root][f]

Held(files, t) == NamedAfter(files, t) # {}
Filing ==
  /\ \A c \in Capturers : cap[c].pc = "ref" => Held(tars, cap[c].got)
  /\ \A k \in Keys : refs[k] \in filed \cup {NoDesc}
  /\ \A d \in filed : Held(tars, d.tree) /\ \A f \in Files \ Walked : d.tree[f] = NoFile

CaptureInv == ArtTypeOK /\ Walks /\ Filing

(* What the steps of the others leave of a capture.                        *)
Undisturbed ==
  \A c \in Capturers :
    /\ cap'[c].pc = cap[c].pc /\ cap'[c].root = cap[c].root
    /\ cap'[c].got = cap[c].got /\ cap'[c].todo = cap[c].todo
    /\ ~cap'[c].moved =>
         ~cap[c].moved /\ (cap[c].pc # "idle" => dir'[cap[c].root] = dir[cap[c].root])

LEMMA BecomesUndisturbed ==
  ASSUME ArtTypeOK, NEW r \in Roots, Notices(r), \A q \in Roots \ {r} : dir'[q] = dir[q]
  PROVE  Undisturbed
<1> SUFFICES ASSUME NEW c \in Capturers
             PROVE  /\ cap'[c].pc = cap[c].pc /\ cap'[c].root = cap[c].root
                    /\ cap'[c].got = cap[c].got /\ cap'[c].todo = cap[c].todo
                    /\ ~cap'[c].moved =>
                         ~cap[c].moved /\ (cap[c].pc # "idle" => dir'[cap[c].root] = dir[cap[c].root])
  BY DEF Undisturbed
<1>1. cap[c] \in CapState /\ (cap[c].pc # "idle" => cap[c].root \in Roots)
  BY DEF ArtTypeOK
<1>2. cap'[c] = [cap[c] EXCEPT !.moved = @ \/ cap[c].root = r]
  BY DEF Notices
<1>3. /\ cap'[c].pc = cap[c].pc /\ cap'[c].root = cap[c].root
      /\ cap'[c].got = cap[c].got /\ cap'[c].todo = cap[c].todo
  BY <1>1, <1>2 DEF CapState
<1>4. cap'[c].moved = (cap[c].moved \/ cap[c].root = r)
  BY <1>1, <1>2, Zenon DEF CapState
<1> QED BY <1>1, <1>3, <1>4

LEMMA SameUndisturbed ==
  ASSUME UNCHANGED <<dir, cap>>
  PROVE  Undisturbed
BY DEF Undisturbed

LEMMA OthersUndisturbed ==
  ASSUME ArtTypeOK, \/ OwnerStep \/ DamageTar \/ DamageClone
                    \/ \E m \in Restorers : RestoreStep(m)
  PROVE  Undisturbed /\ refs' = refs /\ filed' = filed
<1>1. ASSUME NEW r \in Roots, NEW t, Becomes(r, t) PROVE Undisturbed
  BY <1>1, BecomesUndisturbed DEF Becomes, ArtTypeOK
<1>2. CASE OwnerStep
  BY <1>1, <1>2 DEF OwnerStep, MakeDir, Remove, Edit, Owned, cacheVars
<1>3. CASE DamageTar \/ DamageClone
  BY <1>3, SameUndisturbed DEF DamageTar, DamageClone
<1>4. ASSUME NEW m \in Restorers, RestoreStep(m)
      PROVE  Undisturbed /\ refs' = refs /\ filed' = filed
  <2> USE DEF cacheVars
  <2>1. ~Doing(m, "idle") => res[m].root \in Roots
    BY DEF ArtTypeOK, Doing
  <2>2. CASE Check(m)
    BY <1>1, <2>1, <2>2, SameUndisturbed DEF Check, Doing
  <2>3. CASE Displace(m)
    <3>1. res[m].root \in Roots
      BY <2>1, <2>3 DEF Displace, Doing
    <3>2. CASE dir[res[m].root] = Absent
      BY <2>3, <3>2, SameUndisturbed DEF Displace
    <3>3. CASE dir[res[m].root] # Absent
      <4>1. dir' = [dir EXCEPT ![res[m].root] = Absent] /\ Notices(res[m].root)
        BY <2>3, <3>3 DEF Displace
      <4>2. \A q \in Roots \ {res[m].root} : dir'[q] = dir[q]
        BY <4>1 DEF ArtTypeOK
      <4> QED BY <2>3, <3>1, <4>1, <4>2, BecomesUndisturbed DEF Displace
    <3> QED BY <3>2, <3>3
  <2>4. CASE Place(m) \/ PlaceFails(m)
    BY <1>1, <2>1, <2>4, SameUndisturbed DEF Place, PlaceFails, Doing
  <2>5. CASE \/ Refused(m) \/ HasClone(m) \/ Unpack(m) \/ Corrupt(m) \/ Publish(m)
             \/ Rewrite(m) \/ RewriteFails(m) \/ Verified(m) \/ Mismatch(m)
             \/ Clean(m) \/ Fails(m) \/ Die(m)
    BY <2>5, SameUndisturbed DEF Refused, HasClone, Unpack, Unpacks, Corrupt, Publish, Publishes,
       Rewrite, RewriteFails, Verified, Mismatch, Clean, Fails, Die
  <2>6. ASSUME NEW r \in Roots, NEW k \in Keys, Lookup(m, r, k)
        PROVE  Undisturbed /\ refs' = refs /\ filed' = filed
    BY <2>6, SameUndisturbed DEF Lookup
  <2>7. ASSUME NEW f \in Files, Copy(m, f)
        PROVE  Undisturbed /\ refs' = refs /\ filed' = filed
    BY <2>7, SameUndisturbed DEF Copy
  <2> QED BY <1>4, <2>2, <2>3, <2>4, <2>5, <2>6, <2>7 DEF RestoreStep
<1> QED BY <1>2, <1>3, <1>4 DEF DamageTar, DamageClone, OwnerStep, MakeDir, Remove, Edit, Owned, cacheVars
(* A snapshot keeps its name, whatever becomes of it.                      *)
LEMMA TarsKeepNames ==
  ASSUME ArtTypeOK, [ArtNext]_artVars
  PROVE  \A t : Held(tars, t) => Held(tars', t)
<1>1. ASSUME NEW c \in Capturers, StoreTar(c) PROVE \A t : Held(tars, t) => Held(tars', t)
  BY <1>1 DEF StoreTar, Held, NamedAfter
<1>2. CASE DamageTar
  <2>1. PICK x \in tars : tars' = Damaged(tars, x, Empty)
    BY <1>2 DEF DamageTar
  <2>2. [x EXCEPT !.holds = Empty].sha = x.sha
    BY DEF ArtTypeOK, Stored
  <2> QED BY <2>1, <2>2 DEF Damaged, Held, NamedAfter
<1>3. ASSUME tars' = tars PROVE \A t : Held(tars, t) => Held(tars', t)
  BY <1>3 DEF Held, NamedAfter
<1>4. CASE DamageClone
  BY <1>3, <1>4 DEF DamageClone
<1>5. CASE OwnerStep
  BY <1>3, <1>5 DEF OwnerStep, MakeDir, Remove, Edit, Owned, cacheVars
<1>6. CASE UNCHANGED artVars
  BY <1>3, <1>6 DEF artVars, cacheVars
<1>7. ASSUME NEW c \in Capturers, CaptureStep(c) PROVE \A t : Held(tars, t) => Held(tars', t)
  BY <1>1, <1>3, <1>7 DEF CaptureStep, CaptureInstall, Walk, Hashed, PutArtifactRef, CaptureEnds, cacheVars
<1>8. ASSUME NEW m \in Restorers, RestoreStep(m) PROVE \A t : Held(tars, t) => Held(tars', t)
  BY <1>3, <1>8 DEF RestoreStep, Lookup, Check, Refused, HasClone, Unpack, Unpacks, Corrupt,
     Publish, Publishes, Copy, Rewrite, RewriteFails, Verified, Mismatch, Displace, Place,
     PlaceFails, Clean, Fails, Die, cacheVars
<1> QED BY <1>2, <1>4, <1>5, <1>6, <1>7, <1>8 DEF ArtNext

LEMMA CaptureKept ==
  ASSUME CaptureInv, [ArtNext]_artVars, Undisturbed, refs' = refs, filed' = filed
  PROVE  Walks' /\ Filing'
<1>1. Walks'
  <2> SUFFICES ASSUME NEW c \in Capturers, cap'[c].pc # "idle"
               PROVE  /\ cap'[c].todo \subseteq Walked
                      /\ cap'[c].pc # "walk" => cap'[c].todo = {}
                      /\ \A f \in Files \ Walked : cap'[c].got[f] = NoFile
                      /\ ~cap'[c].moved =>
                           /\ dir'[cap'[c].root] # Absent
                           /\ \A f \in Walked \ cap'[c].todo : cap'[c].got[f] = dir'[cap'[c].root][f]
    BY DEF Walks
  <2> QED BY DEF CaptureInv, Walks, Undisturbed
<1>2. Filing'
  BY TarsKeepNames DEF CaptureInv, Filing, Undisturbed, Held
<1> QED BY <1>1, <1>2

LEMMA OwnCaptureStep ==
  ASSUME CaptureInv, NEW c \in Capturers, CaptureStep(c)
  PROVE  Walks' /\ Filing'
<1> USE DEF CaptureInv
<1>0. cap[c] \in CapState /\ \A b \in Capturers : cap[b] \in CapState
  BY DEF ArtTypeOK
<1>1. \A t : Held(tars, t) => Held(tars', t)
  BY TarsKeepNames DEF ArtNext
<1>2. ASSUME dir' = dir,
             NEW new, cap' = [cap EXCEPT ![c] = new],
             new.pc # "idle" =>
               /\ new.todo \subseteq Walked
               /\ new.pc # "walk" => new.todo = {}
               /\ \A f \in Files \ Walked : new.got[f] = NoFile
               /\ ~new.moved => /\ dir[new.root] # Absent
                                /\ \A f \in Walked \ new.todo : new.got[f] = dir[new.root][f]
      PROVE  Walks'
  <2>1. cap'[c] = new /\ \A b \in Capturers \ {c} : cap'[b] = cap[b]
    BY <1>2 DEF ArtTypeOK
  <2> QED BY <1>2, <2>1 DEF Walks
<1>3. ASSUME refs' = refs, filed' = filed,
             NEW new, cap' = [cap EXCEPT ![c] = new],
             new.pc = "ref" => Held(tars', new.got)
      PROVE  Filing'
  <2>1. cap'[c] = new /\ \A b \in Capturers \ {c} : cap'[b] = cap[b]
    BY <1>3 DEF ArtTypeOK
  <2>2. \A b \in Capturers : cap'[b].pc = "ref" => Held(tars', cap'[b].got)
    BY <1>1, <1>3, <2>1 DEF Filing, Held
  <2> QED BY <1>1, <1>3, <2>2 DEF Filing, Held
<1>4. ASSUME NEW r \in Roots, CaptureInstall(c, r) PROVE Walks' /\ Filing'
  <2> DEFINE new == [NoCapture EXCEPT !.pc = "walk", !.root = r, !.todo = Walked]
  <2>1. /\ new.pc = "walk" /\ new.root = r /\ new.todo = Walked
        /\ \A f \in Files : new.got[f] = NoFile
    BY DEF NoCapture, Empty
  <2>2. /\ cap' = [cap EXCEPT ![c] = new] /\ dir' = dir /\ refs' = refs /\ filed' = filed
        /\ dir[r] # Absent
    BY <1>4 DEF CaptureInstall, cacheVars
  <2> HIDE DEF new
  <2> QED BY <1>2, <1>3, <2>1, <2>2
<1>5. ASSUME NEW f \in Files, Walk(c, f) PROVE Walks' /\ Filing'
  <2> DEFINE new == [cap[c] EXCEPT !.got[f] = dir[cap[c].root][f], !.todo = @ \ {f}]
  <2>1. /\ new.pc = "walk" /\ new.root = cap[c].root /\ new.todo = cap[c].todo \ {f}
        /\ new.moved = cap[c].moved /\ new.got = [cap[c].got EXCEPT ![f] = dir[cap[c].root][f]]
    BY <1>0, <1>5 DEF Walk, CapState
  <2>2. cap[c].got \in Tree /\ f \in Walked /\ cap[c].todo \subseteq Walked /\ dir[cap[c].root] # Absent
    BY <1>0, <1>5 DEF Walk, CapState, Walks
  <2>3. /\ \A g \in Files \ {f} : new.got[g] = cap[c].got[g]
        /\ new.got[f] = dir[cap[c].root][f]
    BY <2>1, <2>2 DEF Tree
  <2>4. cap' = [cap EXCEPT ![c] = new] /\ dir' = dir /\ refs' = refs /\ filed' = filed
    BY <1>5 DEF Walk, cacheVars
  <2>5. Walked \subseteq Files
    BY DEF Walked
  <2> HIDE DEF new
  <2>6. Walks'
    <3>1. /\ new.todo \subseteq Walked
          /\ \A g \in Files \ Walked : new.got[g] = NoFile
      BY <1>5, <2>1, <2>2, <2>3 DEF Walks, Walk
    <3>2. ASSUME ~new.moved, NEW g \in Walked \ new.todo PROVE new.got[g] = dir[new.root][g]
      BY <1>5, <2>1, <2>3, <2>5, <3>2 DEF Walks, Walk
    <3> QED BY <1>2, <2>1, <2>2, <2>4, <3>1, <3>2
  <2> QED BY <1>3, <2>1, <2>4, <2>6
<1>6. CASE Hashed(c) \/ StoreTar(c)
  <2>1. PICK pc \in {"store", "ref"} :
          /\ cap' = [cap EXCEPT ![c].pc = pc] /\ dir' = dir /\ refs' = refs /\ filed' = filed
          /\ cap[c].pc # "idle" /\ cap[c].todo = {}
          /\ pc = "ref" => StoreTar(c)
    BY <1>6 DEF Hashed, StoreTar, cacheVars, Walks
  <2> DEFINE new == [cap[c] EXCEPT !.pc = pc]
  <2>2. /\ new.pc = pc /\ new.root = cap[c].root /\ new.todo = cap[c].todo
        /\ new.got = cap[c].got /\ new.moved = cap[c].moved
    BY <1>0 DEF CapState
  <2>3. cap' = [cap EXCEPT ![c] = new]
    BY <2>1
  <2>4. pc = "ref" => Held(tars', cap[c].got)
    <3> SUFFICES ASSUME StoreTar(c) PROVE Held(tars', cap[c].got)
      BY <2>1
    <3> DEFINE x == [sha |-> cap[c].got, holds |-> cap[c].got]
    <3>1. tars' = IF NamedAfter(tars, cap[c].got) # {} THEN tars ELSE tars \cup {x}
      BY DEF StoreTar
    <3>2. x.sha = cap[c].got
      OBVIOUS
    <3> HIDE DEF x
    <3>3. x \in tars' => x \in NamedAfter(tars', cap[c].got)
      BY <3>2 DEF NamedAfter
    <3> QED BY <3>1, <3>3 DEF Held
  <2> HIDE DEF new
  <2>5. Walks'
    BY <1>2, <2>1, <2>2, <2>3 DEF Walks
  <2>6. new.pc = "ref" => Held(tars', new.got)
    BY <2>1, <2>2, <2>4 DEF Held
  <2> QED BY <1>3, <2>1, <2>3, <2>5, <2>6
<1>7. CASE CaptureEnds(c)
  BY <1>2, <1>3, <1>7, NoCaptureTyped DEF CaptureEnds, cacheVars
<1>8. ASSUME NEW k \in Keys, PutArtifactRef(c, k) PROVE Walks' /\ Filing'
  <2>1. Walks'
    BY <1>2, <1>8, NoCaptureTyped DEF PutArtifactRef
  <2>2. /\ Described(c).tree = cap[c].got /\ Held(tars, cap[c].got)
        /\ \A f \in Files \ Walked : cap[c].got[f] = NoFile
    BY <1>8 DEF PutArtifactRef, Described, Filing, Walks
  <2>3. \A b \in Capturers : cap'[b].pc = "ref" => Held(tars', cap'[b].got)
    <3>1. \A b \in Capturers : cap'[b] = IF b = c THEN NoCapture ELSE cap[b]
      BY <1>8 DEF PutArtifactRef, ArtTypeOK
    <3> QED BY <1>1, <3>1, NoCaptureTyped DEF Filing, Held
  <2>4. \A d \in filed' : Held(tars', d.tree) /\ \A f \in Files \ Walked : d.tree[f] = NoFile
    BY <1>1, <1>8, <2>2 DEF PutArtifactRef, Filing, Held
  <2>5. \A j \in Keys : refs'[j] \in filed' \cup {NoDesc}
    BY <1>8 DEF PutArtifactRef, Filing, ArtTypeOK
  <2> QED BY <2>1, <2>3, <2>4, <2>5 DEF Filing, Held
<1> QED BY <1>4, <1>5, <1>6, <1>7, <1>8 DEF CaptureStep

LEMMA CaptureInvStep ==
  ASSUME CaptureInv, [ArtNext]_artVars
  PROVE  CaptureInv'
<1>1. ArtTypeOK'
  BY TypeStep DEF CaptureInv
<1>2. CASE UNCHANGED artVars
  BY <1>1, <1>2, CaptureKept, SameUndisturbed DEF artVars, cacheVars, CaptureInv
<1>3. ASSUME NEW c \in Capturers, CaptureStep(c) PROVE CaptureInv'
  BY <1>1, <1>3, OwnCaptureStep DEF CaptureInv
<1>4. CASE \/ OwnerStep \/ DamageTar \/ DamageClone
           \/ \E m \in Restorers : RestoreStep(m)
  <2>1. Undisturbed /\ refs' = refs /\ filed' = filed
    BY <1>4, OthersUndisturbed DEF CaptureInv
  <2> QED BY <1>1, <2>1, CaptureKept DEF CaptureInv
<1> QED BY <1>2, <1>3, <1>4 DEF ArtNext

LEMMA CaptureInvHolds == ArtSpec => []CaptureInv
<1>1. ArtInit => CaptureInv
  BY TypeInit, NoCaptureTyped DEF ArtInit, CaptureInv, Walks, Filing
<1>2. CaptureInv /\ [ArtNext]_artVars => CaptureInv'
  BY CaptureInvStep
<1> QED BY <1>1, <1>2, PTL DEF ArtSpec

(* A snapshot is what was there when nobody interfered.                    *)
THEOREM CaptureIsTheDirectory == ArtSpec => []CaptureIsDirectory
<1>1. CaptureInv => CaptureIsDirectory
  <2> SUFFICES ASSUME CaptureInv, NEW c \in Capturers, cap[c].pc \in {"store", "ref"}, ~cap[c].moved
               PROVE  cap[c].got = Snapshot(dir[cap[c].root])
    BY DEF CaptureIsDirectory
  <2>1. cap[c].got \in Tree
    BY DEF CaptureInv, ArtTypeOK, CapState
  <2>2. \A f \in Files : cap[c].got[f] = IF f \in Walked THEN dir[cap[c].root][f] ELSE NoFile
    BY DEF CaptureInv, Walks
  <2> QED BY <2>1, <2>2 DEF Snapshot, Tree
<1> QED BY <1>1, CaptureInvHolds, PTL

(* No key ever points to a snapshot that is not there.                     *)
THEOREM RefAlwaysHasSnapshot == ArtSpec => []RefHasSnapshot
<1>1. CaptureInv => RefHasSnapshot
  BY DEF CaptureInv, Filing, Held, RefHasSnapshot
<1> QED BY <1>1, CaptureInvHolds, PTL
-----------------------------------------------------------------------------
(* Restores.                                                               *)

(* What restorer m, in state x, has reached, of the descriptors d known.   *)
Reached(m, x, known) ==
  /\ x.aside # Absent => m = Overwriter /\ x.pc \in {"place", "clean"}
  /\ x.pc # "idle" =>
       /\ x.desc \in known
       /\ x.pc # "check" => May(x.desc, x.root)
       /\ x.todo \subseteq Walked
       /\ \A f \in Files \ Walked : x.stage[f] = NoFile
       /\ x.pc = "publish" => x.stage = x.desc.tree
       /\ x.pc = "verify" /\ x.root # x.desc.root =>
            \A f \in Rewrites(x.desc) : x.stage[f] # NoFile /\ Clear(x.stage[f], x.desc.root)
       /\ x.pc = "swap" => m = Overwriter
       /\ Verify /\ x.pc \in {"swap", "place"} => x.stage = Relocated(x.desc, x.root)

Restores == \A m \in Restorers : Reached(m, res[m], filed)

LEMMA NothingReached ==
  ASSUME NEW m, NEW known
  PROVE  Reached(m, NoRestore, known)
BY DEF NoRestore, Reached

LEMMA KnowingMore ==
  ASSUME NEW m, NEW x, NEW known, NEW more, Reached(m, x, known), known \subseteq more
  PROVE  Reached(m, x, more)
BY DEF Reached

(* The copy passes verification only if it is the environment, moved.      *)
LEMMA VerifiedIsRelocated ==
  ASSUME NEW d \in Desc, NEW r \in Roots, NEW s \in Tree,
         \A f \in Files \ Walked : s[f] = NoFile,
         r # d.root =>
           \A f \in Rewrites(d) : s[f] # NoFile /\ Clear(s[f], d.root),
         Snapshot(IF r # d.root THEN Rewritten(s, Rewrites(d), r, d.root) ELSE s) = d.tree
  PROVE  s = Relocated(d, r)
<1>0. d.tree \in Tree /\ d.root \in Roots
  BY DEF Desc
<1>1. CASE r = d.root
  <2>1. Snapshot(s) = s
    BY DEF Snapshot, Tree
  <2> QED BY <1>1, <2>1 DEF Relocated
<1>2. CASE r # d.root
  <2> DEFINE a == d.root
             back == Rewritten(s, Rewrites(d), r, a)
             forth == Rewritten(d.tree, Rewrites(d), a, r)
  <2>1. \A f \in Files : d.tree[f] = IF f \in Walked THEN back[f] ELSE NoFile
    BY <1>2 DEF Snapshot
  <2>2. ASSUME NEW f \in Files PROVE s[f] = forth[f]
    <3>1. s[f] \in Entry \cup {NoFile}
      BY DEF Tree
    <3>2. CASE f \in Rewrites(d)
      <4>1. s[f] \in Entry /\ Clear(s[f], a) /\ f \in Walked
        BY <1>2, <3>1, <3>2
      <4>2. d.tree[f] = Replaced(s[f], r, a) /\ d.tree[f] # NoFile
        BY <2>1, <3>2, <4>1, RewritesAreFiles DEF Rewritten, Written
      <4>3. forth[f] = Replaced(Replaced(s[f], r, a), a, r)
        BY <3>2, <4>2 DEF Rewritten
      <4> QED BY <1>0, <1>2, <4>1, <4>3, ReplacedBack
    <3>3. CASE f \notin Rewrites(d)
      <4>1. back[f] = s[f] /\ forth[f] = d.tree[f]
        BY <3>3 DEF Rewritten
      <4> QED BY <2>1, <4>1
    <3> QED BY <3>2, <3>3
  <2>3. s = [f \in Files |-> s[f]] /\ forth = [f \in Files |-> forth[f]]
    BY DEF Tree, Rewritten
  <2>4. s = forth
    <3> HIDE DEF forth
    <3> QED BY <2>2, <2>3
  <2> QED BY <1>2, <2>4 DEF Relocated
<1> QED BY <1>1, <1>2

RestoreInv == CaptureInv /\ Restores /\ CloneIsProof

(* Everyone else's restore is left alone, and so is a restore by everyone  *)
(* else.                                                                   *)
LEMMA OneRestores ==
  ASSUME RestoreInv, NEW m \in Restorers, NEW x, Reached(m, x, filed),
         res' = [res EXCEPT ![m] = x], filed' = filed
  PROVE  Restores'
<1>1. res'[m] = x /\ \A n \in Restorers \ {m} : res'[n] = res[n]
  BY DEF RestoreInv, CaptureInv, ArtTypeOK
<1> QED BY <1>1 DEF RestoreInv, Restores

LEMMA NobodyRestores ==
  ASSUME RestoreInv, res' = res, filed \subseteq filed'
  PROVE  Restores'
BY KnowingMore DEF RestoreInv, Restores

LEMMA OwnRestoreStep ==
  ASSUME RestoreInv, NEW m \in Restorers, RestoreStep(m)
  PROVE  Restores'
<1> DEFINE x == res[m]
           d == x.desc
<1> USE DEF cacheVars
<1>0. /\ x \in ResState /\ Reached(m, x, filed) /\ filed \subseteq Desc /\ Walked \subseteq Files
      /\ \A e \in filed : \A f \in Files \ Walked : e.tree[f] = NoFile
      /\ x.pc # "idle" => x.root \in Roots /\ d \in filed /\ d \in Desc
  BY DEF RestoreInv, CaptureInv, ArtTypeOK, Restores, Filing, Reached, Walked
<1>1. ASSUME NEW r \in Roots, NEW k \in Keys, Lookup(m, r, k) PROVE Restores'
  <2> DEFINE new == [NoRestore EXCEPT !.pc = "check", !.root = r, !.desc = refs[k]]
  <2>1. refs[k] \in filed
    BY <1>1 DEF Lookup, RestoreInv, CaptureInv, Filing
  <2>2. Reached(m, new, filed)
    BY <2>1 DEF Reached, NoRestore, Empty
  <2> QED BY <1>1, <2>2, OneRestores DEF Lookup
<1>2. CASE Stops(m) /\ filed' = filed
  BY <1>2, NothingReached, OneRestores DEF Stops
<1>3. CASE Check(m)
  <2>1. Reached(m, [x EXCEPT !.pc = "clone"], filed)
    BY <1>0, <1>3 DEF Check, Doing, Reached, ResState
  <2> QED BY <1>3, <2>1, OneRestores DEF Check, Goes
<1>4. CASE HasClone(m)
  <2>1. Reached(m, [x EXCEPT !.pc = "copy", !.todo = Walked], filed)
    BY <1>0, <1>4 DEF HasClone, Doing, Reached, ResState
  <2> QED BY <1>4, <2>1, OneRestores DEF HasClone
<1>5. CASE Unpack(m)
  <2>1. PICK y \in tars : y.sha = d.tree /\ y.holds = y.sha
                          /\ res' = [res EXCEPT ![m].pc = "publish", ![m].stage = y.holds]
    BY <1>5 DEF Unpack, Unpacks, Intact, NamedAfter
  <2>2. Reached(m, [x EXCEPT !.pc = "publish", !.stage = y.holds], filed)
    BY <1>0, <1>5, <2>1 DEF Unpack, Doing, Reached, ResState
  <2>3. filed' = filed
    BY <1>5 DEF Unpack, Unpacks
  <2>4. res' = [res EXCEPT ![m] = [x EXCEPT !.pc = "publish", !.stage = y.holds]]
    BY <2>1
  <2> QED BY <2>2, <2>3, <2>4, OneRestores
<1>6. CASE Publish(m)
  <2>1. Reached(m, [x EXCEPT !.pc = "copy", !.todo = Walked, !.stage = Empty], filed)
    BY <1>0, <1>6 DEF Publish, Doing, Reached, ResState, Empty
  <2>2. /\ res' = [res EXCEPT ![m] = [x EXCEPT !.pc = "copy", !.todo = Walked, !.stage = Empty]]
        /\ filed' = filed
    BY <1>6 DEF Publish, Publishes
  <2> QED BY <2>1, <2>2, OneRestores
<1>7. ASSUME NEW f \in Files, Copy(m, f) PROVE Restores'
  <2>1. PICK c \in Unpacked(d) :
          res' = [res EXCEPT ![m].stage[f] = c.holds[f], ![m].todo = @ \ {f},
                             ![m].pc = IF x.todo = {f} THEN "rewrite" ELSE "copy"]
    BY <1>7 DEF Copy
  <2> DEFINE pc == IF x.todo = {f} THEN "rewrite" ELSE "copy"
             stage == [x.stage EXCEPT ![f] = c.holds[f]]
             new == [x EXCEPT !.stage = stage, !.todo = @ \ {f}, !.pc = pc]
  <2>2. \A g \in Files \ {f} : stage[g] = x.stage[g]
    BY <1>0 DEF ResState, Tree
  <2>3. pc \in {"rewrite", "copy"}
    OBVIOUS
  <2>4. x.pc = "copy" /\ f \in x.todo
    BY <1>7 DEF Copy, Doing
  <2>5. res' = [res EXCEPT ![m] = new]
    BY <2>1
  <2> HIDE DEF stage, pc
  <2>6. /\ new.pc = pc /\ new.stage = stage /\ new.todo = x.todo \ {f}
        /\ new.desc = d /\ new.root = x.root /\ new.aside = x.aside
    BY <1>0 DEF ResState
  <2> HIDE DEF new
  <2>7. Reached(m, new, filed)
    BY <1>0, <2>2, <2>3, <2>4, <2>6 DEF Reached
  <2> QED BY <1>7, <2>5, <2>7, OneRestores DEF Copy
<1>8. CASE Rewrite(m)
  <2> DEFINE stage == IF Relocating(m)
                      THEN Rewritten(x.stage, Rewrites(d), d.root, x.root) ELSE x.stage
             new == [x EXCEPT !.pc = "verify", !.stage = stage]
  <2>1. x.pc = "rewrite" /\ d \in Desc /\ x.root \in Roots /\ x.stage \in Tree
        /\ (Relocating(m) => \A f \in Rewrites(d) : x.stage[f] # NoFile)
    BY <1>0, <1>8 DEF Rewrite, Doing, ResState
  <2>2. \A f \in Files \ Walked : stage[f] = NoFile
    BY <1>0, <2>1 DEF Rewritten, Reached
  <2>3. ASSUME x.root # d.root, NEW f \in Rewrites(d)
        PROVE  stage[f] # NoFile /\ Clear(stage[f], d.root)
    <3>1. f \in Files /\ x.stage[f] \in Entry /\ d.root \in Roots
      BY <2>1, <2>3, RewritesAreFiles DEF Relocating, Tree, Desc
    <3>2. stage[f] = Replaced(x.stage[f], d.root, x.root)
      BY <2>3, <3>1, ArtifactAssumption DEF Relocating, Rewritten
    <3>3. stage[f] \in Entry /\ Clear(stage[f], d.root)
      BY <2>1, <2>3, <3>1, <3>2, ReplacedIsEntry, ReplacedIsClear
    <3> QED BY <3>3, ArtifactAssumption
  <2>4. res' = [res EXCEPT ![m] = new]
    BY <1>8 DEF Rewrite
  <2> HIDE DEF stage
  <2>5. /\ new.pc = "verify" /\ new.stage = stage /\ new.todo = x.todo
        /\ new.desc = d /\ new.root = x.root /\ new.aside = x.aside
    BY <1>0 DEF ResState
  <2> HIDE DEF new
  <2>6. Reached(m, new, filed)
    BY <1>0, <2>1, <2>2, <2>3, <2>5 DEF Reached
  <2> QED BY <1>8, <2>4, <2>6, OneRestores DEF Rewrite
<1>9. CASE Verified(m)
  <2> DEFINE pc == IF m = Overwriter THEN "swap" ELSE "place"
             new == [x EXCEPT !.pc = pc]
  <2>1. x.pc = "verify" /\ d \in Desc /\ x.root \in Roots /\ x.stage \in Tree
        /\ (Verify => Restored(m))
    BY <1>0, <1>9 DEF Verified, Doing, ResState
  <2>2. Verify => x.stage = Relocated(d, x.root)
    <3>1. Restored(m) =>
            Snapshot(IF x.root # d.root THEN Rewritten(x.stage, Rewrites(d), x.root, d.root)
                     ELSE x.stage) = d.tree
      BY DEF Restored, Relocating
    <3> QED BY <1>0, <2>1, <3>1, VerifiedIsRelocated DEF Reached
  <2>3. pc \in {"swap", "place"} /\ (pc = "swap" => m = Overwriter)
    OBVIOUS
  <2>4. res' = [res EXCEPT ![m] = new]
    BY <1>9 DEF Verified, Goes
  <2> HIDE DEF pc
  <2>5. /\ new.pc = pc /\ new.stage = x.stage /\ new.todo = x.todo
        /\ new.desc = d /\ new.root = x.root /\ new.aside = x.aside
    BY <1>0 DEF ResState
  <2> HIDE DEF new
  <2>6. Reached(m, new, filed)
    BY <1>0, <2>1, <2>2, <2>3, <2>5 DEF Reached
  <2> QED BY <1>9, <2>4, <2>6, OneRestores DEF Verified
<1>10. CASE Displace(m)
  <2>1. Reached(m, [x EXCEPT !.pc = "place", !.aside = dir[x.root]], filed)
    BY <1>0, <1>10 DEF Displace, Doing, Reached, ResState
  <2> QED BY <1>10, <2>1, OneRestores DEF Displace
<1>11. CASE Place(m)
  <2>1. CASE x.aside = Absent
    BY <1>2, <1>11, <2>1 DEF Place
  <2>2. CASE x.aside # Absent
    <3>1. Reached(m, [x EXCEPT !.pc = "clean"], filed)
      BY <1>0, <1>11, <2>2 DEF Place, Doing, Reached, ResState
    <3> QED BY <1>11, <2>2, <3>1, OneRestores DEF Place, Goes
  <2> QED BY <2>1, <2>2
<1>12. CASE \/ Refused(m) \/ Corrupt(m) \/ RewriteFails(m) \/ Mismatch(m) \/ PlaceFails(m)
            \/ Clean(m) \/ Fails(m) \/ Die(m)
  BY <1>2, <1>12 DEF Refused, Corrupt, RewriteFails, Mismatch, PlaceFails, Clean, Fails, Die
<1> QED BY <1>1, <1>3, <1>4, <1>5, <1>6, <1>7, <1>8, <1>9, <1>10, <1>11, <1>12 DEF RestoreStep
LEMMA CloneStep ==
  ASSUME RestoreInv, [ArtNext]_artVars
  PROVE  CloneIsProof'
<1>1. ASSUME clones' = clones, damaged'.clones = damaged.clones PROVE CloneIsProof'
  BY <1>1 DEF RestoreInv, CloneIsProof
<1>2. CASE OwnerStep \/ UNCHANGED artVars
  BY <1>1, <1>2 DEF OwnerStep, MakeDir, Remove, Edit, Owned, cacheVars, artVars
<1>3. ASSUME NEW c \in Capturers, CaptureStep(c) PROVE CloneIsProof'
  BY <1>1, <1>3 DEF CaptureStep, CaptureInstall, Walk, Hashed, StoreTar, PutArtifactRef, CaptureEnds, cacheVars
<1>4. ASSUME NEW m \in Restorers, RestoreStep(m) PROVE CloneIsProof'
  <2>1. CASE Publish(m)
    <3>1. Clone(m).sha = Clone(m).holds
      BY <2>1 DEF RestoreInv, Restores, Reached, Publish, Doing, Clone
    <3> QED BY <2>1, <3>1 DEF Publish, Publishes, RestoreInv, CloneIsProof
  <2>2. CASE ~Publish(m)
    BY <1>1, <1>4, <2>2 DEF RestoreStep, Lookup, Check, Refused, HasClone, Unpack, Unpacks, Corrupt,
       Copy, Rewrite, RewriteFails, Verified, Mismatch, Displace, Place,
       PlaceFails, Clean, Fails, Die, cacheVars
  <2> QED BY <2>1, <2>2
<1>5. CASE DamageTar
  BY <1>1, <1>5 DEF DamageTar, RestoreInv, CaptureInv, ArtTypeOK
<1>6. CASE DamageClone
  <2>1. PICK x \in clones, f \in Walked : \E e \in Contents(f) :
          /\ clones' = Damaged(clones, x, [x.holds EXCEPT ![f] = e])
          /\ damaged' = [damaged EXCEPT !.clones = @ \cup {x.sha}]
    BY <1>6 DEF DamageClone
  <2> PICK t : clones' = Damaged(clones, x, t)
    BY <2>1
  <2>2. damaged'.clones = damaged.clones \cup {x.sha}
    BY <2>1 DEF RestoreInv, CaptureInv, ArtTypeOK
  <2>3. [x EXCEPT !.holds = t].sha = x.sha
    BY DEF RestoreInv, CaptureInv, ArtTypeOK, Stored
  <2> QED BY <2>1, <2>2, <2>3 DEF RestoreInv, CloneIsProof, Damaged
<1> QED BY <1>2, <1>3, <1>4, <1>5, <1>6 DEF ArtNext

LEMMA RestoreInvStep ==
  ASSUME RestoreInv, [ArtNext]_artVars
  PROVE  RestoreInv'
<1>1. CaptureInv' /\ CloneIsProof'
  BY CaptureInvStep, CloneStep DEF RestoreInv
<1>2. ASSUME OwnerStep \/ DamageTar \/ DamageClone \/ UNCHANGED artVars PROVE Restores'
  BY <1>2, NobodyRestores
     DEF OwnerStep, MakeDir, Remove, Edit, Owned, cacheVars, artVars, DamageTar, DamageClone
<1>3. ASSUME NEW c \in Capturers, CaptureStep(c) PROVE Restores'
  BY <1>3, NobodyRestores
     DEF CaptureStep, CaptureInstall, Walk, Hashed, StoreTar, PutArtifactRef, CaptureEnds, cacheVars
<1>4. ASSUME NEW m \in Restorers, RestoreStep(m) PROVE Restores'
  BY <1>4, OwnRestoreStep
<1> QED BY <1>1, <1>2, <1>3, <1>4 DEF RestoreInv, ArtNext

LEMMA RestoreInvInit == ArtInit => RestoreInv
BY TypeInit, NoCaptureTyped, NothingReached
   DEF ArtInit, RestoreInv, CaptureInv, Walks, Filing, Restores, CloneIsProof

LEMMA RestoreInvHolds == ArtSpec => []RestoreInv
BY RestoreInvInit, RestoreInvStep, PTL DEF ArtSpec

(* The existence of a clone proves it, as long as nobody changes it.       *)
THEOREM CloneProves == ArtSpec => []CloneIsProof
<1>1. RestoreInv => CloneIsProof
  BY DEF RestoreInv
<1> QED BY <1>1, RestoreInvHolds, PTL

(* What is put in place is the captured environment, moved.                *)
THEOREM StageAlwaysReplays == ArtSpec => []StageIsReplay
<1>1. RestoreInv => StageIsReplay
  BY DEF RestoreInv, Restores, Reached, StageIsReplay
<1> QED BY <1>1, RestoreInvHolds, PTL

LEMMA RelocatedForgets ==
  ASSUME NEW d \in Desc, NEW r \in Roots, r # d.root, May(d, r),
         NEW f \in Written(d.tree)
  PROVE  /\ f \in Written(Relocated(d, r))
         /\ [root |-> d.root, form |-> "real"] \notin Relocated(d, r)[f].names
         /\ Spared(d.tree, f, d.root) \subseteq Relocated(d, r)[f].names
<1>1. f \in Files /\ d.tree[f] \in Entry /\ d.root \in Roots
  BY DEF Written, Desc, Tree
<1>2. CASE f \in Rewrites(d)
  <2>1. Relocated(d, r)[f] = Replaced(d.tree[f], d.root, r)
    BY <1>1, <1>2 DEF Relocated, Rewritten, Written
  <2>2. /\ Relocated(d, r)[f] \in Entry
        /\ Relocated(d, r)[f].names = {Renamed(p, d.root, r) : p \in d.tree[f].names}
    BY <1>1, <2>1, ReplacedIsEntry
  <2>3. f \in Written(Relocated(d, r))
    BY <1>1, <2>2, ArtifactAssumption DEF Written
  <2>4. ASSUME NEW p \in d.tree[f].names
        PROVE  /\ Renamed(p, d.root, r) # [root |-> d.root, form |-> "real"]
               /\ p \in Spared(d.tree, f, d.root) => Renamed(p, d.root, r) = p
    <3>1. p \in Mention
      BY <1>1 DEF Entry
    <3> QED BY <3>1 DEF Renamed, Exchanged, Spared, Mention
  <2>5. Spared(d.tree, f, d.root) \subseteq d.tree[f].names
    BY DEF Spared
  <2> QED BY <2>2, <2>3, <2>4, <2>5
<1>3. CASE f \notin Rewrites(d)
  <2>1. Relocated(d, r)[f] = d.tree[f]
    BY <1>1, <1>3 DEF Relocated, Rewritten
  <2>2. ~Names(d.tree[f], d.root)
    BY <1>3 DEF May, Relocatable, Rewrites, Hits
  <2> QED BY <1>1, <2>1, <2>2 DEF Written, Names, Spared
<1> QED BY <1>2, <1>3

(* It does not name the worktree it came from, nor another instead of what *)
(* only starts like it, in the spellings that Replace tells apart.         *)
THEOREM RelocationIsFaithful == ArtSpec => []FaithfulRelocation
<1>1. RestoreInv => FaithfulRelocation
  <2> SUFFICES ASSUME RestoreInv, NEW m \in Restorers, Verify, res[m].pc \in {"swap", "place"},
                      Relocating(m)
               PROVE  Forgets(m)
    BY DEF FaithfulRelocation
  <2>1. res[m].desc \in Desc /\ res[m].root \in Roots
    BY DEF RestoreInv, CaptureInv, ArtTypeOK
  <2>2. May(res[m].desc, res[m].root) /\ res[m].stage = Relocated(res[m].desc, res[m].root)
    BY DEF RestoreInv, Restores, Reached
  <2> QED BY <2>1, <2>2, RelocatedForgets DEF Forgets, Relocating
<1> QED BY <1>1, RestoreInvHolds, PTL
-----------------------------------------------------------------------------
(* The guard implements Directory.                                         *)

Taking == IF Overwriter \in Restorers THEN res[Overwriter].aside ELSE Absent
Whole == [r \in Roots |-> {Relocated(d, r) : d \in {e \in filed : May(e, r)}}]

(* Where a directory was renamed to make room, the restore that did it is  *)
(* about to fill the place.                                                *)
Gap ==
  gap \in Roots =>
    /\ Overwriter \in Restorers
    /\ res[Overwriter].pc = "place" /\ res[Overwriter].root = gap
    /\ res[Overwriter].aside # Absent /\ dir[gap] = Absent
GuardInv == RestoreInv /\ Gap

(* Steps that touch neither a directory nor what was put aside.            *)
Apart ==
  /\ UNCHANGED <<dir, gap, edits, filed>>
  /\ Overwriter \in Restorers =>
       /\ res'[Overwriter].aside = res[Overwriter].aside
       /\ res[Overwriter].pc = "place" => res'[Overwriter] = res[Overwriter]

LEMMA ApartStutters ==
  ASSUME GuardInv, Apart
  PROVE  Gap' /\ Visible' = Visible /\ Taking' = Taking /\ Whole' = Whole /\ edits' = edits
<1>1. Gap'
  BY DEF GuardInv, Gap, Apart
<1>2. Visible' = Visible
  <2>1. \A r \in Roots : gap = r => Overwriter \in Restorers
    BY DEF GuardInv, Gap
  <2> QED BY <2>1 DEF Apart, Visible
<1>3. Taking' = Taking /\ Whole' = Whole
  BY DEF Apart, Taking, Whole
<1> QED BY <1>1, <1>2, <1>3 DEF Apart

LEMMA AsideWhenPlacing ==
  ASSUME GuardInv, NEW m \in Restorers
  PROVE  /\ res[m] \in ResState /\ (res[m].pc # "idle" => res[m].root \in Roots /\ res[m].desc \in Desc)
         /\ res[m].aside # Absent => m = Overwriter /\ res[m].pc \in {"place", "clean"}
         /\ res[m].pc = "swap" => m = Overwriter
         /\ m = Overwriter /\ res[m].pc # "place" => gap \notin Roots
BY DEF GuardInv, RestoreInv, CaptureInv, ArtTypeOK, Restores, Reached, Gap

(* A step of one restore that leaves the directories alone, and is not its *)
(* last.                                                                   *)
LEMMA PreparingIsApart ==
  ASSUME GuardInv, NEW m \in Restorers, NEW x,
         res' = [res EXCEPT ![m] = x], UNCHANGED <<dir, gap, edits, filed>>,
         res[m].pc \notin {"place", "clean"}, x.aside = Absent
  PROVE  Apart
<1>1. res'[m] = x /\ \A n \in Restorers \ {m} : res'[n] = res[n]
  BY DEF GuardInv, RestoreInv, CaptureInv, ArtTypeOK
<1>2. res[m].aside = Absent
  BY AsideWhenPlacing
<1> QED BY <1>1, <1>2 DEF Apart

LEMMA PreparingSteps ==
  ASSUME GuardInv, NEW m \in Restorers,
         \/ \E r \in Roots, k \in Keys : Lookup(m, r, k)
         \/ \E f \in Files : Copy(m, f)
         \/ Refused(m) \/ HasClone(m) \/ Unpack(m) \/ Corrupt(m) \/ Publish(m)
         \/ Rewrite(m) \/ RewriteFails(m) \/ Verified(m) \/ Mismatch(m) \/ Fails(m)
  PROVE  Apart
<1> USE DEF cacheVars
<1>0. res[m] \in ResState /\ (res[m].pc \notin {"place", "clean"} => res[m].aside = Absent)
  BY AsideWhenPlacing
<1>1. CASE \E r \in Roots, k \in Keys : Lookup(m, r, k)
  <2>1. PICK r \in Roots, k \in Keys : Lookup(m, r, k)
    BY <1>1
  <2>2. [NoRestore EXCEPT !.pc = "check", !.root = r, !.desc = refs[k]].aside = Absent
    BY DEF NoRestore
  <2> QED BY <2>1, <2>2, PreparingIsApart DEF Lookup, Doing
<1>2. CASE \E f \in Files : Copy(m, f)
  <2>1. PICK f \in Files : Copy(m, f)
    BY <1>2
  <2>2. PICK c : res' = [res EXCEPT ![m].stage[f] = c.holds[f], ![m].todo = @ \ {f},
                              ![m].pc = IF res[m].todo = {f} THEN "rewrite" ELSE "copy"]
    BY <2>1 DEF Copy
  <2> DEFINE new == [res[m] EXCEPT !.stage = [res[m].stage EXCEPT ![f] = c.holds[f]],
                       !.todo = @ \ {f},
                       !.pc = IF res[m].todo = {f} THEN "rewrite" ELSE "copy"]
  <2>3. res' = [res EXCEPT ![m] = new] /\ res[m].pc = "copy"
    BY <2>1, <2>2 DEF Copy, Doing
  <2>4. new.aside = res[m].aside
    BY <1>0 DEF ResState
  <2> HIDE DEF new
  <2> QED BY <1>0, <2>1, <2>3, <2>4, PreparingIsApart DEF Copy
<1>3. CASE Refused(m) \/ Corrupt(m) \/ RewriteFails(m) \/ Mismatch(m) \/ Fails(m)
  BY <1>3, NoRestoreTyped, PreparingIsApart
     DEF Refused, Corrupt, RewriteFails, Mismatch, Fails, Stops, Doing
<1>4. ASSUME NEW x, res' = [res EXCEPT ![m] = x], UNCHANGED <<dir, gap, edits, filed>>,
             res[m].pc \notin {"place", "clean"}, x.aside = res[m].aside
      PROVE  Apart
  BY <1>0, <1>4, PreparingIsApart
<1>5. CASE HasClone(m)
  <2> DEFINE x == [res[m] EXCEPT !.pc = "copy", !.todo = Walked]
  <2>1. res' = [res EXCEPT ![m] = x]
    BY <1>5 DEF HasClone
  <2>2. UNCHANGED <<dir, gap, edits, filed>> /\ res[m].pc = "clone"
    BY <1>5 DEF HasClone, Doing
  <2>3. x.aside = res[m].aside
    BY <1>0 DEF ResState
  <2> HIDE DEF x
  <2> QED BY <1>4, <2>1, <2>2, <2>3
<1>6. CASE Unpack(m)
  <2>1. PICK y : res' = [res EXCEPT ![m].pc = "publish", ![m].stage = y.holds]
    BY <1>6 DEF Unpack, Unpacks
  <2> DEFINE x == [res[m] EXCEPT !.pc = "publish", !.stage = y.holds]
  <2>2. res' = [res EXCEPT ![m] = x]
    BY <2>1
  <2>3. UNCHANGED <<dir, gap, edits, filed>> /\ res[m].pc = "clone"
    BY <1>6 DEF Unpack, Unpacks, Doing
  <2>4. x.aside = res[m].aside
    BY <1>0 DEF ResState
  <2> HIDE DEF x
  <2> QED BY <1>4, <2>2, <2>3, <2>4
<1>7. CASE Publish(m)
  <2> DEFINE x == [res[m] EXCEPT !.pc = "copy", !.todo = Walked, !.stage = Empty]
  <2>1. res' = [res EXCEPT ![m] = x]
    BY <1>7 DEF Publish, Publishes
  <2>2. UNCHANGED <<dir, gap, edits, filed>> /\ res[m].pc = "publish"
    BY <1>7 DEF Publish, Publishes, Doing
  <2>3. x.aside = res[m].aside
    BY <1>0 DEF ResState
  <2> HIDE DEF x
  <2> QED BY <1>4, <2>1, <2>2, <2>3
<1>8. CASE Rewrite(m)
  <2>1. PICK stage : res' = [res EXCEPT ![m].pc = "verify", ![m].stage = stage]
    BY <1>8 DEF Rewrite
  <2> DEFINE x == [res[m] EXCEPT !.pc = "verify", !.stage = stage]
  <2>2. res' = [res EXCEPT ![m] = x]
    BY <2>1
  <2>3. UNCHANGED <<dir, gap, edits, filed>> /\ res[m].pc = "rewrite"
    BY <1>8 DEF Rewrite, Doing
  <2>4. x.aside = res[m].aside
    BY <1>0 DEF ResState
  <2> HIDE DEF x
  <2> QED BY <1>4, <2>2, <2>3, <2>4
<1>9. CASE Verified(m)
  <2>1. PICK pc : res' = [res EXCEPT ![m].pc = pc]
    BY <1>9 DEF Verified, Goes
  <2> DEFINE x == [res[m] EXCEPT !.pc = pc]
  <2>2. res' = [res EXCEPT ![m] = x]
    BY <2>1
  <2>3. UNCHANGED <<dir, gap, edits, filed>> /\ res[m].pc = "verify"
    BY <1>9 DEF Verified, Goes, Doing
  <2>4. x.aside = res[m].aside
    BY <1>0 DEF ResState
  <2> HIDE DEF x
  <2> QED BY <1>4, <2>2, <2>3, <2>4
<1> QED BY <1>1, <1>2, <1>3, <1>5, <1>6, <1>7, <1>8, <1>9
----------------------------------------------------------------

(* A directory that becomes something else.                                *)
LEMMA BecomesVisible ==
  ASSUME GuardInv, NEW r \in Roots, NEW t \in Tree \cup {Absent}, Becomes(r, t),
         Overwriter \in Restorers => res'[Overwriter].aside = res[Overwriter].aside
  PROVE  /\ dir'[r] = t /\ gap' # r
         /\ Visible' = [Visible EXCEPT ![r] = t]
         /\ gap' \in Roots => gap' = gap /\ dir'[gap] = dir[gap]
<1>1. dir \in [Roots -> Tree \cup {Absent}] /\ gap \in Roots \cup {Nowhere}
  BY DEF GuardInv, RestoreInv, CaptureInv, ArtTypeOK
<1>2. dir' = [dir EXCEPT ![r] = t] /\ gap' = (IF gap = r THEN Nowhere ELSE gap)
  BY DEF Becomes
<1>3. Nowhere \notin Roots
  BY ArtifactAssumption
<1>4. \A q \in Roots \ {r} : (gap' = q <=> gap = q) /\ dir'[q] = dir[q]
  BY <1>1, <1>2, <1>3
<1>5. \A q \in Roots : gap = q => Overwriter \in Restorers
  BY DEF GuardInv, Gap
<1>6. Visible \in [Roots -> {Visible[q] : q \in Roots}]
  BY DEF Visible
<1>7. Visible'[r] = t /\ \A q \in Roots \ {r} : Visible'[q] = Visible[q]
  BY <1>1, <1>2, <1>3, <1>4, <1>5 DEF Visible
<1>8. Visible' = [Visible EXCEPT ![r] = t]
  BY <1>6, <1>7 DEF Visible
<1> QED BY <1>1, <1>2, <1>3, <1>4, <1>8

LEMMA OwnerPromise ==
  ASSUME GuardInv, OwnerStep
  PROVE  Gap' /\ Promise!DirNext
<1> USE DEF cacheVars
<1>0. dir \in [Roots -> Tree \cup {Absent}]
  BY DEF GuardInv, RestoreInv, CaptureInv, ArtTypeOK
<1>1. PICK r \in Roots, t \in Tree \cup {Absent} : Owned(r, t)
  <2>1. CASE \E r \in Roots : MakeDir(r) \/ Remove(r)
    BY <2>1, EmptyIsTree DEF MakeDir, Remove
  <2>2. CASE \E r \in Roots, f \in Files : Edit(r, f)
    <3>1. PICK r \in Roots, f \in Files : Edit(r, f)
      BY <2>2
    <3>2. PICK e \in {t[f] : t \in Makes[r]} \cup {NoFile} : Owned(r, [dir[r] EXCEPT ![f] = e])
      BY <3>1 DEF Edit
    <3>3. dir[r] \in Tree /\ e \in Entry \cup {NoFile}
      BY <1>0, <3>1, MakesAreTrees DEF Edit, Tree
    <3>4. [dir[r] EXCEPT ![f] = e] \in Tree
      BY <3>3 DEF Tree
    <3> QED BY <3>2, <3>4
  <2> QED BY <2>1, <2>2 DEF OwnerStep
<1>2. Becomes(r, t) /\ edits' = edits + 1 /\ UNCHANGED <<filed, res>>
  BY <1>1 DEF Owned
<1>3. /\ gap' # r /\ Visible' = [Visible EXCEPT ![r] = t]
      /\ gap' \in Roots => gap' = gap /\ dir'[gap] = dir[gap]
  BY <1>2, BecomesVisible
<1>4. Gap'
  BY <1>2, <1>3 DEF GuardInv, Gap
<1>5. Taking' = Taking /\ Whole' = Whole
  BY <1>2 DEF Taking, Whole
<1>6. Visible'[r] = t /\ \A q \in Roots \ {r} : Visible'[q] = Visible[q]
  BY <1>3 DEF Visible
<1>7. Promise!Owner(r)
  BY <1>2, <1>5, <1>6 DEF Promise!Owner, Promise!OnlyAt, Taking, Whole
<1> QED BY <1>4, <1>7 DEF Promise!DirNext

LEMMA CapturePromise ==
  ASSUME GuardInv, NEW c \in Capturers, CaptureStep(c)
  PROVE  Gap' /\ [Promise!DirNext]_(Promise!dirVars)
<1> USE DEF cacheVars
<1>1. CASE \E k \in Keys : PutArtifactRef(c, k)
  <2>1. UNCHANGED <<dir, gap, edits, res>> /\ filed \subseteq filed'
    BY <1>1 DEF PutArtifactRef
  <2>2. Gap'
    BY <2>1 DEF GuardInv, Gap
  <2>3. Visible' = Visible /\ Taking' = Taking
    BY <2>1 DEF Visible, Taking
  <2>4. \A r \in Roots : Whole[r] \subseteq Whole'[r]
    BY <2>1 DEF Whole
  <2>5. Promise!File
    BY <2>1, <2>3, <2>4 DEF Promise!File, Taking, Whole
  <2> QED BY <2>2, <2>5 DEF Promise!DirNext
<1>2. CASE Apart
  BY <1>2, ApartStutters DEF Promise!dirVars, Taking, Whole
<1>3. CASE ~\E k \in Keys : PutArtifactRef(c, k)
  <2>1. Apart
    BY <1>3 DEF CaptureStep, CaptureInstall, Walk, Hashed, StoreTar, CaptureEnds, Apart
  <2> QED BY <2>1, <1>2
<1> QED BY <1>1, <1>3

LEMMA ApartPromise ==
  ASSUME GuardInv, Apart
  PROVE  Gap' /\ [Promise!DirNext]_(Promise!dirVars)
BY ApartStutters DEF Promise!dirVars, Taking, Whole

(* Nothing is in the way, or an empty directory that is removed.           *)
LEMMA CheckPromise ==
  ASSUME GuardInv, NEW m \in Restorers, Check(m)
  PROVE  Gap' /\ [Promise!DirNext]_(Promise!dirVars)
<1> USE DEF cacheVars
<1> DEFINE r == res[m].root
<1> DEFINE x == [res[m] EXCEPT !.pc = "clone"]
<1>1. /\ res[m] \in ResState /\ res[m].pc = "check" /\ r \in Roots /\ res[m].aside = Absent
      /\ m = Overwriter => gap \notin Roots
  BY AsideWhenPlacing DEF Check, Doing
<1>2. res' = [res EXCEPT ![m] = x] /\ UNCHANGED <<edits, filed>>
  BY DEF Check, Goes
<1>3. x.aside = Absent
  BY <1>1 DEF ResState
<1> HIDE DEF x
<1>4. res'[m] = x /\ \A n \in Restorers \ {m} : res'[n] = res[n]
  BY <1>2 DEF GuardInv, RestoreInv, CaptureInv, ArtTypeOK
<1>5. CASE UNCHANGED <<dir, gap>>
  <2>1. Apart
    BY <1>1, <1>2, <1>3, <1>5, PreparingIsApart
  <2> QED BY <2>1, ApartPromise
<1>6. CASE dir[r] = Empty /\ Becomes(r, Absent)
  <2>1. /\ Visible' = [Visible EXCEPT ![r] = Absent] /\ gap' # r
        /\ gap' \in Roots => gap' = gap /\ dir'[gap] = dir[gap]
    BY <1>1, <1>3, <1>4, <1>6, BecomesVisible
  <2>2. Gap'
    BY <1>1, <1>4, <2>1 DEF GuardInv, Gap
  <2>3. Taking' = Taking /\ Whole' = Whole
    BY <1>1, <1>2, <1>3, <1>4 DEF Taking, Whole
  <2>4. gap # r
    BY <1>1, <1>6, EmptyIsTree, ArtifactAssumption DEF GuardInv, Gap
  <2>5. Visible[r] = Empty
    BY <1>1, <1>6, <2>4 DEF Visible
  <2>6. Promise!Clear(r)
    BY <1>2, <2>1, <2>3, <2>5 DEF Promise!Clear, Taking, Whole
  <2> QED BY <1>1, <2>2, <2>6 DEF Promise!DirNext
<1> QED BY <1>5, <1>6 DEF Check

(* The first rename of a swap; there is nothing to see yet.                *)
LEMMA DisplacePromise ==
  ASSUME GuardInv, NEW m \in Restorers, Displace(m)
  PROVE  Gap' /\ [Promise!DirNext]_(Promise!dirVars)
<1> USE DEF cacheVars
<1> DEFINE r == res[m].root
<1> DEFINE x == [res[m] EXCEPT !.pc = "place", !.aside = dir[r]]
<1>1. /\ res[m] \in ResState /\ res[m].pc = "swap" /\ r \in Roots
      /\ m = Overwriter /\ gap \notin Roots
  BY AsideWhenPlacing DEF Displace, Doing
<1>2. res' = [res EXCEPT ![m] = x] /\ UNCHANGED <<edits, filed>>
  BY DEF Displace
<1>3. x.aside = dir[r] /\ x.pc = "place" /\ x.root = r
  BY <1>1 DEF ResState
<1> HIDE DEF x
<1>4. res'[m] = x
  BY <1>2 DEF GuardInv, RestoreInv, CaptureInv, ArtTypeOK
<1>5. /\ dir \in [Roots -> Tree \cup {Absent}] /\ gap = Nowhere
      /\ Nowhere \notin Roots
  BY <1>1, ArtifactAssumption DEF GuardInv, RestoreInv, CaptureInv, ArtTypeOK
<1>6. Whole' = Whole /\ Taking' = dir[r] /\ Visible[r] = dir[r]
  BY <1>1, <1>2, <1>3, <1>4, <1>5 DEF Whole, Taking, Visible
<1>7. Gap' /\ Visible' = Visible
  <2>1. CASE dir[r] = Absent
    <3>1. UNCHANGED <<dir, gap>>
      BY <2>1 DEF Displace
    <3> QED BY <1>1, <3>1 DEF Gap, Visible
  <2>2. CASE dir[r] # Absent
    <3>1. dir' = [dir EXCEPT ![r] = Absent] /\ gap' = r
      BY <2>2 DEF Displace
    <3>2. dir'[r] = Absent /\ \A q \in Roots \ {r} : dir'[q] = dir[q]
      BY <1>1, <1>5, <3>1
    <3>3. Gap'
      BY <1>1, <1>3, <1>4, <2>2, <3>1, <3>2 DEF Gap
    <3>4. Visible' = Visible
      BY <1>1, <1>3, <1>4, <1>5, <3>1, <3>2 DEF Visible
    <3> QED BY <3>3, <3>4
  <2> QED BY <2>1, <2>2
<1>8. Promise!Take(r)
  BY <1>1, <1>2, <1>6, <1>7 DEF Promise!Take, Taking, Whole
<1> QED BY <1>1, <1>7, <1>8 DEF Promise!DirNext

(* A restore is over and leaves the directories as they are.               *)
LEMMA EndsPromise ==
  ASSUME GuardInv, NEW m \in Restorers, res[m].pc # "idle", Stops(m), Ends(m),
         UNCHANGED <<dir, edits, filed>>
  PROVE  Gap' /\ [Promise!DirNext]_(Promise!dirVars)
<1> DEFINE r == res[m].root
<1>1. r \in Roots /\ Nowhere \notin Roots /\ gap \in Roots \cup {Nowhere}
  BY ArtifactAssumption DEF GuardInv, RestoreInv, CaptureInv, ArtTypeOK
<1>2. res'[m] = NoRestore /\ \A n \in Restorers \ {m} : res'[n] = res[n]
  BY DEF Stops, GuardInv, RestoreInv, CaptureInv, ArtTypeOK
<1>3. CASE m # Overwriter
  <2>1. Apart
    BY <1>2, <1>3 DEF Ends, Apart
  <2> QED BY <2>1, ApartPromise
<1>4. CASE m = Overwriter
  <2>1. Taking' = Absent /\ Whole' = Whole /\ Taking = res[m].aside
    BY <1>2, <1>4, NoRestoreTyped DEF Taking, Whole
  <2>2. CASE gap = r
    <3>1. gap' = Nowhere
      BY <1>4, <2>2 DEF Ends
    <3>2. Visible[r] = Taking /\ Taking # Absent /\ dir[r] = Absent
      BY <1>1, <1>4, <2>1, <2>2 DEF GuardInv, Gap, Visible
    <3>3. Visible' = [Visible EXCEPT ![r] = Absent]
      BY <1>1, <2>2, <3>1, <3>2 DEF Visible
    <3>4. Promise!Lose(r)
      BY <2>1, <3>2, <3>3 DEF Promise!Lose, Promise!Taken, Taking, Whole
    <3> QED BY <1>1, <3>1, <3>4 DEF Gap, Promise!DirNext
  <2>3. CASE gap # r
    <3>1. gap \notin Roots /\ gap' = gap
      BY <1>4, <2>3 DEF Ends, GuardInv, Gap
    <3>2. Visible' = Visible
      BY <3>1 DEF Visible
    <3>3. Promise!Done
      BY <2>1, <3>2 DEF Promise!Done, Taking, Whole
    <3> QED BY <3>1, <3>3 DEF Gap, Promise!DirNext
  <2> QED BY <2>2, <2>3
<1> QED BY <1>3, <1>4

(* The second rename: the whole environment appears.                       *)
LEMMA PlacePromise ==
  ASSUME GuardInv, Verify, NEW m \in Restorers, Place(m)
  PROVE  Gap' /\ [Promise!DirNext]_(Promise!dirVars)
<1> USE DEF cacheVars
<1> DEFINE r == res[m].root
           d == res[m].desc
           x == [res[m] EXCEPT !.pc = "clean"]
<1>1. /\ res[m] \in ResState /\ res[m].pc = "place" /\ r \in Roots /\ Vacant(r)
      /\ Becomes(r, res[m].stage) /\ UNCHANGED <<edits, filed>>
  BY AsideWhenPlacing DEF Place, Doing
<1>2. /\ res[m].aside = Absent => res' = [res EXCEPT ![m] = NoRestore]
      /\ res[m].aside # Absent => res' = [res EXCEPT ![m] = x]
  BY DEF Place, Stops, Goes
<1>3. x.aside = res[m].aside
  BY <1>1 DEF ResState
<1> HIDE DEF x
<1>4. res'[m].aside = res[m].aside /\ \A n \in Restorers \ {m} : res'[n] = res[n]
  BY <1>2, <1>3, NoRestoreTyped DEF GuardInv, RestoreInv, CaptureInv, ArtTypeOK
<1>5. d \in filed /\ May(d, r) /\ res[m].stage = Relocated(d, r)
  BY <1>1 DEF GuardInv, RestoreInv, Restores, Reached
<1>6. res[m].stage \in Whole[r]
  BY <1>1, <1>5 DEF Whole
<1>7. res[m].stage \in Tree
  BY <1>1 DEF ResState
<1>8. /\ dir'[r] = res[m].stage /\ gap' # r
      /\ Visible' = [Visible EXCEPT ![r] = res[m].stage]
      /\ gap' \in Roots => gap' = gap /\ dir'[gap] = dir[gap]
  BY <1>1, <1>4, <1>7, BecomesVisible
<1>9. Gap'
  BY <1>1, <1>4, <1>8 DEF GuardInv, Gap
<1>10. Taking' = Taking /\ Whole' = Whole
  BY <1>1, <1>4 DEF Taking, Whole
<1>11. Visible[r] \in {Absent, Empty} \/ (Taking # Absent /\ Visible[r] = Taking)
  <2>1. CASE gap = r
    BY <1>1, <2>1 DEF GuardInv, Gap, Visible, Taking
  <2>2. CASE gap # r
    BY <1>1, <2>2 DEF Visible, Vacant
  <2> QED BY <2>1, <2>2
<1>12. Visible'[r] \in Whole[r] /\ \A q \in Roots \ {r} : Visible'[q] = Visible[q]
  BY <1>1, <1>6, <1>8 DEF Visible
<1>13. Promise!Restore(r)
  BY <1>1, <1>10, <1>11, <1>12
     DEF Promise!Restore, Promise!Free, Promise!Taken, Promise!OnlyAt, Taking, Whole
<1> QED BY <1>1, <1>9, <1>13 DEF Promise!DirNext

(* What was aside is renamed back.                                         *)
LEMMA RollBackPromise ==
  ASSUME GuardInv, NEW m \in Restorers, res[m].pc = "place", res[m].aside # Absent,
         Vacant(res[m].root), Becomes(res[m].root, res[m].aside), Stops(m),
         UNCHANGED <<edits, filed>>
  PROVE  Gap' /\ [Promise!DirNext]_(Promise!dirVars)
<1> DEFINE r == res[m].root
<1>1. /\ r \in Roots /\ m = Overwriter /\ res[m].aside \in Tree
      /\ Nowhere \notin Roots /\ gap \in Roots \cup {Nowhere}
      /\ dir \in [Roots -> Tree \cup {Absent}]
      /\ gap \in Roots => gap = r
  BY ArtifactAssumption, AsideWhenPlacing
     DEF GuardInv, Gap, RestoreInv, CaptureInv, ArtTypeOK, ResState
<1>2. res'[m] = NoRestore
  BY DEF Stops, GuardInv, RestoreInv, CaptureInv, ArtTypeOK
<1>3. dir' = [dir EXCEPT ![r] = res[m].aside] /\ gap' = Nowhere
  BY <1>1 DEF Becomes
<1>4. dir'[r] = res[m].aside /\ \A q \in Roots \ {r} : dir'[q] = dir[q]
  BY <1>1, <1>3
<1>5. Gap'
  BY <1>1, <1>3 DEF Gap
<1>6. Taking' = Absent /\ Whole' = Whole /\ Taking = res[m].aside
  BY <1>1, <1>2, NoRestoreTyped DEF Taking, Whole
<1>7. Visible' = [q \in Roots |-> dir'[q]]
  BY <1>1, <1>3 DEF Visible
<1>8. CASE gap = r
  <2>1. Visible' = Visible
    BY <1>1, <1>4, <1>7, <1>8 DEF Visible
  <2>2. Promise!Done
    BY <1>6, <2>1 DEF Promise!Done, Taking, Whole
  <2> QED BY <1>5, <2>2 DEF Promise!DirNext
<1>9. CASE gap # r
  <2>1. Visible = [q \in Roots |-> dir[q]]
    BY <1>1, <1>9 DEF Visible
  <2>2. Visible' = [Visible EXCEPT ![r] = Taking]
    BY <1>1, <1>4, <1>6, <1>7, <2>1
  <2>3. Visible[r] \in {Absent, Empty}
    BY <1>1, <2>1 DEF Vacant
  <2>4. Promise!Return(r)
    BY <1>6, <2>2, <2>3 DEF Promise!Return, Promise!Free, Taking, Whole
  <2> QED BY <1>1, <1>5, <2>4 DEF Promise!DirNext
<1> QED BY <1>8, <1>9

LEMMA RestorePromise ==
  ASSUME GuardInv, Verify, NEW m \in Restorers, RestoreStep(m)
  PROVE  Gap' /\ [Promise!DirNext]_(Promise!dirVars)
<1> USE DEF cacheVars
<1>1. CASE PlaceFails(m)
  <2>1. CASE res[m].aside # Absent /\ Vacant(res[m].root) /\ Becomes(res[m].root, res[m].aside)
    BY <1>1, <2>1, RollBackPromise DEF PlaceFails, Doing
  <2>2. CASE UNCHANGED dir /\ Ends(m)
    BY <1>1, <2>2, EndsPromise DEF PlaceFails, Doing
  <2> QED BY <1>1, <2>1, <2>2 DEF PlaceFails
<1>2. CASE Clean(m)
  <2>1. res[m].pc = "clean" /\ Stops(m) /\ UNCHANGED <<dir, edits, filed, gap>>
    BY <1>2 DEF Clean, Doing
  <2>2. m = Overwriter => gap \notin Roots
    BY <2>1, AsideWhenPlacing
  <2>3. res[m].root \in Roots
    BY <2>1, AsideWhenPlacing
  <2>4. Ends(m)
    BY <2>1, <2>2, <2>3 DEF Ends
  <2> QED BY <2>1, <2>4, EndsPromise
<1>3. CASE Die(m)
  BY <1>3, EndsPromise DEF Die, Doing
<1>4. CASE Check(m) \/ Displace(m) \/ Place(m)
  BY <1>4, CheckPromise, DisplacePromise, PlacePromise
<1>5. CASE \/ \E r \in Roots, k \in Keys : Lookup(m, r, k)
           \/ \E f \in Files : Copy(m, f)
           \/ Refused(m) \/ HasClone(m) \/ Unpack(m) \/ Corrupt(m) \/ Publish(m)
           \/ Rewrite(m) \/ RewriteFails(m) \/ Verified(m) \/ Mismatch(m) \/ Fails(m)
  BY <1>5, PreparingSteps, ApartPromise
<1> QED BY <1>1, <1>2, <1>3, <1>4, <1>5 DEF RestoreStep

LEMMA PromiseStep ==
  ASSUME GuardInv, Verify, [ArtNext]_artVars
  PROVE  Gap' /\ [Promise!DirNext]_(Promise!dirVars)
<1>1. CASE DamageTar \/ DamageClone \/ UNCHANGED artVars
  <2>1. Apart
    BY <1>1 DEF DamageTar, DamageClone, artVars, cacheVars, Apart
  <2> QED BY <2>1, ApartPromise
<1> QED BY <1>1, OwnerPromise, CapturePromise, RestorePromise DEF ArtNext

LEMMA PromiseInit == ArtInit => Gap /\ Promise!DirInit
<1> SUFFICES ASSUME ArtInit PROVE Gap /\ Promise!DirInit
  OBVIOUS
<1>1. gap = Nowhere /\ Nowhere \notin Roots /\ edits = 0 /\ filed = {}
      /\ res = [m \in Restorers |-> NoRestore]
  BY ArtifactAssumption DEF ArtInit
<1>2. dir \in [Roots -> Tree \cup {Absent}]
  BY TypeInit DEF ArtTypeOK
<1>3. Visible = dir /\ Taking = Absent /\ Whole = [r \in Roots |-> {}]
  BY <1>1, <1>2, NoRestoreTyped DEF Visible, Taking, Whole
<1> QED BY <1>1, <1>2, <1>3 DEF Gap, Promise!DirInit, Taking, Whole

(* With verification on, the guard implements Directory: to everybody who  *)
(* looks at a worktree, a restore is one step that puts a whole            *)
(* environment where nothing, an empty directory or one it was told to     *)
(* overwrite was; a directory is lost only by a swap that fails or dies    *)
(* between its renames, and comes back only by the rename that undoes one. *)
THEOREM GuardImplementsDirectory == Verify => (ArtSpec => DirectorySpec)
<1> SUFFICES ASSUME Verify PROVE ArtSpec => DirectorySpec
  OBVIOUS
<1>1. ArtInit => Gap /\ Promise!DirInit
  BY PromiseInit
<1>2. RestoreInv /\ Gap /\ [ArtNext]_artVars => Gap' /\ [Promise!DirNext]_(Promise!dirVars)
  BY PromiseStep DEF GuardInv
<1> QED BY <1>1, <1>2, RestoreInvHolds, PTL DEF ArtSpec, DirectorySpec, Promise!DirSpec
=============
