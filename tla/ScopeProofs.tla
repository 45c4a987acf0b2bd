---------------------------- MODULE ScopeProofs -----------------------------
(* Both tiers are sound, for every repository, every pair of trees, every  *)
(* command line and whatever the disk holds while the daemon decides: a    *)
(* record that tier 1 promotes answers as the command would, and a run of  *)
(* pytest that tier 2 promotes would load the same files again.            *)
EXTENDS ReadSet, FiniteSetTheorems, SequenceTheorems, WellFoundedInduction, TLAPS

LEMMA PrefixElements ==
  ASSUME NEW s \in Seq(STRING), NEW t \in Seq(STRING)
  PROVE  IsPrefix(s, t) <=> Len(s) <= Len(t) /\ \A i \in 1 .. Len(s) : s[i] = t[i]
<1>1. ASSUME Len(s) <= Len(t) PROVE
        (SubSeq(s, 1, Len(s)) = SubSeq(t, 1, Len(s))) <=> \A i \in 1 .. Len(s) : s[i] = t[i]
  <2>1. Len(s) \in Nat /\ Len(t) \in Nat
    OBVIOUS
  <2>2. SubSeq(s, 1, Len(s)) = [i \in 1 .. Len(s) |-> s[i]]
    BY <2>1
  <2>3. SubSeq(t, 1, Len(s)) = [i \in 1 .. Len(s) |-> t[i]]
    BY <1>1, <2>1
  <2> QED BY <2>2, <2>3
<1> QED BY <1>1 DEF IsPrefix

(* Two prefixes of one path are comparable.                                *)
LEMMA PrefixesComparable ==
  ASSUME NEW s \in Seq(STRING), NEW t \in Seq(STRING), NEW p \in Seq(STRING),
         IsPrefix(s, p), IsPrefix(t, p)
  PROVE  Conflict(s, t)
<1>1. CASE Len(s) <= Len(t)
  BY <1>1, PrefixElements DEF Conflict
<1>2. CASE Len(t) <= Len(s)
  BY <1>2, PrefixElements DEF Conflict
<1> QED BY <1>1, <1>2

LEMMA PrefixTransitive ==
  ASSUME NEW s \in Seq(STRING), NEW t \in Seq(STRING), NEW p \in Seq(STRING),
         IsPrefix(s, t), IsPrefix(t, p)
  PROVE  IsPrefix(s, p)
BY PrefixElements

(* What is comparable with a path below s is comparable with s.            *)
LEMMA ConflictBelow ==
  ASSUME NEW s \in Seq(STRING), NEW p \in Seq(STRING), NEW f \in Seq(STRING),
         IsPrefix(s, p), Conflict(p, f)
  PROVE  Conflict(s, f)
BY PrefixesComparable, PrefixTransitive DEF Conflict

LEMMA PrefixOfLonger ==
  ASSUME NEW s \in Seq(STRING), NEW t \in Seq(STRING), Len(s) <= Len(t),
         \A i \in 1 .. Len(s) : s[i] = t[i]
  PROVE  IsPrefix(s, t)
BY PrefixElements

LEMMA PrefixOfConcat ==
  ASSUME NEW s \in Seq(STRING), NEW t \in Seq(STRING)
  PROVE  IsPrefix(s, s \o t)
<1>1. s \o t \in Seq(STRING)
  OBVIOUS
<1>2. Len(s) <= Len(s \o t)
  OBVIOUS
<1>3. \A i \in 1 .. Len(s) : s[i] = (s \o t)[i]
  OBVIOUS
<1> QED BY <1>1, <1>2, <1>3, PrefixOfLonger

LEMMA LastOfConcat ==
  ASSUME NEW s \in Seq(STRING), NEW t \in Seq(STRING), Len(t) >= 1
  PROVE  /\ Len(s \o t) = Len(s) + Len(t) /\ (s \o t)[Len(s) + 1] = t[1]
         /\ \A i \in 1 .. Len(s) : (s \o t)[i] = s[i]
<1>1. Len(s) \in Nat /\ Len(s \o t) = Len(s) + Len(t)
  OBVIOUS
<1>2. \A i \in 1 .. Len(s) : (s \o t)[i] = s[i]
  OBVIOUS
<1>3. (s \o t)[Len(s) + 1] = t[1]
  OBVIOUS
<1> QED BY <1>1, <1>2, <1>3

LEMMA ExtendedByOne ==
  ASSUME NEW s \in Seq(STRING), NEW t \in Seq(STRING), Len(t) >= 1, Len(t) <= 1,
         NEW p, p = s \o t
  PROVE  /\ Len(p) = Len(s) + 1 /\ p[Len(p)] = t[1]
         /\ \A i \in 1 .. Len(s) : p[i] = s[i]
<1>1. /\ Len(p) = Len(s) + Len(t) /\ p[Len(s) + 1] = t[1]
      /\ \A i \in 1 .. Len(s) : p[i] = s[i]
  BY LastOfConcat
<1>2. Len(s) + Len(t) = Len(s) + 1
  OBVIOUS
<1>3. Len(p) = Len(s) + 1
  BY <1>1, <1>2
<1>4. p[Len(p)] = p[Len(s) + 1]
  BY <1>3
<1> QED BY <1>1, <1>3, <1>4

LEMMA EmptyIfShort ==
  ASSUME NEW s \in Seq(STRING), Len(s) < 1
  PROVE  s = <<>>
<1>1. 0 = Len(s)
  OBVIOUS
<1> QED BY <1>1

LEMMA PrefixOfAllButLast ==
  ASSUME NEW s \in Seq(STRING), Len(s) >= 1
  PROVE  IsPrefix(SubSeq(s, 1, Len(s) - 1), s)
<1>1. SubSeq(s, 1, Len(s) - 1) \in Seq(STRING)
  OBVIOUS
<1>2. Len(SubSeq(s, 1, Len(s) - 1)) <= Len(s)
  OBVIOUS
<1>3. \A i \in 1 .. Len(SubSeq(s, 1, Len(s) - 1)) : SubSeq(s, 1, Len(s) - 1)[i] = s[i]
  OBVIOUS
<1> QED BY <1>1, <1>2, <1>3, PrefixOfLonger

LEMMA SameElements ==
  ASSUME NEW s \in Seq(STRING), NEW t \in Seq(STRING),
         Len(s) = Len(t), \A k \in 1 .. Len(s) : s[k] = t[k]
  PROVE  s = t
OBVIOUS

LEMMA JoinIsPath ==
  ASSUME NEW d \in Seq(STRING), NEW w, w.up \in Nat, w.names \in Seq(STRING), ~Escapes(d, w)
  PROVE  Join(d, w) \in Seq(STRING)
<1>1. Len(d) - w.up \in 0 .. Len(d)
  BY DEF Escapes
<1>2. SubSeq(d, 1, Len(d) - w.up) \in Seq(STRING)
  BY <1>1
<1> QED BY <1>2 DEF Join

LEMMA JoinExtends ==
  ASSUME NEW d \in Seq(STRING), NEW w, w.names \in Seq(STRING), w.up = 0
  PROVE  Join(d, w) = d \o w.names /\ IsPrefix(d, Join(d, w))
<1>1. SubSeq(d, 1, Len(d) - 0) = d
  OBVIOUS
<1>2. w.names \in Seq(STRING)
  OBVIOUS
<1>3. Join(d, w) = d \o w.names
  BY <1>1 DEF Join
<1>4. IsPrefix(d, d \o w.names)
  BY <1>2, PrefixOfConcat
<1> QED BY <1>3, <1>4

-----------------------------------------------------------------------------
(* The decision.                                                           *)

LEMMA QuestionWords ==
  ASSUME NEW q \in Questions, NEW i \in DOMAIN q.cmd, NEW w \in InSegment(q, i)
  PROVE  /\ w \in Word /\ w.up \in Nat /\ w.names \in Seq(STRING) /\ Written(w)
         /\ q.cwd \in Seq(STRING) /\ q.cmd \in Seq(Segment)
<1>1. q \in [cwd : Seq(STRING), cmd : Seq(Segment)]
  BY ScopeAssumption
<1>2. q.cmd[i] \in Segment
  BY <1>1
<1>3. PICK j \in DOMAIN q.cmd[i].words : w = q.cmd[i].words[j]
  BY DEF InSegment
<1>4. q.cmd[i].words \in Seq(Word)
  BY <1>2 DEF Segment
<1>5. q.cmd[i].words[j] \in Word
  BY <1>3, <1>4
<1>6. Written(q.cmd[i].words[j])
  BY <1>3, ScopeAssumption
<1> QED BY <1>1, <1>3, <1>5, <1>6 DEF Word

(* A scoped word shields whatever is comparable with a path below it.      *)
LEMMA ScopedIsShielded ==
  ASSUME NEW q \in Questions, NEW i \in DOMAIN q.cmd, NEW w \in InSegment(q, i),
         NEW old \in Trees, NEW new \in Trees, NEW onDisk,
         ScopeMatch(q, old, new, onDisk), IsScoped(q.cwd, w, onDisk),
         NEW p \in Seq(STRING), NEW f \in Files,
         IsPrefix(Join(q.cwd, w), p), Conflict(p, f)
  PROVE  old[f] = new[f]
<1> DEFINE s == Join(q.cwd, w)
<1>1. w.up \in Nat /\ w.names \in Seq(STRING) /\ q.cwd \in Seq(STRING)
  BY QuestionWords
<1>2. ~Escapes(q.cwd, w)
  BY DEF ScopeMatch, Bounded, Refuses, IsScoped
<1>3. s \in Seq(STRING) /\ f \in Seq(STRING)
  BY <1>1, <1>2, JoinIsPath, ScopeAssumption
<1>4. s \in ScopePaths(q, onDisk)
  BY DEF ScopePaths, ScopeOf
<1>5. Conflict(s, f)
  BY <1>3, ConflictBelow
<1> QED BY <1>4, <1>5 DEF ScopeMatch, Changed

(* A word the classifier drops names nothing that changed.                 *)
LEMMA DroppedIsUnchanged ==
  ASSUME NEW q \in Questions, NEW i \in DOMAIN q.cmd, NEW w \in InSegment(q, i),
         NEW old \in Trees, NEW new \in Trees, NEW onDisk,
         ScopeMatch(q, old, new, onDisk),
         HasDir(old, q.cwd), HasDir(new, q.cwd),
         NoLostDirectory(q, old, onDisk), NoLostDirectory(q, new, onDisk),
         w.kind = "path", ~LooksLikePath(q.cwd, w, onDisk),
         NEW f \in Files, Conflict(Join(q.cwd, w), f)
  PROVE  old[f] = new[f]
<1> DEFINE p == Join(q.cwd, w)
<1>1. /\ w \in Word /\ w.up \in Nat /\ w.names \in Seq(STRING) /\ Written(w)
      /\ q.cwd \in Seq(STRING) /\ f \in Seq(STRING)
  BY QuestionWords, ScopeAssumption
<1>2. ~w.slash /\ ~Escapes(q.cwd, w)
  BY DEF LooksLikePath
<1>3. p \in Seq(STRING)
  BY <1>1, <1>2, JoinIsPath
<1>4. ~(w.up = 0 /\ w.names = <<>>) /\ ~Collides(w, Changed(old, new))
  <2>1. ~Refuses(q.cwd, w, onDisk, Changed(old, new))
    BY DEF ScopeMatch, Bounded
  <2> QED BY <1>2, <2>1 DEF Refuses
<1>5. ASSUME IsPrefix(f, q.cwd) PROVE old[f] = new[f]
  BY <1>5 DEF HasDir, Present
<1>6. ASSUME IsPrefix(p, f), p # f PROVE old[f] = new[f]
  BY <1>6 DEF NoLostDirectory, Present, IsStrictPrefix
<1>7. CASE w.up = 1 /\ w.names = <<>>
  <2>1. IsPrefix(p, q.cwd)
    <3>1. Len(q.cwd) >= 1
      BY <1>1, <1>2, <1>7 DEF Escapes
    <3>2. p = SubSeq(q.cwd, 1, Len(q.cwd) - 1)
      <4>1. SubSeq(q.cwd, 1, Len(q.cwd) - 1) \in Seq(STRING)
        BY <1>1, <3>1
      <4> QED BY <1>7, <4>1 DEF Join
    <3> QED BY <1>1, <3>1, <3>2, PrefixOfAllButLast
  <2>2. CASE IsPrefix(f, p)
    BY <1>1, <1>3, <1>5, <2>1, <2>2, PrefixTransitive
  <2>3. CASE IsPrefix(p, f)
    <3>1. CASE p = f
      BY <1>5, <2>1, <3>1
    <3> QED BY <1>6, <2>3, <3>1
  <2> QED BY <2>2, <2>3 DEF Conflict
<1>8. CASE w.up = 0 /\ Len(w.names) <= 1 /\ Len(w.names) >= 1
  <2>1. p = q.cwd \o w.names /\ w.names \in Seq(STRING)
    BY <1>1, <1>8, JoinExtends DEF Word
  <2>2. /\ Len(p) = Len(q.cwd) + 1 /\ p[Len(p)] = w.names[1]
        /\ \A k \in 1 .. Len(q.cwd) : p[k] = q.cwd[k]
    <3> DEFINE t == w.names
    <3> HIDE DEF p
    <3>1. q.cwd \in Seq(STRING) /\ t \in Seq(STRING) /\ Len(t) >= 1 /\ Len(t) <= 1
      BY <1>1, <1>8, <2>1
    <3>2. p = q.cwd \o t
      BY <2>1
    <3> HIDE DEF t
    <3>3. /\ Len(p) = Len(q.cwd) + 1 /\ p[Len(p)] = t[1]
          /\ \A k \in 1 .. Len(q.cwd) : p[k] = q.cwd[k]
      BY <3>1, <3>2, ExtendedByOne
    <3> QED BY <3>3 DEF t
  <2>3. CASE p = f
    <3>1. Last(f) = w.names[1]
      BY <2>2, <2>3 DEF Last
    <3>2. w.names = <<Last(f)>>
      BY <1>8, <2>1, <3>1
    <3> QED BY <1>4, <3>2 DEF Collides, Changed
  <2>4. CASE IsPrefix(f, p) /\ f # p
    <3>1. Len(f) <= Len(p) /\ \A k \in 1 .. Len(f) : f[k] = p[k]
      BY <1>1, <1>3, <2>4, PrefixElements
    <3>2. Len(f) # Len(p)
      <4> HIDE DEF p
      <4> QED BY <1>1, <1>3, <2>4, <3>1, SameElements
    <3>3. Len(f) <= Len(q.cwd) /\ \A k \in 1 .. Len(f) : f[k] = q.cwd[k]
      <4> HIDE DEF p
      <4>1. Len(f) \in Nat /\ Len(q.cwd) \in Nat
        BY <1>1
      <4>2. Len(f) <= Len(q.cwd)
        BY <2>2, <3>1, <3>2, <4>1
      <4> QED BY <2>2, <3>1, <4>1, <4>2
    <3>4. IsPrefix(f, q.cwd)
      BY <1>1, <3>3, PrefixElements
    <3> QED BY <1>5, <3>4
  <2> QED BY <1>6, <2>3, <2>4 DEF Conflict
<1>9. CASE w.up = 0 /\ Len(w.names) < 1
  <2>1. w.names \in Seq(STRING)
    BY <1>1 DEF Word
  <2>2. w.names = <<>>
    BY <1>9, <2>1, EmptyIfShort
  <2> QED BY <1>4, <1>9, <2>2
<1> QED BY <1>1, <1>2, <1>7, <1>8, <1>9 DEF Written

(* Where a walk through the segments arrives: where it set out, or below a *)
(* directory that the words of some cd name from there, for after the      *)
(* first cd no word climbs.  The first segment of which this were not true *)
(* would be the second segment or a later one, and come after one of which *)
(* it is.                                                                  *)
CdBelow(q, i, d) ==
  \E j \in DOMAIN q.cmd : j < i /\ q.cmd[j].head = "cd" /\
    \E w \in InSegment(q, j) :
      MayName(w) /\ ~Escapes(q.cwd, w) /\ IsPrefix(Join(q.cwd, w), d)
Arrives(q, i, d) == d \in Seq(STRING) /\ (d = q.cwd \/ CdBelow(q, i, d))

LEMMA ReadingsAreWords ==
  ASSUME NEW q \in Questions, ReadsOnlyItsWords(q), MeansWhatItSays(q),
         NEW i \in DOMAIN q.cmd, NEW w \in Readings(q, i)
  PROVE  w \in InSegment(q, i) /\ MayName(w)
BY DEF Readings, ReadsOnlyItsWords, MeansWhatItSays

LEMMA OneStep ==
  ASSUME NEW q \in Questions, ReadsOnlyItsWords(q), MeansWhatItSays(q), NoClimbAfterCd(q),
         NEW at \in Walks(q), NEW i \in DOMAIN q.cmd, i # 1,
         Arrives(q, i - 1, at[i - 1])
  PROVE  Arrives(q, i, at[i])
<1>1. /\ q.cmd \in Seq(Segment) /\ q.cwd \in Seq(STRING)
      /\ i \in Nat /\ i - 1 \in Nat /\ i - 1 < i /\ i - 1 \in DOMAIN q.cmd
  <2>1. q.cmd \in Seq(Segment) /\ q.cwd \in Seq(STRING)
    BY ScopeAssumption
  <2>2. i \in 1 .. Len(q.cmd) /\ Len(q.cmd) \in Nat
    BY <2>1
  <2>3. i - 1 \in 1 .. Len(q.cmd)
    BY <2>2
  <2> QED BY <2>1, <2>2, <2>3
<1>2. CASE at[i] = at[i - 1]
  <2>1. ASSUME NEW j \in DOMAIN q.cmd, j < i - 1 PROVE j < i
    <3>1. j \in 1 .. Len(q.cmd)
      BY <1>1
    <3> QED BY <1>1, <2>1, <3>1
  <2> QED BY <1>2, <2>1 DEF Arrives, CdBelow
<1>3. CASE at[i] # at[i - 1]
  <2>1. q.cmd[i - 1].head = "cd" /\ at[i] \in From(at[i - 1], Readings(q, i - 1))
    BY <1>3 DEF Walks
  <2>2. PICK w \in Readings(q, i - 1) : ~Escapes(at[i - 1], w) /\ at[i] = Join(at[i - 1], w)
    BY <2>1 DEF From
  <2>3. w \in InSegment(q, i - 1) /\ MayName(w)
    BY <1>1, ReadingsAreWords
  <2>4. w \in Word /\ w.up \in Nat /\ w.names \in Seq(STRING)
    BY <1>1, <2>3, QuestionWords
  <2>5. at[i] \in Seq(STRING)
    BY <2>2, <2>4, JoinIsPath DEF Arrives
  <2>6. CASE at[i - 1] = q.cwd
    <3>1. IsPrefix(Join(q.cwd, w), at[i])
      BY <2>2, <2>5, <2>6, PrefixElements
    <3> QED BY <1>1, <2>1, <2>2, <2>3, <2>5, <2>6, <3>1 DEF Arrives, CdBelow
  <2>7. CASE at[i - 1] # q.cwd
    <3>1. PICK j \in DOMAIN q.cmd : j < i - 1 /\ q.cmd[j].head = "cd" /\
            \E v \in InSegment(q, j) :
              MayName(v) /\ ~Escapes(q.cwd, v) /\ IsPrefix(Join(q.cwd, v), at[i - 1])
      BY <2>7 DEF Arrives, CdBelow
    <3>2. PICK v \in InSegment(q, j) :
            MayName(v) /\ ~Escapes(q.cwd, v) /\ IsPrefix(Join(q.cwd, v), at[i - 1])
      BY <3>1
    <3>3. w.up = 0
      BY <1>1, <2>3, <3>1 DEF NoClimbAfterCd
    <3>4. IsPrefix(at[i - 1], at[i])
      BY <2>2, <2>4, <3>3, JoinExtends DEF Arrives
    <3>5. Join(q.cwd, v) \in Seq(STRING)
      BY <1>1, <3>2, QuestionWords, JoinIsPath
    <3>6. IsPrefix(Join(q.cwd, v), at[i])
      BY <2>5, <3>2, <3>4, <3>5, PrefixTransitive DEF Arrives
    <3>7. j < i
      <4>1. j \in 1 .. Len(q.cmd)
        BY <1>1
      <4> QED BY <1>1, <3>1, <4>1
    <3> QED BY <2>5, <3>1, <3>2, <3>6, <3>7 DEF Arrives, CdBelow
  <2> QED BY <2>6, <2>7
<1> QED BY <1>2, <1>3

LEMMA WalksArrive ==
  ASSUME NEW q \in Questions, ReadsOnlyItsWords(q), MeansWhatItSays(q), NoClimbAfterCd(q),
         NEW i \in DOMAIN q.cmd, NEW d \in DirsOf(q, i)
  PROVE  Arrives(q, i, d)
<1>1. PICK at \in Walks(q) : d = at[i]
  BY DEF DirsOf
<1> DEFINE Lost == {j \in DOMAIN q.cmd : ~Arrives(q, j, at[j])}
<1>2. q.cmd \in Seq(Segment) /\ q.cwd \in Seq(STRING)
  BY ScopeAssumption
<1>3. Lost \subseteq Nat /\ \A j \in Lost : j \in 1 .. Len(q.cmd)
  BY <1>2
<1>4. SUFFICES ASSUME Lost # {} PROVE FALSE
  BY <1>1
<1>5. PICK k \in Lost : \A j \in Lost : ~(j < k)
  <2> HIDE DEF Lost
  <2> DEFINE R == OpToRel(<, Nat)
  <2>1. \A j, l \in Nat : j < l => <<j, l>> \in R
    BY DEF OpToRel
  <2>2. \E l \in Lost : \A j \in Lost : <<j, l>> \notin R
    <3> HIDE DEF R
    <3> QED BY <1>3, <1>4, NatLessThanWellFounded, WFMin DEF R
  <2> QED BY <1>3, <2>1, <2>2
<1>6. CASE k = 1
  <2>1. at[k] = q.cwd
    BY <1>6 DEF Walks
  <2> QED BY <1>2, <2>1 DEF Arrives
<1>7. CASE k # 1
  <2>1. k - 1 \in 1 .. Len(q.cmd) /\ k - 1 < k
    BY <1>2, <1>3, <1>7
  <2>2. k - 1 \in DOMAIN q.cmd
    BY <1>2, <2>1
  <2>3. Arrives(q, k - 1, at[k - 1])
    BY <1>5, <2>1, <2>2
  <2> QED BY <1>7, <2>3, OneStep
<1> QED BY <1>6, <1>7

(* The decision is sound, whatever the trees and the disk.  What a segment *)
(* looks at is, or is below, what a word names where the command was       *)
(* issued: a word of its own, or one of a cd before it.                    *)
LEMMA ScopeMatchSound ==
  ASSUME NEW q \in Questions, NEW old \in Trees, NEW new \in Trees, NEW onDisk,
         ScopeMatch(q, old, new, onDisk),
         HasDir(old, q.cwd), HasDir(new, q.cwd),
         FlagsNameNothing(q), NoClimbAfterCd(q), ReadsOnlyItsWords(q), MeansWhatItSays(q),
         NoLostDirectory(q, old, onDisk), NoLostDirectory(q, new, onDisk),
         LeadsNowhere(q, old), LeadsNowhere(q, new)
  PROVE  SameAnswer(q, old, new)
<1> SUFFICES ASSUME NEW p \in Looks(q), NEW f \in Shows(p)
             PROVE  old[f] = new[f]
  BY DEF SameAnswer, LeadsNowhere
<1>1. PICK i \in DOMAIN q.cmd : \E d \in DirsOf(q, i) : p \in From(d, Readings(q, i))
  BY DEF Looks
<1>2. PICK d \in DirsOf(q, i) : p \in From(d, Readings(q, i))
  BY <1>1
<1>3. PICK w \in Readings(q, i) : ~Escapes(d, w) /\ p = Join(d, w)
  BY <1>2 DEF From
<1>4. w \in InSegment(q, i) /\ MayName(w)
  BY ReadingsAreWords
<1>5. w \in Word /\ w.up \in Nat /\ w.names \in Seq(STRING) /\ q.cwd \in Seq(STRING)
  BY <1>4, QuestionWords
<1>6. Arrives(q, i, d)
  BY WalksArrive
<1>7. f \in Files /\ f \in Seq(STRING) /\ Conflict(p, f)
  BY ScopeAssumption DEF Shows
<1>8. p \in Seq(STRING)
  BY <1>3, <1>5, <1>6, JoinIsPath DEF Arrives
<1>9. PICK j \in DOMAIN q.cmd : \E v \in InSegment(q, j) :
        MayName(v) /\ ~Escapes(q.cwd, v) /\ IsPrefix(Join(q.cwd, v), p)
  <2>1. CASE d = q.cwd
    <3>1. IsPrefix(Join(q.cwd, w), p)
      BY <1>3, <1>8, <2>1, PrefixElements
    <3> QED BY <1>3, <1>4, <2>1, <3>1
  <2>2. CASE d # q.cwd
    <3>1. PICK k \in DOMAIN q.cmd : k < i /\ q.cmd[k].head = "cd" /\
            \E v \in InSegment(q, k) :
              MayName(v) /\ ~Escapes(q.cwd, v) /\ IsPrefix(Join(q.cwd, v), d)
      BY <1>6, <2>2 DEF Arrives, CdBelow
    <3>2. PICK v \in InSegment(q, k) :
            MayName(v) /\ ~Escapes(q.cwd, v) /\ IsPrefix(Join(q.cwd, v), d)
      BY <3>1
    <3>3. w.up = 0
      BY <1>4, <3>1 DEF NoClimbAfterCd
    <3>4. d \in Seq(STRING) /\ IsPrefix(d, p)
      BY <1>3, <1>5, <1>6, <3>3, JoinExtends DEF Arrives
    <3>5. Join(q.cwd, v) \in Seq(STRING)
      BY <1>5, <3>2, QuestionWords, JoinIsPath
    <3>6. IsPrefix(Join(q.cwd, v), p)
      BY <1>8, <3>2, <3>4, <3>5, PrefixTransitive
    <3> QED BY <3>2, <3>6
  <2> QED BY <2>1, <2>2
<1>10. PICK v \in InSegment(q, j) :
         MayName(v) /\ ~Escapes(q.cwd, v) /\ IsPrefix(Join(q.cwd, v), p)
  BY <1>9
<1>11. v.kind = "path" /\ Join(q.cwd, v) \in Seq(STRING)
  <2>1. v \in Word /\ v.up \in Nat /\ v.names \in Seq(STRING)
    BY QuestionWords
  <2>2. v.kind = "path"
    BY <1>10, <2>1 DEF FlagsNameNothing, MayName
  <2> QED BY <1>5, <1>10, <2>1, <2>2, JoinIsPath
<1>12. CASE LooksLikePath(q.cwd, v, onDisk)
  BY <1>7, <1>8, <1>10, <1>11, <1>12, ScopedIsShielded DEF IsScoped
<1>13. CASE ~LooksLikePath(q.cwd, v, onDisk)
  <2>1. Conflict(Join(q.cwd, v), f)
    BY <1>7, <1>8, <1>10, <1>11, ConflictBelow
  <2> QED BY <1>7, <1>11, <1>13, <2>1, DroppedIsUnchanged
<1> QED BY <1>12, <1>13

-----------------------------------------------------------------------------
(* The state machine.                                                      *)

Promoted == verdict = "tier 1" => ScopeMatch(question, rec, req, disk)
ScopeInv == ScopeTypeOK /\ Promoted

LEMMA PrefixesArePaths ==
  ASSUME NEW f \in Paths
  PROVE  Prefixes(f) \subseteq Paths
<1> SUFFICES ASSUME NEW l \in 0 .. Len(f) PROVE SubSeq(f, 1, l) \in Paths
  BY DEF Prefixes
<1> QED BY DEF Paths

LEMMA NamedArePaths ==
  ASSUME NEW q \in Questions, NEW t
  PROVE  \A seen \in OnDisk(q, t) : seen \subseteq Paths
<1>1. ASSUME NEW i \in DOMAIN q.cmd, NEW w \in InSegment(q, i), ~Escapes(q.cwd, w)
      PROVE  Join(q.cwd, w) \in Paths
  BY <1>1, QuestionWords, JoinIsPath DEF Paths
<1>2. Named(q) \subseteq Paths
  BY <1>1 DEF Named
<1> QED BY <1>2 DEF OnDisk

LEMMA ScopeStep ==
  ASSUME ScopeInv, [ScopeNext]_scopeVars
  PROVE  ScopeInv'
<1> USE DEF ScopeInv, ScopeTypeOK, Promoted
<1>1. CASE Edit
  BY <1>1 DEF Edit
<1>2. CASE Record
  BY <1>2 DEF Record
<1>3. CASE Ask
  BY <1>3 DEF Ask
<1>4. CASE Decide
  <2>1. disk' \subseteq Paths
    BY <1>4, NamedArePaths DEF Decide
  <2>2. verdict' \in {"tier 1", "refused"}
        /\ (verdict' = "tier 1" => ScopeMatch(question, rec, req, disk'))
    BY <1>4 DEF Decide
  <2> QED BY <1>4, <2>1, <2>2 DEF Decide
<1>5. CASE Forget
  BY <1>5 DEF Forget
<1>6. CASE UNCHANGED scopeVars
  BY <1>6 DEF scopeVars
<1> QED BY <1>1, <1>2, <1>3, <1>4, <1>5, <1>6 DEF ScopeNext

LEMMA ScopeInvHolds == ScopeSpec => []ScopeInv
<1>1. ScopeInit => ScopeInv
  BY DEF ScopeInit, ScopeInv, ScopeTypeOK, Promoted
<1>2. ScopeInv /\ [ScopeNext]_scopeVars => ScopeInv'
  BY ScopeStep
<1> QED BY <1>1, <1>2, PTL DEF ScopeSpec

(* Decisions are made on two trees at which the command can be issued.     *)
THEOREM ScopeTypeCorrect == ScopeSpec => []ScopeTypeOK
<1>1. ScopeInv => ScopeTypeOK
  BY DEF ScopeInv
<1> QED BY <1>1, ScopeInvHolds, PTL

(* Promotion is a proof: outside the gaps, what tier 1 serves is what the  *)
(* command would answer, for every repository, question, pair of trees and *)
(* moment at which the daemon looks at the disk.                           *)
THEOREM ScopePromotionIsSound == ScopeSpec => []PromotionIsSound
<1>1. ScopeInv => PromotionIsSound
  <2> SUFFICES ASSUME ScopeInv, verdict = "tier 1", Covered
               PROVE  SameAnswer(question, rec, req)
    BY DEF PromotionIsSound
  <2>1. question \in Questions /\ rec \in Trees /\ req \in Trees
        /\ HasDir(rec, question.cwd) /\ HasDir(req, question.cwd)
    BY DEF ScopeInv, ScopeTypeOK
  <2>2. ScopeMatch(question, rec, req, disk)
    BY DEF ScopeInv, Promoted
  <2>3. /\ FlagsNameNothing(question) /\ NoClimbAfterCd(question)
        /\ ReadsOnlyItsWords(question) /\ MeansWhatItSays(question)
        /\ NoLostDirectory(question, rec, disk) /\ LeadsNowhere(question, rec)
        /\ NoLostDirectory(question, req, disk) /\ LeadsNowhere(question, req)
    BY DEF Covered
  <2> QED BY <2>1, <2>2, <2>3, ScopeMatchSound
<1> QED BY <1>1, ScopeInvHolds, PTL
-----------------------------------------------------------------------------
(* Tier 2.                                                                 *)

LEMMA InitFileName ==
  ASSUME NEW d \in Seq(STRING)
  PROVE  InitFile(d) \in Seq(STRING) /\ Last(InitFile(d)) = "__init__.py"
<1> DEFINE x == "__init__.py"
<1>1. x \in STRING
  BY ReadSetAssumption
<1> HIDE DEF x
<1>2. /\ Append(d, x) \in Seq(STRING) /\ Len(Append(d, x)) = Len(d) + 1
      /\ Append(d, x)[Len(d) + 1] = x
  BY <1>1, AppendProperties
<1> QED BY <1>2 DEF InitFile, Last, x

LEMMA FrontIsPath ==
  ASSUME NEW f \in Seq(STRING), f # <<>>
  PROVE  Front(f) \in Seq(STRING)
BY DEF Front

LEMMA LastOfLonger ==
  ASSUME NEW d \in Seq(STRING), NEW m \in Seq(STRING), Len(m) >= 1
  PROVE  Last(d \o m) = Last(m) /\ d \o m \in Seq(STRING)
<1>1. d \o m \in Seq(STRING) /\ Len(d \o m) = Len(d) + Len(m)
  OBVIOUS
<1>2. (d \o m)[Len(d) + Len(m)] = m[Len(m)]
  OBVIOUS
<1> QED BY <1>1, <1>2 DEF Last

LEMMA FrontOfOneLonger ==
  ASSUME NEW d \in Seq(STRING), NEW m \in Seq(STRING), Len(m) >= 1, Len(m) <= 1
  PROVE  Front(d \o m) = d
<1>1. Len(d \o m) - 1 = Len(d) /\ Len(d) \in Nat
  OBVIOUS
<1>2. SubSeq(d \o m, 1, Len(d)) = d
  OBVIOUS
<1> QED BY <1>1, <1>2 DEF Front

(* Of finitely many paths one is longest.                                  *)
LEMMA LongestOf ==
  ASSUME NEW S \in SUBSET Files, NEW a \in S, IsFiniteSet(Files)
  PROVE  \E p \in S : Len(a) <= Len(p) /\ \A o \in S : Len(o) <= Len(p)
<1> DEFINE Longer == [p \in S |-> {o \in S : Len(p) < Len(o)}]
           Ranks == {Cardinality(Longer[p]) : p \in {o \in S : Len(a) <= Len(o)}}
<1>1. \A p \in S : Len(p) \in Nat
  BY ScopeAssumption
<1>2. IsFiniteSet(S)
  BY FS_Subset
<1>3. \A p \in S : /\ IsFiniteSet(Longer[p]) /\ Cardinality(Longer[p]) \in Nat
  BY <1>2, FS_Subset, FS_CardinalityType
<1>4. \A p \in S : Longer[p] = {o \in S : Len(p) < Len(o)}
  OBVIOUS
<1> HIDE DEF Longer
<1>5. Ranks \subseteq Nat /\ Ranks # {}
  BY <1>1, <1>3
<1>6. PICK n \in Ranks : \A k \in Ranks : ~(k < n)
  <2> HIDE DEF Ranks
  <2> DEFINE R == OpToRel(<, Nat)
  <2>1. \A k, l \in Nat : k < l => <<k, l>> \in R
    BY DEF OpToRel
  <2>2. \E n \in Ranks : \A k \in Ranks : <<k, n>> \notin R
    <3> HIDE DEF R
    <3> QED BY <1>5, NatLessThanWellFounded, WFMin DEF R
  <2> QED BY <1>5, <2>1, <2>2
<1>7. PICK p \in S : Len(a) <= Len(p) /\ n = Cardinality(Longer[p])
  OBVIOUS
<1>8. SUFFICES ASSUME NEW o \in S, Len(p) < Len(o) PROVE FALSE
  BY <1>1, <1>7
<1>9. Longer[o] \subseteq Longer[p] /\ o \in Longer[p] /\ o \notin Longer[o]
  BY <1>1, <1>4, <1>8
<1>10. Cardinality(Longer[o]) < n
  <2>1. Cardinality(Longer[o]) <= Cardinality(Longer[p])
        /\ Cardinality(Longer[o]) # Cardinality(Longer[p])
    BY <1>3, <1>9, FS_Subset
  <2> QED BY <1>3, <1>7, <2>1
<1>11. Cardinality(Longer[o]) \in Ranks
  BY <1>1, <1>7, <1>8
<1> QED BY <1>6, <1>10, <1>11

(* What a run loads: the start, what it imports, and nothing else.         *)
LEMMA LeastLoaded ==
  ASSUME NEW q \in Questions, NEW i \in Pytest(q), NEW t \in Trees,
         Start(q, i, t) \subseteq Present(t),
         \A f \in Present(t) : Loads(f, SearchPath(q, i, t), t) \subseteq Present(t)
  PROVE  /\ Loaded[q][t][i] \subseteq Present(t)
         /\ Start(q, i, t) \subseteq Loaded[q][t][i]
         /\ \A f \in Loaded[q][t][i] : Loads(f, SearchPath(q, i, t), t) \subseteq Loaded[q][t][i]
         /\ \A files \in SUBSET Present(t) :
              /\ Start(q, i, t) \subseteq files
              /\ \A f \in files : Loads(f, SearchPath(q, i, t), t) \subseteq files
              => Loaded[q][t][i] \subseteq files
<1> HIDE DEF Loads, Start, SearchPath
<1>1. Loaded[q][t][i] = {f \in Files : \A files \in Complete(q, i, t) : f \in files}
  BY DEF Loaded
<1>2. Present(t) \in Complete(q, i, t) /\ Present(t) \subseteq Files
  BY DEF Complete, Present
<1>3. Loaded[q][t][i] \subseteq Present(t)
  BY <1>1, <1>2
<1>4. Start(q, i, t) \subseteq Loaded[q][t][i]
  BY <1>1, <1>2 DEF Complete
<1>5. \A f \in Loaded[q][t][i] : Loads(f, SearchPath(q, i, t), t) \subseteq Loaded[q][t][i]
  BY <1>1, <1>2, <1>3 DEF Complete
<1>6. ASSUME NEW files \in SUBSET Present(t), Start(q, i, t) \subseteq files,
             \A f \in files : Loads(f, SearchPath(q, i, t), t) \subseteq files
      PROVE  Loaded[q][t][i] \subseteq files
  BY <1>1, <1>6 DEF Complete
<1> QED BY <1>3, <1>4, <1>5, <1>6

LEMMA LoadedBy ==
  ASSUME NEW f, NEW path, NEW t, NEW p
  PROVE  p \in Loads(f, path, t) <=>
           /\ p \in Present(t)
           /\ \/ p \in Target(f, t)
              \/ \E m \in Imports[t[f]] :
                   \/ p \in Resolved(m, path, t) \/ p \in Behind(m, path, t)
                   \/ \E o \in Resolved(m, path, t) : p \in OnTheWay(m, o)
<1> DEFINE Way(m) == UNION {OnTheWay(m, o) : o \in Resolved(m, path, t)}
           Of(m) == Resolved(m, path, t) \cup Behind(m, path, t) \cup Way(m)
<1>1. \A m : p \in Way(m) <=> \E o \in Resolved(m, path, t) : p \in OnTheWay(m, o)
  OBVIOUS
<1>2. Loads(f, path, t) = Present(t) \cap (Target(f, t) \cup UNION {Of(m) : m \in Imports[t[f]]})
  BY DEF Loads
<1>3. p \in Loads(f, path, t) <=>
        p \in Present(t) /\ (p \in Target(f, t) \/ \E m \in Imports[t[f]] : p \in Of(m))
  <2> HIDE DEF Of
  <2> QED BY <1>2
<1> QED BY <1>1, <1>3

LEMMA StartIsPresent ==
  ASSUME NEW q \in Questions, NEW i \in Pytest(q), NEW t \in Trees
  PROVE  /\ Start(q, i, t) \subseteq Present(t) /\ Found(q, i, t) \subseteq Present(t)
         /\ \A f : Loads(f, SearchPath(q, i, t), t) \subseteq Present(t)
<1>1. Found(q, i, t) \subseteq Present(t)
  BY DEF Found, Collected, Conftests
<1>2. ASSUME NEW f \in Found(q, i, t), NEW d \in Packages(f, t)
      PROVE  InitFile(d) \in Present(t)
  <2>1. d \in Prefixes(Front(f)) /\ (IsPrefix(d, d) => InitFile(d) \in Present(t))
    BY <1>2 DEF Packages
  <2>2. f \in Seq(STRING) /\ f # <<>>
    BY <1>1, <1>2, ScopeAssumption DEF Present
  <2>3. d \in Seq(STRING)
    BY <2>1, <2>2, PrefixesArePaths, FrontIsPath DEF Paths
  <2> QED BY <2>1, <2>3, PrefixElements
<1>3. Start(q, i, t) \subseteq Present(t)
  BY <1>1, <1>2 DEF Start
<1>4. ASSUME NEW f PROVE Loads(f, SearchPath(q, i, t), t) \subseteq Present(t)
  BY DEF Loads
<1> QED BY <1>1, <1>3, <1>4

(* The report names what every process loaded, none of it a link or behind *)
(* one, and tier 2 promotes on it.                                         *)
Promotes(q, rs, old, new) ==
  /\ rs.paths = UNION {Loaded[q][old][i] : i \in Pytest(q)}
  /\ \A i \in Pytest(q) : Passes(q, i, old)
  /\ ReportedAsLoaded(q, old) /\ NoLinkOnTheWay(q, old, new)
  /\ ScopeMatchObserved(rs, old, new)

LEMMA LoadedIsUnchanged ==
  ASSUME NEW q \in Questions, NEW i \in Pytest(q), NEW old \in Trees, NEW new \in Trees,
         NEW rs, Promotes(q, rs, old, new), NEW f \in Loaded[q][old][i]
  PROVE  old[f] = new[f] /\ f \in Present(old) /\ f \in Present(new)
<1>1. f \in rs.paths
  BY DEF Promotes
<1>2. f \in Present(old)
  BY LeastLoaded, StartIsPresent
<1>3. f \in Files /\ f \in Seq(STRING)
  BY <1>2, ScopeAssumption DEF Present
<1>4. Conflict(f, f)
  BY <1>3, PrefixElements DEF Conflict
<1>5. old[f] = new[f]
  BY <1>1, <1>3, <1>4 DEF Promotes, ScopeMatchObserved, Changed
<1> QED BY <1>2, <1>3, <1>5 DEF Present

LEMMA AppearedIsSafe ==
  ASSUME NEW q \in Questions, NEW old \in Trees, NEW new \in Trees,
         NEW rs, Promotes(q, rs, old, new), NEW f \in Present(new), f \notin Present(old)
  PROVE  f \in Added(old, new) /\ ~Unsafe(f, rs.paths) /\ Last(f) \notin Discovered \cup Tests
<1>1. f \in Added(old, new)
  BY DEF Present, Added, Changed
<1>2. ~Unsafe(f, rs.paths)
  BY <1>1 DEF Promotes, ScopeMatchObserved
<1> QED BY <1>1, <1>2 DEF Unsafe

(* No test is found behind a link.                                         *)
LEMMA CollectedByName ==
  ASSUME NEW q \in Questions, NEW i \in Pytest(q), NEW old \in Trees, NEW new \in Trees,
         NEW rs, Promotes(q, rs, old, new), NEW t \in {old, new}
  PROVE  Collected(q, i, t) =
           {f \in Present(t) : \E a \in Args(q, i) :
              (f = a /\ Last(f) \in Modules) \/ (IsPrefix(a, f) /\ Last(f) \in Tests)}
<1>1. \A a \in Args(q, i), l \in LinksIn(t) : ~Conflict(l, a)
  BY DEF Promotes, NoLinkOnTheWay
<1> QED BY <1>1 DEF Collected

(* The same files are found by name.                                       *)
LEMMA SameFound ==
  ASSUME NEW q \in Questions, NEW i \in Pytest(q), NEW old \in Trees, NEW new \in Trees,
         NEW rs, Promotes(q, rs, old, new)
  PROVE  Found(q, i, old) = Found(q, i, new)
<1>1. Found(q, i, old) \subseteq Loaded[q][old][i]
  BY LeastLoaded, StartIsPresent DEF Start
<1>2. ASSUME NEW f \in Found(q, i, old) PROVE f \in Found(q, i, new)
  BY <1>1, <1>2, LoadedIsUnchanged, CollectedByName DEF Found, Conftests
<1>3. ASSUME NEW f \in Found(q, i, new), f \notin Present(old) PROVE FALSE
  <2>1. f \in Present(new) /\ f \in Files
    BY <1>3, StartIsPresent DEF Present
  <2>2. Last(f) \notin Discovered \cup Tests
    BY <1>3, <2>1, AppearedIsSafe
  <2>3. f \in Args(q, i) /\ Last(f) \in Modules
    BY <1>3, <2>2, CollectedByName, ReadSetAssumption DEF Found, Conftests
  <2>4. PICK g \in Present(old) : IsStrictPrefix(f, g) \/ (g = f /\ Last(g) \in Modules)
    <3>1. \A l \in LinksIn(old) : ~IsPrefix(l, f)
      BY <2>3 DEF Promotes, NoLinkOnTheWay, Conflict
    <3> QED BY <2>3, <3>1 DEF Promotes, Passes
  <2>5. g \in Files /\ IsStrictPrefix(f, g)
    BY <1>3, <2>4 DEF Present
  <2> QED BY <2>1, <2>3, <2>5, ReadSetAssumption
<1>4. ASSUME NEW f \in Found(q, i, new) PROVE f \in Found(q, i, old)
  BY <1>3, <1>4, CollectedByName, StartIsPresent DEF Found, Conftests
<1> QED BY <1>2, <1>4

(* They are in the same packages, so the search path is the same.          *)
LEMMA SameStart ==
  ASSUME NEW q \in Questions, NEW i \in Pytest(q), NEW old \in Trees, NEW new \in Trees,
         NEW rs, Promotes(q, rs, old, new)
  PROVE  Start(q, i, old) = Start(q, i, new) /\ SearchPath(q, i, old) = SearchPath(q, i, new)
<1>1. ASSUME NEW f \in Found(q, i, old)
      PROVE  Packages(f, old) = Packages(f, new) /\ Base(f, old) = Base(f, new)
  <2>1. Prefixes(Front(f)) \subseteq Seq(STRING)
    <3>1. f \in Seq(STRING) /\ f # <<>>
      BY <1>1, StartIsPresent, ScopeAssumption DEF Present
    <3> QED BY <3>1, FrontIsPath, PrefixesArePaths DEF Paths
  <2>2. ASSUME NEW d \in Packages(f, old) PROVE d \in Packages(f, new)
    <3> SUFFICES ASSUME NEW e \in Prefixes(Front(f)), IsPrefix(d, e)
                 PROVE  InitFile(e) \in Present(new)
      BY <2>2 DEF Packages
    <3>1. e \in Packages(f, old)
      BY <2>1, <2>2, PrefixTransitive DEF Packages
    <3>2. InitFile(e) \in Loaded[q][old][i]
      BY <1>1, <3>1, LeastLoaded, StartIsPresent DEF Start
    <3> QED BY <3>2, LoadedIsUnchanged
  <2>3. ASSUME NEW d \in Packages(f, new) PROVE d \in Packages(f, old)
    <3> SUFFICES ASSUME NEW e \in Prefixes(Front(f)), IsPrefix(d, e)
                 PROVE  InitFile(e) \in Present(old)
      BY <2>3 DEF Packages
    <3>1. InitFile(e) \in Present(new)
      BY <2>3 DEF Packages
    <3>2. Last(InitFile(e)) \in Discovered
      BY <2>1, InitFileName, ReadSetAssumption
    <3> QED BY <3>1, <3>2, AppearedIsSafe
  <2>4. Packages(f, old) = Packages(f, new)
    BY <2>2, <2>3
  <2> QED BY <2>4 DEF Base
<1>2. Found(q, i, old) = Found(q, i, new)
  BY SameFound
<1>3. Start(q, i, old) = Start(q, i, new)
  BY <1>1, <1>2 DEF Start
<1>4. SearchPath(q, i, old) = SearchPath(q, i, new)
  BY <1>1, <1>2 DEF SearchPath
<1> QED BY <1>3, <1>4
LEMMA SearchPathIsPaths ==
  ASSUME NEW q \in Questions, NEW i \in Pytest(q), NEW t \in Trees
  PROVE  SearchPath(q, i, t) \subseteq Seq(STRING)
<1>1. ASSUME NEW f \in Found(q, i, t) PROVE Base(f, t) \subseteq Seq(STRING)
  <2>1. f \in Seq(STRING) /\ f # <<>>
    BY <1>1, StartIsPresent, ScopeAssumption DEF Present
  <2> QED BY <2>1, FrontIsPath, PrefixesArePaths DEF Paths, Base
<1>2. <<>> \in Seq(STRING)
  OBVIOUS
<1> QED BY <1>1, <1>2, ReadSetAssumption DEF SearchPath, Paths

(* A file that was added is no candidate for an import.                    *)
LEMMA AddedIsNoCandidate ==
  ASSUME NEW q \in Questions, NEW i \in Pytest(q), NEW old \in Trees, NEW new \in Trees,
         NEW rs, Promotes(q, rs, old, new),
         KnownRoots(q, rs, old), SettledImports(q, old, new),
         NEW f \in Loaded[q][old][i], NEW m \in Imports[old[f]],
         NEW p \in Candidates(m, SearchPath(q, i, old), new)
  PROVE  p \in Candidates(m, SearchPath(q, i, old), old)
<1> SUFFICES ASSUME p \notin Present(old) PROVE FALSE
  BY DEF Candidates
<1>1. PICK d \in SearchPath(q, i, old) : p = d \o m
  BY DEF Candidates
<1>2. p \in Present(new)
  BY DEF Candidates
<1>3. p \in Added(old, new) /\ ~Unsafe(p, rs.paths)
  BY <1>2, AppearedIsSafe
<1>4. d \in Seq(STRING)
  BY SearchPathIsPaths
<1>5. m \in Seq(STRING) /\ Len(m) >= 1 /\ Last(m) \in Modules
  <2>1. old[f] \in Contents
    BY LoadedIsUnchanged, ScopeAssumption DEF Present
  <2>2. m \in Seq(STRING) /\ m # <<>> /\ Last(m) \in Modules
    BY <2>1, ReadSetAssumption DEF Paths
  <2> QED BY <2>2, EmptyIfShort
<1>6. ~(Len(m) > 1)
  BY <1>1, <1>3 DEF SettledImports
<1>7. Last(p) \in Modules
  BY <1>1, <1>4, <1>5, LastOfLonger
<1>8. Len(m) <= 1
  BY <1>5, <1>6
<1>9. Front(p) = d /\ IsPrefix(d, p)
  BY <1>1, <1>4, <1>5, <1>8, FrontOfOneLonger, PrefixOfConcat
<1>10. d \in ImportRoots(rs.paths) \cup TestDirs(rs.paths)
  BY DEF KnownRoots
<1> QED BY <1>3, <1>7, <1>9, <1>10 DEF Unsafe

(* So every import of a file that was loaded leads where it led, either    *)
(* way.                                                                    *)
LEMMA SameLoads ==
  ASSUME NEW q \in Questions, NEW i \in Pytest(q), NEW old \in Trees, NEW new \in Trees,
         NEW rs, Promotes(q, rs, old, new),
         KnownRoots(q, rs, old), SettledImports(q, old, new),
         NEW f \in Loaded[q][old][i]
  PROVE  Loads(f, SearchPath(q, i, old), old) = Loads(f, SearchPath(q, i, old), new)
<1> DEFINE path == SearchPath(q, i, old)
           L == Loaded[q][old][i]
<1>1. old[f] = new[f] /\ Loads(f, path, old) \subseteq L
  BY LeastLoaded, LoadedIsUnchanged, StartIsPresent
<1>2. ASSUME NEW m \in Imports[old[f]] PROVE Resolved(m, path, old) = Resolved(m, path, new)
  <2>1. Candidates(m, path, old) \subseteq Files
    BY DEF Candidates, Present
  <2>2. \A p \in Candidates(m, path, old) : Len(p) \in Nat
    BY <2>1, ScopeAssumption
  <2>3. ASSUME NEW p \in Resolved(m, path, old) PROVE p \in Candidates(m, path, new)
    <3>1. p \in L
      <4>1. p \in Present(old)
        BY <2>3 DEF Resolved, Candidates
      <4>2. p \in Loads(f, path, old)
        <5> HIDE DEF path
        <5> QED BY <1>2, <2>3, <4>1, LoadedBy
      <4> QED BY <1>1, <4>2
    <3>2. p \in Present(new)
      BY <3>1, LoadedIsUnchanged
    <3> QED BY <2>3, <3>2 DEF Resolved, Candidates
  <2>4. ASSUME NEW p \in Candidates(m, path, new) PROVE p \in Candidates(m, path, old)
    BY <1>2, <2>4, AddedIsNoCandidate
  <2>5. ASSUME NEW p \in Candidates(m, path, old)
        PROVE  \E o \in Resolved(m, path, old) : Len(p) <= Len(o)
    <3>1. IsFiniteSet(Files)
      BY ReadSetAssumption
    <3> QED BY <2>1, <2>5, <3>1, LongestOf DEF Resolved
  <2>6. Resolved(m, path, old) \subseteq Resolved(m, path, new)
    BY <2>3, <2>4 DEF Resolved
  <2>7. ASSUME NEW p \in Resolved(m, path, new) PROVE p \in Resolved(m, path, old)
    <3>1. p \in Candidates(m, path, old)
          /\ \A o \in Candidates(m, path, new) : Len(o) <= Len(p)
      BY <2>4, <2>7 DEF Resolved
    <3>2. PICK o \in Resolved(m, path, old) : Len(p) <= Len(o)
      BY <2>5, <3>1
    <3>3. Len(o) <= Len(p) /\ \A c \in Candidates(m, path, old) : Len(c) <= Len(o)
      BY <2>3, <3>1, <3>2 DEF Resolved
    <3>4. \A c \in Candidates(m, path, old) : Len(c) <= Len(p)
      BY <2>2, <3>1, <3>2, <3>3 DEF Resolved
    <3> QED BY <3>1, <3>4 DEF Resolved
  <2> QED BY <2>6, <2>7
<1>3. ASSUME NEW m \in Imports[old[f]], NEW o \in Resolved(m, path, old), NEW p \in OnTheWay(m, o)
      PROVE  p \in Present(old) <=> p \in Present(new)
  <2>1. ASSUME p \in Present(old) PROVE p \in Present(new)
    <3>1. p \in L
      BY <1>1, <1>3, <2>1, LoadedBy
    <3> QED BY <3>1, LoadedIsUnchanged
  <2>2. ASSUME p \in Present(new), p \notin Present(old) PROVE FALSE
    <3>1. PICK k \in 1 .. Len(m) - 1 : p = InitFile(SubSeq(o, 1, Len(o) - k))
      BY DEF OnTheWay
    <3>2. SubSeq(o, 1, Len(o) - k) \in Seq(STRING)
      <4>1. PICK d \in path : o = d \o m
        BY DEF Resolved, Candidates
      <4>2. d \in Seq(STRING) /\ m \in Seq(STRING)
        <5>1. old[f] \in Contents
          BY LoadedIsUnchanged, ScopeAssumption DEF Present
        <5> QED BY <5>1, SearchPathIsPaths, ReadSetAssumption DEF Paths
      <4>3. o \in Seq(STRING) /\ Len(o) = Len(d) + Len(m) /\ Len(d) \in Nat /\ Len(m) \in Nat
        BY <4>1, <4>2, ConcatProperties
      <4>4. Len(o) - k \in 0 .. Len(o)
        BY <4>3
      <4> QED BY <4>3, <4>4
    <3>3. Last(p) \in Discovered
      BY <3>1, <3>2, InitFileName, ReadSetAssumption
    <3> QED BY <2>2, <3>3, AppearedIsSafe
  <2> QED BY <2>1, <2>2
<1>4. ASSUME NEW t \in {old, new}
      PROVE  Target(f, t) = {} /\ \A m \in Imports[old[f]] : Behind(m, path, t) = {}
  <2>1. t[f] = old[f] /\ old[f] \notin Links
    BY <1>1 DEF Promotes, ReportedAsLoaded, Reported
  <2>2. \A m \in Imports[old[f]] : LinksTo(m, path, t) = {}
    BY DEF Promotes, NoLinkOnTheWay
  <2> QED BY <2>1, <2>2 DEF Target, Behind
<1>5. ASSUME NEW t \in {old, new}, NEW p
      PROVE  p \in Loads(f, path, t) <=>
               \E m \in Imports[old[f]] :
                 \/ p \in Resolved(m, path, t)
                 \/ p \in Present(t) /\ \E o \in Resolved(m, path, t) : p \in OnTheWay(m, o)
  <2> HIDE DEF path
  <2>1. t[f] = old[f]
    BY <1>1
  <2>2. \A m : Resolved(m, path, t) \subseteq Present(t)
    BY DEF Resolved, Candidates
  <2> QED BY <1>4, <2>1, <2>2, LoadedBy
<1>6. ASSUME NEW p PROVE p \in Loads(f, path, old) <=> p \in Loads(f, path, new)
  <2> HIDE DEF path
  <2> QED BY <1>2, <1>3, <1>5
<1> QED BY <1>6
LEMMA SameLoaded ==
  ASSUME NEW q \in Questions, NEW i \in Pytest(q), NEW old \in Trees, NEW new \in Trees,
         NEW rs, Promotes(q, rs, old, new),
         KnownRoots(q, rs, old), SettledImports(q, old, new)
  PROVE  Loaded[q][old][i] = Loaded[q][new][i]
<1> DEFINE path == SearchPath(q, i, old)
           L == Loaded[q][old][i]
           M == Loaded[q][new][i]
<1>1. Start(q, i, new) = Start(q, i, old) /\ SearchPath(q, i, new) = path
  BY SameStart
<1>2. /\ L \subseteq Present(old) /\ Start(q, i, old) \subseteq L
      /\ \A f \in L : Loads(f, path, old) \subseteq L
  BY LeastLoaded, StartIsPresent
<1>3. \A f \in L : Loads(f, path, old) = Loads(f, path, new)
  BY SameLoads
<1>4. /\ M \subseteq Present(new) /\ Start(q, i, old) \subseteq M
      /\ \A f \in M : Loads(f, path, new) \subseteq M
  BY <1>1, LeastLoaded, StartIsPresent
<1>5. L \subseteq Present(new)
  BY LoadedIsUnchanged
<1>6. M \subseteq L
  <2>1. \A f \in L : Loads(f, SearchPath(q, i, new), new) \subseteq L
    BY <1>1, <1>2, <1>3
  <2>2. Start(q, i, new) \subseteq L
    BY <1>1, <1>2
  <2> HIDE DEF L, path
  <2> QED BY <1>5, <2>1, <2>2, LeastLoaded, StartIsPresent
<1>7. L \subseteq M
  <2>1. \A f \in M : Loads(f, SearchPath(q, i, old), old) \subseteq M
    BY <1>3, <1>4, <1>6
  <2>2. M \subseteq Present(old) /\ Start(q, i, old) \subseteq M
    BY <1>2, <1>4, <1>6
  <2> HIDE DEF M, path
  <2> QED BY <2>1, <2>2, LeastLoaded, StartIsPresent
<1> QED BY <1>6, <1>7

LEMMA ObservedMatchSound ==
  ASSUME NEW q \in Questions, NEW old \in Trees, NEW new \in Trees,
         NEW rs, Promotes(q, rs, old, new), Foreseen(q, rs, old, new)
  PROVE  SameRun(q, old, new)
<1>1. Pytest(q) = DOMAIN q.cmd
  BY DEF Foreseen, AllReport
<1>2. ASSUME NEW i \in Pytest(q) PROVE Loaded[q][old][i] = Loaded[q][new][i]
  BY SameLoaded DEF Foreseen
<1>3. ASSUME NEW i \in Pytest(q), NEW f \in Loaded[q][old][i] PROVE old[f] = new[f]
  BY LoadedIsUnchanged
<1>4. ASSUME NEW i \in Pytest(q), NEW f \in Opened(q, i, old) PROVE old[f] = new[f]
  <2>1. f \in Files
    <3>1. PICK g \in Loaded[q][old][i] : f \in Opens[old[g]]
      BY <1>4 DEF Opened
    <3>2. old[g] \in Contents
      BY <3>1, LoadedIsUnchanged, ScopeAssumption DEF Present
    <3> QED BY <3>1, <3>2, ReadSetAssumption
  <2>2. CASE f \in Loaded[q][old][i]
    BY <1>3, <2>2
  <2>3. CASE Last(f) \notin Modules /\ old[f] # Absent
    <3>1. f \notin Changed(old, new) \ Added(old, new)
      BY <2>3 DEF Promotes, ScopeMatchObserved
    <3>2. f \notin Added(old, new)
      BY <2>3 DEF Added
    <3> QED BY <2>1, <3>1, <3>2 DEF Changed
  <2> QED BY <1>4, <2>2, <2>3 DEF Foreseen, OpensData
<1> QED BY <1>1, <1>2, <1>3, <1>4 DEF SameRun

(* The record names what its run reported, unless a process was silent,    *)
(* and tier 2 promotes on that.                                            *)
ReportedHere ==
  reads # NoReads /\ ~reads.silent =>
    /\ reads.paths = UNION {Reported(question, i, rec) : i \in Pytest(question)}
    /\ \A i \in Pytest(question) : Passes(question, i, rec)
ObservedHere == observed => ScopeMatchObserved(reads, rec, req)
ReadSetInv == ScopeInv /\ ReadSetTypeOK /\ ReportedHere /\ ObservedHere

LEMMA CapturedIsReported ==
  ASSUME NEW q \in Questions, NEW t \in Trees,
         NEW said \in [Pytest(q) -> {"line", "nothing", "bad"}],
         NEW rs, rs = Captured(q, t, said)
  PROVE  /\ rs \in Reads \cup {NoReads}
         /\ rs # NoReads /\ ~rs.silent =>
              /\ rs.paths = UNION {Reported(q, i, t) : i \in Pytest(q)}
              /\ \A i \in Pytest(q) : Passes(q, i, t)
<1> DEFINE spoken == {i \in Pytest(q) : said[i] = "line"}
           heard == [paths |-> UNION {Reported(q, i, t) : i \in spoken}, silent |-> spoken # Pytest(q)]
<1>1. rs = NoReads \/ (rs = heard /\ \A i \in spoken : Passes(q, i, t))
  BY DEF Captured
<1>2. ASSUME NEW i \in Pytest(q) PROVE Reported(q, i, t) \subseteq Files
  BY DEF Reported, Loaded
<1>3. heard \in Reads
  BY <1>2 DEF Reads
<1>4. heard.paths = UNION {Reported(q, i, t) : i \in spoken} /\ (~heard.silent => spoken = Pytest(q))
  OBVIOUS
<1> HIDE DEF heard, spoken
<1> QED BY <1>1, <1>3, <1>4

LEMMA ReadSetInvHolds == ReadSetSpec => []ReadSetInv
<1>1. ReadSetInit => ReadSetInv
  <2> SUFFICES ASSUME ReadSetInit PROVE ReadSetInv
    OBVIOUS
  <2>1. ScopeInv
    BY DEF ReadSetInit, ScopeInit, ScopeInv, ScopeTypeOK, Promoted
  <2> QED BY <2>1 DEF ReadSetInit, ReadSetInv, ReadSetTypeOK, ReportedHere, ObservedHere
<1>2. ReadSetInv /\ [ReadSetNext]_readSetVars => ReadSetInv'
  <2> SUFFICES ASSUME ReadSetInv, [ReadSetNext]_readSetVars PROVE ReadSetInv'
    OBVIOUS
  <2>1. [ScopeNext]_scopeVars
    BY DEF ReadSetNext, EditFiles, ForgetAnswer, RecordRun, AskFor, TryScope, ScopeNext, readSetVars
  <2>2. ScopeInv'
    BY <2>1, ScopeStep DEF ReadSetInv
  <2> USE DEF ReadSetInv, ReadSetTypeOK, ReportedHere, ObservedHere
  <2>3. CASE EditFiles
    BY <2>2, <2>3 DEF EditFiles, Edit
  <2>4. CASE ForgetAnswer
    BY <2>2, <2>4 DEF ForgetAnswer, Forget
  <2>5. CASE RecordRun
    <3>1. question' = question /\ rec' = ws /\ verdict = "none" /\ observed' = observed
      BY <2>5 DEF RecordRun, Record
    <3>2. question \in Questions /\ ws \in Trees
      BY DEF ScopeInv, ScopeTypeOK
    <3>3. PICK said \in [Pytest(question) -> {"line", "nothing", "bad"}] :
            reads' = Captured(question, ws, said)
      BY <2>5 DEF RecordRun
    <3>4. ReadSetTypeOK' /\ ObservedHere'
      BY <3>1, <3>2, <3>3, CapturedIsReported
    <3>5. ReportedHere'
      BY <3>1, <3>2, <3>3, CapturedIsReported
    <3> QED BY <2>2, <3>4, <3>5
  <2>6. CASE AskFor
    BY <2>2, <2>6 DEF AskFor, Ask
  <2>7. CASE TryScope
    BY <2>2, <2>7 DEF TryScope, Decide, ScopeMatchObserved
  <2>8. CASE UNCHANGED readSetVars
    BY <2>2, <2>8 DEF readSetVars, scopeVars
  <2> QED BY <2>3, <2>4, <2>5, <2>6, <2>7, <2>8 DEF ReadSetNext
<1> QED BY <1>1, <1>2, PTL DEF ReadSetSpec

(* Tier 2 leaves the machine of tier 1 as it is: what is proved of it      *)
(* holds with the read sets.                                               *)
THEOREM ReadSetImplementsScope == ReadSetSpec => ScopeSpec
<1>1. ReadSetInit => ScopeInit
  BY DEF ReadSetInit
<1>2. [ReadSetNext]_readSetVars => [ScopeNext]_scopeVars
  BY DEF ReadSetNext, EditFiles, ForgetAnswer, RecordRun, AskFor, TryScope, ScopeNext, readSetVars
<1> QED BY <1>1, <1>2, PTL DEF ReadSetSpec, ScopeSpec

(* Tier 2 answers only after tier 1 refused, and only with a report.       *)
THEOREM ReadSetTypeCorrect == ReadSetSpec => []ReadSetTypeOK
<1>1. ReadSetInv => ReadSetTypeOK
  BY DEF ReadSetInv
<1> QED BY <1>1, ReadSetInvHolds, PTL

(* Tier 2 is a proof too: outside the gaps, a run that it promotes would   *)
(* load the same files, with the same contents, and open the same, for     *)
(* every repository, import graph, session and pair of trees.              *)
THEOREM ReadSetPromotionIsSound == ReadSetSpec => []ObservedIsSound
<1>1. ReadSetInv => ObservedIsSound
  <2> SUFFICES ASSUME ReadSetInv, observed, Foreseen(question, reads, rec, req)
               PROVE  SameRun(question, rec, req)
    BY DEF ObservedIsSound
  <2>1. question \in Questions /\ rec \in Trees /\ req \in Trees
    BY DEF ReadSetInv, ReadSetTypeOK, ScopeInv, ScopeTypeOK
  <2>2. reads # NoReads /\ ~reads.silent
    BY DEF ReadSetInv, ReadSetTypeOK, Foreseen, AllReport
  <2>3. Promotes(question, reads, rec, req)
    <3>1. ReportedAsLoaded(question, rec) /\ NoLinkOnTheWay(question, rec, req)
      BY DEF Foreseen
    <3>2. reads.paths = UNION {Loaded[question][rec][i] : i \in Pytest(question)}
      BY <2>2, <3>1 DEF ReadSetInv, ReportedHere, ReportedAsLoaded
    <3> QED BY <2>2, <3>1, <3>2 DEF ReadSetInv, ReportedHere, ObservedHere, Promotes
  <2> QED BY <2>1, <2>3, ObservedMatchSound
<1> QED BY <1>1, ReadSetInvHolds, PTL
=============================================================================
