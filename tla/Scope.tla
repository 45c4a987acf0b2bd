------------------------------- MODULE Scope -------------------------------
(***************************************************************************)
(* Scoping, tier 1 (internal/hp/scope.go): may the record of a command,    *)
(* made at one tree, answer the same command at another?  ScopeMatchAt     *)
(* says yes when every path that differs between the two trees is disjoint *)
(* from the literal path arguments of a command that reads nothing else.   *)
(*                                                                         *)
(* A path is a sequence of names from the root of the repository.  A       *)
(* command line is a sequence of segments: a head, reduced to its base     *)
(* name as cmdBase does, and words.  Of a word the model keeps what the    *)
(* classifier looks at:                                                    *)
(*   kind   "path"   a word that is not a flag                             *)
(*          "flag"   a flag, with a name glued to it or none (-fnames), or *)
(*                   a word of which nothing is left (::node, a quoted "") *)
(*          "value"  a flag with a value after = (--from-file=names)       *)
(*          "odd"    glob, variable, absolute path, URL, redirection, or   *)
(*                   the name of a command that reads the whole tree       *)
(*   up     how often it climbs (..) once path.Join has cleaned it         *)
(*   names  the names that follow                                          *)
(*   slash  whether it is written with a slash, other than at its end      *)
(* and, with "also", what it does not look at: the other paths that the    *)
(* segment or the word makes somebody read.  For a segment, the program    *)
(* when the head is written with a slash or looked up in a PATH assigned   *)
(* before it, what grep -r or a command after a single & reads; for a      *)
(* word, the directories it names and leaves again (d/../x), the name      *)
(* inside another text (sed 'r x'), the spelling on a disk that ignores    *)
(* case.                                                                   *)
(*                                                                         *)
(* Around the decision, the worktree is edited, the command is recorded at *)
(* one of its states and asked for at another; the daemon asks git for the *)
(* difference of the two trees but looks for the arguments on the disk, as *)
(* it is by then.                                                          *)
(***************************************************************************)
EXTENDS Naturals, SequencesExt

CONSTANTS
  Files,       \* paths a tree may have a file at
  Contents,
  Absent,
  Links,       \* contents that are symbolic links
  Leads,       \* Leads[c]: files that reading c leads to: the target of a
               \* link, or what is below it, the entries of a list of
               \* checksums
  Trees,       \* the states of the worktree
  Dirs,        \* directories that a cd may lead to
  NoTree,
  Extensions,  \* names that end like a file's
  Global,      \* names of files that configure a toolchain
  Readers,     \* heads that read their arguments and nothing else
  Filters,     \* heads that read the pipe when they follow one
  Questions    \* [cwd, cmd]: commands, with the directory they are issued in

Spelling == [up : Nat, names : Seq(STRING)]
Word == [kind : {"path", "flag", "value", "odd"}, up : Nat,
         names : Seq(STRING), slash : BOOLEAN, also : SUBSET Spelling]
Segment == [head : STRING, piped : BOOLEAN, words : Seq(Word), also : SUBSET Spelling]

(* A word without a slash is one name, or a dot or two.                    *)
Written(w) ==
  w.slash \/ (w.up = 0 /\ Len(w.names) <= 1) \/ (w.up = 1 /\ w.names = <<>>)

ASSUME ScopeAssumption ==
  /\ Files \subseteq Seq(STRING) \ {<<>>}
  /\ Trees \subseteq [Files -> Contents \cup {Absent}]
  /\ Dirs \subseteq Seq(STRING)
  /\ NoTree \notin Trees /\ Absent \notin Contents
  /\ Links \subseteq Contents
  /\ Leads \in [Contents -> SUBSET Files]
  /\ Questions \subseteq [cwd : Seq(STRING), cmd : Seq(Segment)]
  /\ \A q \in Questions :
       \A i \in DOMAIN q.cmd : \A j \in DOMAIN q.cmd[i].words : Written(q.cmd[i].words[j])
  /\ "cd" \notin Readers \cup Filters

VARIABLES
  question,  \* the command
  ws,        \* the worktree
  rec, req,  \* the trees it was recorded at, and is asked for at
  disk,      \* what it names and is on the disk while the daemon decides
  verdict

scopeVars == <<question, ws, rec, req, disk, verdict>>

-----------------------------------------------------------------------------
(* ScopeMatchAt.                                                           *)

MayName(w) == w.kind \in {"path", "value"} \/ (w.kind = "flag" /\ w.names # <<>>)
Escapes(dir, w) == w.up > Len(dir)
Join(dir, w) == SubSeq(dir, 1, Len(dir) - w.up) \o w.names

Changed(old, new) == {f \in Files : old[f] # new[f]}

(* scopePathsConflict: either contains the other.                          *)
Conflict(p, q) == IsPrefix(p, q) \/ IsPrefix(q, p)
Touches(p, changed) == \E c \in changed : Conflict(p, c)

(* looksLikeRepoPath: a slash, an extension, or something on the disk, as  *)
(* what surrounds the repository is.                                       *)
LooksLikePath(dir, w, onDisk) ==
  \/ w.slash
  \/ w.names # <<>> /\ Last(w.names) \in Extensions
  \/ Escapes(dir, w) \/ Join(dir, w) \in onDisk

Collides_WholePath(w, changed) == w.names \in changed

(* collidesWithChanged: the bare name of something that changed.           *)
Collides(w, changed) == \E c \in changed : w.names = <<Last(c)>>

(* The words tokenScopePath refuses.                                       *)
NamesNothing(p, onDisk, changed) == p \notin onDisk /\ ~Touches(p, changed)
Refuses(dir, w, onDisk, changed) ==
  \/ w.kind = "odd"
  \/ w.kind = "value" /\ LooksLikePath(dir, w, onDisk)
  \/ /\ w.kind = "path"
     /\ \/ w.up = 0 /\ w.names = <<>> /\ ~w.slash  \* a dot: the whole tree
        \/ /\ LooksLikePath(dir, w, onDisk)
           /\ \/ Escapes(dir, w)
              \/ Join(dir, w) = <<>>
              \/ NamesNothing(Join(dir, w), onDisk, changed)
        \/ ~LooksLikePath(dir, w, onDisk) /\ Collides(w, changed)

(* The words it adds to the scope; every other is dropped.                 *)
IsScoped(dir, w, onDisk) == w.kind = "path" /\ LooksLikePath(dir, w, onDisk)

InSegment(q, i) == {q.cmd[i].words[j] : j \in DOMAIN q.cmd[i].words}
ScopeOf(q, i, onDisk) ==
  {Join(q.cwd, w) : w \in {v \in InSegment(q, i) : IsScoped(q.cwd, v, onDisk)}}
ScopePaths(q, onDisk) == UNION {ScopeOf(q, i, onDisk) : i \in DOMAIN q.cmd}

StdinFilter(segment) == segment.piped /\ segment.head \in Filters
SelfContained(segment) ==
  segment.head = "cd" \/ StdinFilter(segment) \/ segment.head \in Readers

(* commandScopePaths: no word is refused, and every segment is scoped on   *)
(* its own.                                                                *)
Bounded(q, onDisk, changed) ==
  /\ \A i \in DOMAIN q.cmd :
       /\ \A w \in InSegment(q, i) : ~Refuses(q.cwd, w, onDisk, changed)
       /\ ScopeOf(q, i, onDisk) # {} \/ StdinFilter(q.cmd[i])
  /\ ScopePaths(q, onDisk) # {}

(* ScopeMatchAt.                                                           *)
ScopeMatch(q, old, new, onDisk) ==
  LET changed == Changed(old, new) IN
  /\ \A i \in DOMAIN q.cmd : SelfContained(q.cmd[i])
  /\ changed # {}
  /\ ~\E f \in changed : Last(f) \in Global
  /\ Bounded(q, onDisk, changed)
  /\ \A s \in ScopePaths(q, onDisk), f \in changed : ~Conflict(s, f)

-----------------------------------------------------------------------------
(* The worktree, the record and the request.                               *)

Present(t) == {f \in Files : t[f] # Absent}

(* A command is issued in a directory, so no file is in its place.         *)
HasDir(t, dir) == \A f \in Present(t) : ~IsPrefix(f, dir)

ScopeInit ==
  /\ question \in Questions
  /\ ws \in Trees
  /\ rec = NoTree /\ req = NoTree
  /\ disk = {} /\ verdict = "none"

(* Anybody changes the worktree, at any time.  What happens between an     *)
(* answer and the next request may as well happen after the answer is      *)
(* forgotten.                                                              *)
Edit ==
  /\ verdict = "none"
  /\ ws' \in Trees \ {ws}
  /\ UNCHANGED <<question, rec, req, disk, verdict>>
Forget ==
  /\ verdict # "none"
  /\ disk' = {} /\ verdict' = "none"
  /\ UNCHANGED <<question, ws, rec, req>>

(* A peer executes the command and posts its record.                       *)
Record ==
  /\ verdict = "none" /\ HasDir(ws, question.cwd)
  /\ rec' = ws
  /\ UNCHANGED <<question, ws, req, disk, verdict>>

(* The hook hashes the worktree and asks.                                  *)
Ask ==
  /\ HasDir(ws, question.cwd)
  /\ req' = ws
  /\ disk' = {} /\ verdict' = "none"
  /\ UNCHANGED <<question, ws, rec>>

(* What Lstat finds of the paths that the command names: what git lists    *)
(* and perhaps what git does not list, an ignored file, a directory whose  *)
(* last file is gone, a name in another case, or whatever is behind a      *)
(* link, since Lstat follows the links on the way.                         *)
Named(q) ==
  UNION {{Join(q.cwd, w) : w \in {v \in InSegment(q, i) : MayName(v) /\ ~Escapes(q.cwd, v)}}
         : i \in DOMAIN q.cmd}
Listed(p, t) == p = <<>> \/ \E f \in Present(t) : IsPrefix(p, f)
Unlisted(p, t) == \A f \in Present(t) : IsPrefix(f, p) => t[f] \in Links
OnDisk(q, t) ==
  {seen \in SUBSET Named(q) :
     \A p \in Named(q) : IF Listed(p, t) THEN p \in seen ELSE p \in seen => Unlisted(p, t)}

Decide_SameTree ==
  /\ verdict = "none"
  /\ rec # NoTree /\ req # NoTree
  /\ disk' \in OnDisk(question, ws)
  /\ verdict' = IF ScopeMatch(question, rec, req, disk') THEN "tier 1" ELSE "refused"
  /\ UNCHANGED <<question, ws, rec, req>>

(* tryScope: a record made at the same tree is not its business.           *)
Decide ==
  /\ verdict = "none"
  /\ rec # NoTree /\ req # NoTree /\ rec # req
  /\ disk' \in OnDisk(question, ws)
  /\ verdict' = IF ScopeMatch(question, rec, req, disk') THEN "tier 1" ELSE "refused"
  /\ UNCHANGED <<question, ws, rec, req>>

ScopeNext == Edit \/ Forget \/ Record \/ Ask \/ Decide

ScopeSpec == ScopeInit /\ [][ScopeNext]_scopeVars

-----------------------------------------------------------------------------
(* What the command reads.                                                 *)

(* The worst case: every word that could be a path is read as one.         *)
Readings(q, i) ==
  q.cmd[i].also \cup {w \in InSegment(q, i) : MayName(w)}
                 \cup UNION {w.also : w \in InSegment(q, i)}
From(d, spellings) == {Join(d, s) : s \in {v \in spellings : ~Escapes(d, v)}}

(* Where the segments may run, one after the other: each where the one     *)
(* before it ran or, if that is a cd that may succeed, where it leads.     *)
Walks(q) ==
  {at \in [DOMAIN q.cmd -> Dirs \cup {q.cwd}] :
     \A i \in DOMAIN q.cmd :
       IF i = 1 THEN at[i] = q.cwd
       ELSE \/ at[i] = at[i - 1]
            \/ q.cmd[i - 1].head = "cd" /\ at[i] \in From(at[i - 1], Readings(q, i - 1))}
DirsOf(q, i) == {at[i] : at \in Walks(q)}

Looks(q) == UNION {UNION {From(d, Readings(q, i)) : d \in DirsOf(q, i)} : i \in DOMAIN q.cmd}

(* Looking at a path shows the file or the files below, or that there is a *)
(* file on the way, and whatever their contents lead to; a link leads on   *)
(* from the middle of a path as well.                                      *)
Shows(p) == {f \in Files : Conflict(p, f)}
LedTo(p, t) == UNION {Leads[t[f]] : f \in {g \in Present(t) : Conflict(p, g)}}

SameAnswer(q, old, new) ==
  \A p \in Looks(q) :
    \A f \in Shows(p) \cup LedTo(p, old) \cup LedTo(p, new) : old[f] = new[f]

-----------------------------------------------------------------------------
(* Properties.                                                             *)

(* The shape of the state; what was decided was decided on two different   *)
(* trees, at which the command could be issued.                            *)
Paths == Seq(STRING)
ScopeTypeOK ==
  /\ question \in Questions
  /\ ws \in Trees
  /\ {rec, req} \subseteq Trees \cup {NoTree}
  /\ \A t \in {rec, req} \ {NoTree} : HasDir(t, question.cwd)
  /\ disk \subseteq Paths
  /\ verdict \in {"none", "tier 1", "refused"}
  /\ verdict # "none" => rec # NoTree /\ req # NoTree /\ rec # req

(* What ScopeMatchAt overlooks.  It drops a bare word that names nothing   *)
(* on the disk, unless it is the name of a changed file: the word may name *)
(* a directory that is gone.  It drops flags, with whatever they name.  It *)
(* resolves every word against the directory the command was issued in,    *)
(* however many cd come before.  It knows programs by their base names and *)
(* never scopes them.  It takes a word as path.Join leaves it.  And it     *)
(* looks at names, where a reader looks at contents, and where a link on   *)
(* the way leads elsewhere.                                                *)
NoLostDirectory(q, t, onDisk) ==
  \A i \in DOMAIN q.cmd : \A w \in InSegment(q, i) :
    w.kind = "path" /\ ~LooksLikePath(q.cwd, w, onDisk) =>
      \A f \in Present(t) : ~IsStrictPrefix(Join(q.cwd, w), f)
FlagsNameNothing(q) ==
  \A i \in DOMAIN q.cmd : \A w \in InSegment(q, i) :
    w.kind # "value" /\ (w.kind = "flag" => w.names = <<>>)
NoClimbAfterCd(q) ==
  \A i, j \in DOMAIN q.cmd : i < j /\ q.cmd[i].head = "cd" =>
    \A w \in InSegment(q, j) : w.up = 0
ReadsOnlyItsWords(q) == \A i \in DOMAIN q.cmd : q.cmd[i].also = {}
MeansWhatItSays(q) == \A i \in DOMAIN q.cmd : \A w \in InSegment(q, i) : w.also = {}
LeadsNowhere(q, t) == \A p \in Looks(q) : LedTo(p, t) = {}
Covered ==
  /\ FlagsNameNothing(question) /\ NoClimbAfterCd(question)
  /\ ReadsOnlyItsWords(question) /\ MeansWhatItSays(question)
  /\ \A t \in {rec, req} : NoLostDirectory(question, t, disk) /\ LeadsNowhere(question, t)

(* Promotion is a proof, not a guess: where these gaps do not apply, a     *)
(* promoted record is what the command would answer at the tree it is      *)
(* asked for, whatever happened to the worktree while the daemon looked at *)
(* the disk.                                                               *)
PromotionIsSound ==
  verdict = "tier 1" /\ Covered => SameAnswer(question, rec, req)
=============================================================================
