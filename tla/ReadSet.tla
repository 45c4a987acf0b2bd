------------------------------ MODULE ReadSet -------------------------------
(***************************************************************************)
(* Scoping, tier 2 (internal/hp/readset.go): the pytest plugin reports the *)
(* files of the repository that a run imported, and ScopeMatchObserved     *)
(* promotes the run's record when none of them changed and nothing was     *)
(* added that the run would find.                                          *)
(*                                                                         *)
(* The module adds to Scope the report of the run that was recorded, the   *)
(* second answer of tryScope, and what a run of pytest does: it collects   *)
(* test files and conftest.py files by name, puts their directories on the *)
(* search path, and loads whatever they import, directly or not, through   *)
(* links as well.  The report is taken when the run has ended, so it names *)
(* what was loaded, and neither what was looked for in vain nor what was   *)
(* only opened.  Each file has the name that its links resolve to, and     *)
(* what lies below a directory of installed packages is left out.          *)
(***************************************************************************)
EXTENDS Scope, FiniteSets

CONSTANTS
  Tests,       \* names that the project's discovery patterns match
  Discovered,  \* names that python finds without an import
  Modules,     \* names with an extension that the plugin reports
  Imports,     \* Imports[c]: what contents c import, as paths from some
               \* directory of the search path
  Opens,       \* Opens[c]: files that c open without importing them
  Configured,  \* directories that settings put on the search path
  Skipped,     \* names of directories whose files the plugin leaves out
  Worlds,      \* Worlds[q]: states of the worktree in which q is tried
  NoReads

Reads == [paths : SUBSET Files, silent : BOOLEAN]

ASSUME ReadSetAssumption ==
  /\ IsFiniteSet(Files)
  /\ \A f, g \in Files : IsStrictPrefix(f, g) => Last(f) \notin Modules
  /\ {"conftest.py", "__init__.py"} \subseteq Discovered /\ Discovered \subseteq STRING
  /\ Imports \in [Contents -> SUBSET (Paths \ {<<>>})]
  /\ \A c \in Contents : \A m \in Imports[c] : Last(m) \in Modules
  /\ Opens \in [Contents -> SUBSET Files]
  /\ Configured \subseteq Paths /\ Skipped \subseteq STRING
  /\ Worlds \in [Questions -> SUBSET Trees]
  /\ NoReads \notin Reads

VARIABLES
  reads,    \* the read set in the record: its paths, and (history) whether
            \* one of several processes reported nothing
  observed  \* tier 2 promotes

readSetVars == <<scopeVars, reads, observed>>

-----------------------------------------------------------------------------
(* What a run of pytest loads.                                             *)

InitFile(dir) == Append(dir, "__init__.py")
Pytest(q) == {i \in DOMAIN q.cmd : q.cmd[i].head = "pytest"}

Args(q, i) ==
  LET named == {Join(q.cwd, w) : w \in {v \in InSegment(q, i) : v.kind = "path" /\ ~Escapes(q.cwd, v)}}
  IN IF named = {} THEN {q.cwd} ELSE named

(* Test files are found below a link too, and by an argument behind one.   *)
LinksIn(t) == {l \in Present(t) : t[l] \in Links}
Collected(q, i, t) ==
  {f \in Present(t) : \E a \in Args(q, i) :
     \/ f = a /\ Last(f) \in Modules
     \/ IsPrefix(a, f) /\ Last(f) \in Tests
     \/ \E l \in LinksIn(t) : Conflict(l, a) /\ f \in Leads[t[l]] /\ Last(f) \in Tests}
Conftests(q, i, t) ==
  {f \in Present(t) : Last(f) = "conftest.py" /\ \E a \in Args(q, i) : Conflict(Front(f), a)}

(* The packages that file f is in, from the inside out, and the directory  *)
(* of the outermost one.                                                   *)
Packages(f, t) ==
  {d \in Prefixes(Front(f)) :
     \A e \in Prefixes(Front(f)) : IsPrefix(d, e) => InitFile(e) \in Present(t)}
Base(f, t) ==
  {d \in Prefixes(Front(f)) \ Packages(f, t) :
     \A e \in Prefixes(Front(f)) : IsStrictPrefix(d, e) => e \in Packages(f, t)}

Found(q, i, t) == Collected(q, i, t) \cup Conftests(q, i, t)
Start(q, i, t) == Found(q, i, t) \cup UNION {{InitFile(d) : d \in Packages(f, t)} : f \in Found(q, i, t)}
SearchPath(q, i, t) == {<<>>} \cup Configured \cup UNION {Base(f, t) : f \in Found(q, i, t)}

(* An import is resolved in the directory that was put on the search path  *)
(* last, which is the deepest; the packages on the way are loaded too.  If *)
(* a link is on the way, or is what was found, the file that it leads to   *)
(* is loaded.                                                              *)
Candidates(m, path, t) == {d \o m : d \in path} \cap Present(t)
Resolved(m, path, t) ==
  {p \in Candidates(m, path, t) : \A o \in Candidates(m, path, t) : Len(o) <= Len(p)}
OnTheWay(m, p) == {InitFile(SubSeq(p, 1, Len(p) - k)) : k \in 1 .. Len(m) - 1}
LinksTo(m, path, t) == {l \in LinksIn(t) : \E d \in path : IsStrictPrefix(l, d \o m)}
Behind(m, path, t) ==
  {p \in UNION {Leads[t[l]] : l \in LinksTo(m, path, t)} : Last(p) = Last(m)}
Target(f, t) == IF t[f] \in Links THEN Leads[t[f]] ELSE {}
Loads(f, path, t) ==
  Present(t) \cap
    (Target(f, t)
       \cup UNION {Resolved(m, path, t) \cup Behind(m, path, t)
                      \cup UNION {OnTheWay(m, p) : p \in Resolved(m, path, t)}
                   : m \in Imports[t[f]]})

(* The least set that has the start and whatever its members import.       *)
Complete(q, i, t) ==
  {files \in SUBSET Present(t) :
     /\ Start(q, i, t) \subseteq files
     /\ \A f \in files : Loads(f, SearchPath(q, i, t), t) \subseteq files}
Loaded ==
  [q \in Questions |-> [t \in Trees |-> [i \in Pytest(q) |->
     {f \in Files : \A files \in Complete(q, i, t) : f \in files}]]]

Opened(q, i, t) == UNION {Opens[t[f]] : f \in Loaded[q][t][i]}

-----------------------------------------------------------------------------
(* The report.                                                             *)

(* A session that ended well: each argument is a directory or a module, or *)
(* behind a link, and tests were found.                                    *)
Passes(q, i, t) ==
  /\ \A a \in Args(q, i) : \E f \in Present(t) :
       \/ IsStrictPrefix(a, f) \/ (f = a /\ Last(f) \in Modules)
       \/ IsPrefix(f, a) /\ f \in LinksIn(t)
  /\ Collected(q, i, t) # {}

(* _collect: the modules that were loaded, each under the name that its    *)
(* links resolve to.  What a link leads to is loaded itself, so a link     *)
(* adds no name.                                                           *)
Installed(f) == \E k \in 1 .. Len(f) - 1 : f[k] \in Skipped
Reported(q, i, t) == {f \in Loaded[q][t][i] : t[f] \notin Links /\ ~Installed(f)}

(* CaptureReadSet: one report that is torn, incomplete or of a session     *)
(* that ended badly spoils all of them; one that is missing does not.      *)
Captured(q, t, said) ==
  LET spoken == {i \in Pytest(q) : said[i] = "line"} IN
  IF \/ spoken = {}
     \/ \E i \in Pytest(q) : said[i] = "bad" \/ (said[i] = "line" /\ ~Passes(q, i, t))
  THEN NoReads
  ELSE [paths |-> UNION {Reported(q, i, t) : i \in spoken}, silent |-> spoken # Pytest(q)]

-----------------------------------------------------------------------------
(* ScopeMatchObserved.                                                     *)

TestDirs(paths) == {Front(p) : p \in {f \in paths : Last(f) \in Tests}}
ImportRoots(paths) == {<<>>} \cup {Front(p) : p \in {f \in paths : Last(f) = "conftest.py"}}

Unsafe_RootOnly(a, paths) ==
  \/ Last(a) \in Discovered \cup Tests
  \/ Last(a) \in Modules /\ Front(a) \in ImportRoots(paths)

(* firstUnsafeAddition.                                                    *)
Unsafe(a, paths) ==
  \/ Last(a) \in Discovered \cup Tests
  \/ \E d \in TestDirs(paths) : IsPrefix(d, a)
  \/ Last(a) \in Modules /\ Front(a) \in ImportRoots(paths)

Added(old, new) == {f \in Changed(old, new) : old[f] = Absent}

ScopeMatchObserved(rs, old, new) ==
  LET changed == Changed(old, new) IN
  /\ rs # NoReads /\ rs.paths # {}
  /\ changed # {}
  /\ \A a \in Added(old, new) : ~Unsafe(a, rs.paths)
  /\ ~\E f \in changed : Last(f) \in Global
  /\ \A s \in rs.paths, f \in changed : ~Conflict(s, f)
  /\ \A f \in changed \ Added(old, new) : Last(f) \in Modules

-----------------------------------------------------------------------------
ReadSetInit ==
  /\ ScopeInit /\ ws \in Worlds[question]
  /\ reads = NoReads /\ observed = FALSE

EditFiles ==
  /\ ws' \in Worlds[question] /\ Edit
  /\ UNCHANGED <<reads, observed>>

ForgetAnswer ==
  /\ Forget
  /\ observed' = FALSE
  /\ UNCHANGED reads

(* Each process of the run reports; or something keeps it from it, which   *)
(* nobody is told; or its report is of no use.                             *)
RecordRun ==
  /\ Record
  /\ reads' \in {Captured(question, ws, said) :
                   said \in [Pytest(question) -> {"line", "nothing", "bad"}]}
  /\ UNCHANGED observed

AskFor_KeepsAnswer ==
  /\ Ask
  /\ UNCHANGED <<reads, observed>>

AskFor ==
  /\ Ask
  /\ observed' = FALSE
  /\ UNCHANGED reads

TryScope ==
  /\ Decide
  /\ observed' = (verdict' = "refused" /\ ScopeMatchObserved(reads, rec, req))
  /\ UNCHANGED reads

ReadSetNext == EditFiles \/ ForgetAnswer \/ RecordRun \/ AskFor \/ TryScope

ReadSetSpec == ReadSetInit /\ [][ReadSetNext]_readSetVars

-----------------------------------------------------------------------------
(* Properties.                                                             *)

(* The shape of the state; tier 2 comes after tier 1 and needs a report.   *)
ReadSetTypeOK ==
  /\ reads \in Reads \cup {NoReads}
  /\ observed \in BOOLEAN
  /\ observed => verdict = "refused" /\ reads # NoReads

(* What ScopeMatchObserved overlooks.  Every segment of a command line is  *)
(* served, and only pytest reports.  A process that reports nothing is not *)
(* missed if another reports.  Directories get on the search path that are *)
(* neither the root nor those of conftest.py or test files.  A file added  *)
(* in a package can be what an import in vain was for, or be found before  *)
(* another.  A run opens files: modules, or files that were not there.  A  *)
(* module below a directory of installed packages is not reported, and a   *)
(* link that was loaded is reported as what it leads to: what is under the *)
(* name may change.  So may a link on the way to what was loaded.          *)
AllReport(q, rs) == Pytest(q) = DOMAIN q.cmd /\ ~rs.silent
KnownRoots(q, rs, t) ==
  \A i \in Pytest(q) : SearchPath(q, i, t) \subseteq ImportRoots(rs.paths) \cup TestDirs(rs.paths)
SettledImports(q, old, new) ==
  \A i \in Pytest(q) : \A f \in Loaded[q][old][i] :
    \A m \in Imports[old[f]], d \in SearchPath(q, i, old) :
      Len(m) > 1 => d \o m \notin Added(old, new)
OpensData(q, t) ==
  \A i \in Pytest(q) : \A f \in Opened(q, i, t) :
    f \in Loaded[q][t][i] \/ (Last(f) \notin Modules /\ t[f] # Absent)
ReportedAsLoaded(q, t) == \A i \in Pytest(q) : Loaded[q][t][i] = Reported(q, i, t)
NoLinkOnTheWay(q, old, new) ==
  \A i \in Pytest(q), t \in {old, new} :
    /\ \A a \in Args(q, i), l \in LinksIn(t) : ~Conflict(l, a)
    /\ \A f \in Loaded[q][old][i] : \A m \in Imports[old[f]] :
         LinksTo(m, SearchPath(q, i, old), t) = {}
Foreseen(q, rs, old, new) ==
  /\ AllReport(q, rs) /\ KnownRoots(q, rs, old)
  /\ SettledImports(q, old, new) /\ OpensData(q, old)
  /\ ReportedAsLoaded(q, old) /\ NoLinkOnTheWay(q, old, new)

(* Where these gaps do not apply, a run that tier 2 promotes would load    *)
(* the same files with the same contents at the tree it is asked for, and  *)
(* find the same in every file it opens; and every other segment would     *)
(* answer the same.                                                        *)
SameRun(q, old, new) ==
  /\ \A i \in Pytest(q) :
       /\ Loaded[q][old][i] = Loaded[q][new][i]
       /\ \A f \in Loaded[q][old][i] \cup Opened(q, i, old) : old[f] = new[f]
  /\ Pytest(q) = DOMAIN q.cmd \/ SameAnswer(q, old, new)
ObservedIsSound ==
  observed /\ Foreseen(question, reads, rec, req) => SameRun(question, rec, req)
=============================================================================
