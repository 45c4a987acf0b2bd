# Hindsight in TLA+

Hindsight (`internal/hp`, `cmd/hindsight`) is a build cache for coding agents.
A hook intercepts every shell command an agent is about to run, hashes the
state of the worktree, and asks a shared daemon whether the same command was
already executed in the same state.  If so, the agent is handed the recorded
output (a HIT).  If not, the agent runs a wrapper that executes the command,
checks that the command left the worktree as it was, and reports the outcome
to the daemon.  Whatever can go wrong ends in one of two ways: an agent reads
an output the command would not have printed, or an agent waits for somebody
who never comes.  The modules in this directory state both as properties,
model-check them on small instances with TLC, and prove most of the safety
ones for every instance with TLAPS.

## The system

| part | code | state it keeps | operations |
|---|---|---|---|
| record store | `internal/hp/store.go` | `log.jsonl`; in memory `servable` (key → record) and `candidates` (key without tree hash → records) | `OpenStore`/`replay`, `Append`, `ingest`, `Evict`, `Lookup`, `Candidates` |
| blob store | `store.go` `PutBlob`, `bundle.go` | one file per output, named by its hash, and a `.tmp` beside it | put, read |
| daemon | `internal/hp/daemon.go`, `client.go` | `leases` (key → done channel), `unservable`, goroutines blocked on a channel | `/lookup`, `/record`, `/release`, `/servable`, `/verify`, `/agents`, `/stats`, `/events` |
| agent hook | `cmd/hindsight/hook.go` | none beyond its process | hash, ask, rewrite the command |
| wrapper | `cmd/hindsight/record.go`, `hp/record.go` | none beyond its process | run, hash again, purity gate, put blobs, post, release |
| shadow verification | `cmd/hindsight/verify.go` | none beyond its process | hash, fetch the servable records, re-execute, post verdicts |
| key | `key.go`, `envfp.go`, `eco_*.go` | git's side index of the worktree and its lock | tree hash, environment fingerprint, key text |
| scoping (tier 1) | `scope.go` | none | may a record of another tree be promoted, from the command text alone |
| read sets (tier 2) | `readset.go`, `scripts/hindsight_pytest_plugin.py` | a temporary directory per run | may it be promoted, from what the recorded run read |
| policy | `policy.go` | none | SERVE, RECORD_ONLY or BYPASS |
| fast-path memo | `fastpath.go` | a JSON file | known fast commands bypass the cache |
| bundles | `bundle.go`, `cmd/hindsight/cache.go` | a tar file | export, import |
| corpus, replay | `transition.go`, `export.go`, `corpus.go`, `replay.go` | none | reports over the log or over a trace |
| artifacts | `artifact.go` | captured directories | capture, verify, swap in; called only by tests so far |
| speculation | `speculate.go`, `warm.go` | scratch worktrees | neither `cmdWarm` nor `/suggest` is registered |
| display, set-up | `fleet.go`, `init.go`, `doctor.go`, `web/` | none that is read back | |

How they meet.  Hooks, wrappers and verifiers are separate processes; they
share the worktree (with each other, the agent and the editor, and no lock),
the blob directory, and the daemon, which they call over HTTP.  In the daemon
every request is a goroutine; `Server.mu` guards the leases and `unservable`,
`Store.mu` the indexes and the log, and no handler holds either across its
whole body.  A lookup that finds a lease blocks on the lease's channel outside
any lock.

What is hard: check-then-act across two critical sections (lease lookup and
acquisition; index lookup and lease lookup); a release by key, whoever took the
lease; a 15 minute timer against a client that gave up after 10; snapshots of a
worktree taken file by file while others write it; writers of one blob sharing
a temporary name; wrappers that read, change and write back one memo without a
lock; a log whose last line is torn; an eviction that only memory knows about;
a directory that is walked, copied and swapped while it is used.

What makes each part correct:

* store: the two indexes agree; what is servable would still be servable after
  a restart and conversely; the last line of a key wins.
* blobs: a reader never sees part of an output.
* daemon: a HIT is servable when chosen, of the requested key or promotable to
  it; no channel is closed twice; no wakeup is lost; a result can be found
  before those who wait for it wake; every lookup is answered.
* gate: a servable record was computed from the state its key names; a HIT
  prints what would be printed; verification evicts only for a cause.
* scoping and read sets: promotion never changes the answer.
* fast-path memo: it calls nothing fast that was not seen to be, and forgets no
  expensive run.
* artifacts: what is put in place is the captured environment, whole, and
  nothing else is overwritten.

## Modules

| module | models | extends |
|---|---|---|
| `Store` | the log, its torn tail, the two indexes, eviction, crash and replay | |
| `Service` | what the daemon promises those who call it | |
| `Daemon` | handlers, leases, timers, clients, verifiers, restarts | `Store`; instance of `Service` |
| `Blobs` | `PutBlob` on inodes and descriptors | |
| `Fastpath` | the memo and its temporary file, concurrent observers | |
| `Wrapper` | hook, wrapper and cache import of one command, as far as they share files | `Blobs`, `Fastpath` |
| `Gate` | hook, wrapper and verifier in a worktree that is being edited | |
| `Scope` | tier 1: `ScopeMatchAt`, on parsed commands, against what the commands read | |
| `ReadSet` | tier 2: the plugin's report and `ScopeMatchObserved`, against what pytest loads | `Scope` |
| `Directory` | what the artifact guard promises about a worktree's directory | |
| `Artifact` | capture and restore by many processes | instance of `Directory` |
| `MCStore`, `MCDaemon`, `MCBlobs`, `MCWrapper`, `MCGate`, `MCScope`, `MCArtifact` | the instances for TLC | |
| `StoreProofs`, `DaemonProofs`, `HitProofs`, `LeaseProofs`, `WrapperProofs`, `GateProofs`, `ScopeProofs`, `ArtifactProofs` | theorems | |

**Store.**  The file is the sequence `log` of the lines a scan parses *and* acts
on, plus `tail`, which says how the file ends.  `ingest` ignores every line that
is not servable, so such a line is only felt through its newline: it ends an
unfinished line and destroys it.  `AppendRecord` is `Append` (line, then index),
`AppendShort` a write that stopped short (returned as an error, not indexed),
`Evict` forgets in memory, `Crash` forgets everything, `ReplayLine` and
`ReplayDone` are the scan of `OpenStore`.  `evicted` and `lostKeys` are history.

**Daemon** adds the server.  `leases[k]` is the done channel, a value that can
be recycled once nobody refers to it.  Each action is one critical section of a
handler or one step of a client; `call[h].pc` walks through `handleLookup`
(`lookup`, `scope`, `peek`, `wait`/`expired`/`woken`, `serve`, `acquire`), the
wrapper (`run`, `sorry`) and `handleRecord`/`handleRelease` (`record`, `mark`,
`release`, `close`).  `Promotes` stands for `ScopeMatchAt` and
`ScopeMatchObserved`: which record, with which outcome, answers which other
key.  `Faults` selects failures: a timer fires, a wrapper dies, a call is lost,
the disk is full, the daemon crashes.  A client call that the daemon answered
with an error is not a failure the client sees: `client.post` ignores the
status.

**Service** is the daemon as its callers see it: an index, the records a restart
would bring back (`kept`), and for each caller how far its request has got.
Each request takes effect in one step (`Find` or `FindNothing`, `Put`,
`Forget`), though a handler has up to seven critical sections: a HIT was in
the index at some moment of the call, a MISS means that at some moment the
index had no record of the key, a result is in the index and kept, or the disk
failed.  `Tears` says whether a write may stop short and spoil what is kept; if
not, nothing is ever lost from it.  `Recall` and `Rise` are a restart, which
brings back only what is kept and answers no sooner than every key with a kept
record has one.  `Daemon` maps its handlers' program counters to these stages
(`Stage`, `Told`), its log to `kept` (`Kept`) and the fault `"full"` to `Tears`.
What the promise leaves open is what the code leaves open: when a caller is
told to execute nobody says that no other was, or that the answer is not there
by now.

**Blobs** gives names, inodes and descriptors their POSIX meaning, because the
question is what a descriptor writes to after its name was renamed away.

**Fastpath** follows `Save` to the system calls: open with truncation, write,
rename, all through one temporary name, so a writer may have its file renamed
under it (`Moved`) or write over another's (`Over`).  A file that two writers
left is `Torn`, and `LoadFastpath` takes it for empty.  `met` remembers that one
wrapper loaded the memo while another had not yet saved it, the only way to
lose an observation.

**Wrapper** puts the two together: a wrapper calls `PutBlob`, then feeds the
memo, then posts, and may claim to be servable only if the output is stored and
the command was not too fast.  A cache import is a process that puts the same
blob by the same steps and then appends the record.  `bare` marks a bundle that
was packed without an output that its record names: `PackCache` skips a blob it
cannot read (`bundle.go:98`) and keeps the record, `UnpackCache` checks only the
blobs it finds, and the daemon never looks at the file, so what the comment
calls a lost hit is a HIT without output.

**Gate** replaces the daemon by its servable index and gives the worktree parts
that anybody may edit between any two reads.  A key is a snapshot, an outcome
is the directory and what the execution read.  Contents are numbered; `restored`
remembers that an edit during a call lowered a number, which is the only way a
content can come back.  `stood` is a second history: the worktree was what the
hook had hashed when the command started, and nobody edited it until the
command ended.  `CachedIsOfItsKey` asks for both, that a cached record read what
its key says and that it ran in that one state.  The verifier judges more than
what it could re-execute: `VerifySpoilt` is a record with a blob that cannot be
read, which is reported as a divergence without any re-execution
(`verify.go:77`), `VerifyCutShort` a re-execution that did not start or did not
end within `verify`'s 10 minutes, where the recording had 30; and `VerdictLost`
a verdict that reaches no daemon.  `EvictionHasCause` says what verification may
not do to a right record, `WrongIsEvicted` what it must do to a wrong one.

**Scope** has two halves.  The first is the decision: `Conflict`,
`LooksLikePath`, `Collides`, `Refuses`, `ScopeOf`, `Bounded` and `ScopeMatch`
are `scopePathsConflict`, `looksLikeRepoPath`, `collidesWithChanged`,
`tokenScopePath`, `segmentScopePaths`, `commandScopePaths` and `ScopeMatchAt`.
A path is a sequence of names; a word is what the classifier sees of it, so
cutting a line into segments and words is not modelled, and neither is the end
of a pytest node id.  `OnDisk` is what `existsUnder` may find: `Lstat` looks only
at the last name of a path without following it, so a path through a link
exists.  What the decision has no eyes for is in the question all the same: a
head is its base name (`cmdBase`), and the `also` of a segment or of a word is
what it makes somebody read besides: `./scripts/diff` for a head written with a
slash, the tree below for `grep -r` after a pipe, the command behind a single
`&` that `splitSegments` does not split, the directories that `path.Join` cleans
away from `d/../x`.  The second half is what a reader does with its words:
`Walks` and `DirsOf` (where a segment may run, after any number of `cd`s that may
succeed or fail), `Looks`, `Shows`, `LedTo` (where links lead, the last name's and
those on the way); `SameAnswer` says that nothing it can see differs between two
trees, in the worst case that every word is read as a path.  Around the two, the
worktree is edited between the recording, the request and the moment the daemon
looks at the disk.  What this reading leaves out: files outside git's tree, which
are ignored files, `.git`, and whatever surrounds the repository.

**ReadSet** adds the second answer of `tryScope`.  What pytest does is modelled
beside the code: `Collected` and `Conftests` are found by name, `Base` and
`Packages` say which directories get on the search path, `Resolved` is the
deepest module that an import can mean, and `Loaded` the least set closed under
imports, through links as well (`Behind`, `Target`).  `Reported` is the plugin's
`_collect`, which is not the identity: it leaves out what lies below a directory
of installed packages (`Installed`) and reports what a link resolves to instead
of the link.  `Captured` is `CaptureReadSet` and `parseReadSet` over one report
per process, each of which may be missing, useless or good; `Unsafe` is
`firstUnsafeAddition`.  The patterns for test files, the names of the skipped
directories and the search path that settings add are constants.

**Artifact** models what `CaptureInstall` and `RestoreInstall` do to a directory
one file at a time, while its owner edits and other processes do the same.  A
snapshot is stored under the hash of what was walked, so the tree is its name.
File contents are a version and the worktrees they name, each in one of six
spellings, because relocation is an exchange of paths inside contents: what
`Replace` takes for the worktree's path is decided by the byte that follows
(`Exchanged`), which is wrong both ways, for a longer path that goes on with a
byte it does not count as part of a name (`/fleet/a1+x`) and for a path that
ends a sentence (`/fleet/a1.`).
**Directory** is what a user of a worktree is promised, in terms of the
directory alone: whole environments appear in one step, only where nothing is
or where a restore was told to overwrite, and a displaced directory comes back
or is lost only to a failure between the two renames.

## Runs

| run | instance | shows |
|---|---|---|
| `store` | 2 keys sharing a candidate slot, 2 outcomes, 3 lines | agreement of indexes, log and replay under crashes, short writes, evictions |
| `daemon_scope` | 3 keys, one RECORD_ONLY, one promotable to another; 2 calls, 1 verifier | hits are legitimate, results precede wakeups, leases have owners |
| `daemon_peers` | 1 key, 3 calls, every fault | no double close, no lost wakeup, unservable keys drain |
| `daemon_timers` | 1 key, 2 calls, every fault | every lookup is answered; the daemon implements `ServiceSpec` |
| `wrapper` | 2 processes that wrap or import, 2 pieces, 4 inodes, 3 runs, full disk and killed processes | what a reader of the blob may see, what the memo remembers, what a record may claim |
| `gate` | 2 parts with 2 contents, 1 command at a time, 1 verifier, 1 cached record | the purity gate, HITs, and which records verification evicts and which it keeps |
| `scope` | 14 paths; 13 command lines over variants of one repository, 5 of pytest over variants of another | what either tier promotes is what the command would answer |
| `artifact` | 2 worktrees, a script, a library and bytecode, 1 capture, 2 restores (one overwrites), 1 edit, 1 damaged file, failures and deaths | captures, clones, relocation and the promise of `Directory` |
| `single_flight` | 1 key, 2 calls, no fault | **violated**: two lookups both execute |
| `evicted` | 2 keys, 2 lines | **violated**: an evicted record returns after a restart |
| `partial_blob` | 2 writers, no fault | **violated**: part of an output is visible |
| `verify_directory` | as `gate` | **violated**: a right record is evicted because it was re-executed elsewhere |

Bounds, and why they are enough.  `MaxLog` bounds the lines of the log and the
records indexed since a start; three lines are a record, a later one of its key
and a glued one.  Lines that are not servable are not counted.  Two keys in one
candidate slot are what promotion needs, the third key is RECORD_ONLY and has a
slot of its own.  Three calls on one key are a holder, a waiter whose timer
fires and a third that takes the next lease: what the release by key confuses.
Four inodes are two names and two open descriptors; two processes are a writer
and one that interferes, and the proofs are for any number.  Three runs are two
that make a command known and one that comes too late.  In `Gate` a second
command at a time adds nothing that `Edit` cannot do to the first, since
commands meet only in the worktree and in the cache; the proofs are for any
number.  In `Scope` the seven paths of the first repository have a file and a
directory with the same name, a base name at two places, a bare name without
extension, a directory in a directory, a global file and a link to a directory;
the thirteen commands have each kind of word, a pipe into a filter, a head that
is no reader, a program that is in the tree, a name that is left again
(`d/../x.py`), a link on the way to an argument, and a `cd` with and without a
climb or another `cd` after it.  Leaving out any one of the six conditions of
`PromotionIsSound` makes TLC find a wrong promotion on this instance, and
likewise for the six of `ObservedIsSound`.  The worlds of a pytest question differ in one file from one
that suits it: an added file, a changed one and a removed one are each a single
difference.  `MCArtifact` has an environment that names its worktree in a script
and one that has it compiled into a library (which may not be moved), and one
edit and one damaged file, which may fall between any two steps of the three
processes; a second of each multiplies the states beyond what a run can visit,
and the proofs are for any number.  `daemon_timers` has one key and two calls because keys do not interact
in the handlers of `LookupAnswered`.  `wrapper` and `artifact` do not check for deadlock:
they stop when the bound on their events is used up.  The calls, channels, writers, inodes and parts are interchangeable and reduced by symmetry in the runs that check safety
only.

Fairness (`DaemonFairness`).  Goroutines that can run are run by the Go
scheduler: weak fairness of each handler.  `time.After` fires: weak fairness of
`Expire`.  A daemon that starts finishes its scan.  A wrapper ends: `hindsight
record` kills its command after 30 minutes; `hp.Run` then waits for the copying
of its output, so this assumes that no descendant left the process group with
the pipes still open.  Nothing is assumed of the agents, the verifiers or the
failures.  `LookupAnswered` says that the *handler* answers; a client gives up
after 10 minutes, before the lease timer's 15.

## What is proved

All for every value of the constants that satisfies the named assumptions
(`StoreAssumption`, `DaemonAssumption`, `BlobsAssumption`, `FastpathAssumption`,
`WrapperAssumption`, `GateAssumption`, `ScopeAssumption`, `ReadSetAssumption`,
`ArtifactAssumption`).

* `StoreProofs`: `StoreInv`, the conjunction of the five invariants of the run
  `store`, is inductive as it stands once types are included: agreement of the
  indexes needs `count` to bound candidate positions, and durability needs the
  replay invariant at the moment the scan ends.  From it follow
  `StoreTypeOK`, `IndexesAgree`, `ReplayLastLineWins`, `ServableIsDurable`,
  `LogIsServed`.  `ServableIsDurable` is about the very record: what is served for
  a key is the key's last line, and only a line that `Append` reported as an error
  (its newline is missing, not `Settled`) may follow it.
  `StoreInventsNothing` is about where records come from: if only lines of a set
  are appended, however short, the log and the indexes hold only lines of it.
* `DaemonProofs`: `DaemonTypeOK`, and `DaemonSpec => StoreSpec`, which holds by
  the way `Daemon` is composed and is there to carry the store's invariants over
  to every interleaving of handlers.  No run checks it, for that reason.
* `HitProofs` (on top of `LeaseProofs`): `HitIsLegitimate` uses
  `CandidatesAreServable`, which is why `dropServable` has to forget a record in
  both indexes.  `ResultBeforeWake` says that the peers a handler is about to wake
  are of the key it recorded, although channels are recycled and a release goes by
  key; it needs `SameFlight`: a lease, its waiters and its closer are of one key,
  which is inductive only together with `ClosedOnce`.
  `DaemonImplementsService`: each action of the daemon is one of `Service`, or a
  stutter, given the store's invariant and that only a call which asked to be
  served looks for a record (`ServeAsked`).  `FindExact`, `TryScope` and `Recheck`
  are `Find` at the moment they find a record; `FindExact` that finds none is
  `FindNothing`; `RecordAppend` is `Put`; the end of the scan is `Rise` by
  `ReplayLastLineWins`.  If no write can stop short the log never ends in part of a
  line (`Untorn`), which is what `kept` losing nothing rests on.
  `DaemonIsTransparent` joins it to the rest of the system: if the outcome is a
  function of the key (`Result`), wrappers post as servable only that outcome
  (`PostsOnly`) and promotions are sound for it (`SoundFor`), every HIT carries what
  executing the command would give.  The three hypotheses are not the daemon's to
  keep.  The second is what the purity gate is for (`CachedIsOfItsKey`), the third
  what scoping is for (`PromotionIsSound`, `ObservedIsSound`), each with the
  exceptions named there; the first is the assumption every cache makes of the
  commands it serves, and the policy decides which those are.
* `LeaseProofs`: the lease invariant says that the channels of leases, of
  handlers about to close and of expired leases are pairwise different, that a
  waiter's channel is one of them, and that behind an unservable key's waiters
  a release is under way.  `ClosedOnce`, `WaiterCanWake`,
  `KnownUnservableDrains` and `LeaseIsClaimed` follow.
* `WrapperProofs`: for blobs, the invariant follows each descriptor: what a
  writer has written is in its inode unless somebody overlapped, and a piece
  that a name lacks is still to be written by somebody who has the file open.
  For the memo, an entry counts at most the runs there were, *less those still
  to be counted* (`Counted`, without which the next observation could count too
  many); and as long as nobody met, one wrapper at most is saving, what it is
  about to save goes beyond the memo, and the temporary file is its own
  (`Kept`).  `WrapperSpec => BlobsSpec /\ FastpathSpec` carries both over to the
  composition, where `PostedIsReplayable` needs only that a blob that has a name
  keeps one.
* `GateProofs`: three readings of a part by one call (first snapshot, command,
  second snapshot) are made in this order while contents are only raised,
  unless `restored`; so if the first and the last are equal the middle one is
  equal too.  `restored` is exactly what this needs.  That the state also stood
  takes more (`Drifts`): a call whose start or run the worktree moved under left a
  part beyond its first reading, where the second reading will be too.
  `GateEvictsForACause` is about every step of the verifier: a right record is
  evicted only if a blob of it could not be read, its re-execution was cut short,
  it belongs in another directory, the worktree was edited meanwhile, or it is
  newer than the record that was judged.  The first two are evictions of records
  that nothing is wrong with, and the code has them.  `GateEvictsTheWrong` follows the verifier's readings in the same way: what it
  re-reads in an unedited worktree is the state it hashed (`RereadIsTheState`), so a
  record of that state that read something else is seen to differ.
* `ScopeProofs`: `ScopeMatchSound`.  A path a command looks at comes from a
  word.  If the word was scoped, the path is at or below a scope path; a file
  that shows there is comparable with the scope path, because two prefixes of
  one path are comparable, so it did not change.  If the word was dropped, it
  is a bare name of no changed file, nothing lies below it, and above it is the
  directory the command runs in.  After any number of `cd`s, a segment is where
  the command was issued or below what an argument of one of them names from
  there (`WalksArrive`, by a smallest counterexample on the walk), and that
  argument is itself scoped, or dropped with nothing below it.  The invariant carried by the state machine
  is only that a promotion was decided on the two trees it is used for.
  For tier 2, `Loaded` is a least fixed point: it is closed because every set
  that is closed contains it.  If the two trees agree on what was loaded and
  every addition is safe, then each import resolves as before (the deepest
  candidate, by well-founded descent on its depth), so the old set is closed at
  the new tree and conversely.  `ReadSetSpec => ScopeSpec` keeps tier 1's
  theorems.
* `ArtifactProofs`: a capture has what the directory has, as far as it walked
  (`Walks`); descriptors and clones are named after what they hold (`Filing`);
  a restore's copy becomes the relocated snapshot at verification, because
  taking the relocation back gives the snapshot only for that tree (`Reached`);
  and a directory that is aside is the one displaced last (`Gap`).  With these
  every step of `Artifact` is a step of `Directory` or a stutter, if
  verification is on, which is the default.

`PromotionIsSound` holds under six conditions, the six things `ScopeMatchAt`
overlooks: no word names a directory that is gone (`NoLostDirectory`); flags
name no files (`FlagsNameNothing`); nothing climbs after a `cd`
(`NoClimbAfterCd`); a segment reads nothing besides its words
(`ReadsOnlyItsWords`), which `./scripts/diff a.py b.py` does, since
`scope.go:177` takes it for `diff` and `scope.go:320` never scopes the head; a
word means what `path.Join` leaves of it (`MeansWhatItSays`); and what is read
leads nowhere else (`LeadsNowhere`: symbolic links, in the middle of a path as
well as at its end, and lists of checksums).  The first is worth a second look, since a
comment (`scope.go:385`) claims to exclude it: `tokenScopePath` protects the bare
name of a deleted file, by comparing base names with the changed paths, but a
directory is no changed path, so `diff x.py s` is promoted although `s` is gone.

`ObservedIsSound` holds under six of its own: every segment is pytest's and every
process reports (`AllReport`); no settings put other directories on the search
path (`KnownRoots`); no import in vain is satisfied inside a package
(`SettledImports`); a run opens only data files that exist (`OpensData`); what
was loaded is what the plugin reports, so nothing was loaded from a skipped
directory or under the name of a link (`ReportedAsLoaded`); and no link is on the
way to an argument or to an import (`NoLinkOnTheWay`).

`FaithfulRelocation` promises that no real mention of the old worktree is left,
and that mentions of other worktrees and of longer names are kept.  It promises
nothing of four spellings, and of each for a reason in the code: `raw`, a path
through a symbolic link, which `Replace` does not know although the capture
searched for it; `dotted`, which `Replace` takes for a longer name and leaves;
`onward`, a longer path that goes on with `+`, `@`, `~`, a blank or a byte beyond
ASCII, and `tail`, a longer path that ends like the worktree's, both of which it
rewrites.
The other histories that excuse something are `restored` (`Gate`), `overlapped`
and `abandoned` (`Blobs`), `met` (`Fastpath`), `bare` (`Wrapper`) and `moved`
(`Artifact`): each is one event, named, and what is shown is that nothing else
leads there.

Only model-checked: `LookupAnswered` (liveness under fairness), and everything
the violated runs refute.  Out of the prover's reach are liveness, ENABLED and
induction over data.

## Where the code and its texts disagree

1. *Single-flight is not exclusive.*  `waitForPeer` (`daemon.go:201`) looks for a
   lease in one critical section and `acquire` (`daemon.go:229`) takes it in
   another.  Two lookups between the two both execute, though `daemon_test.go:45`
   says exactly one may.  The outcome is only wasted work.
2. *Eviction does not survive a restart.*  A verdict line is not servable, and
   `ingest` (`store.go:199`) ignores such lines before it looks at the verdict.
3. *A blob can be partial.*  All writers share `path + ".tmp"` (`store.go:301`);
   the second truncates what the first is about to rename.
4. *Verification asks at the root.*  `verify.go:85` re-executes every command at
   the root of the worktree, wherever it was recorded.

## Not modelled

* *The side index* (`key.go`).  Its lock and its retries are git's.  What the
  code adds is a check of the lock's age; a hash that fails is a command that
  passes through, which `Gate` has.  Two things found by reading: the lock of a
  git that was given up (`key.go:113`) is at most two minutes old, so
  `clearStaleIndexLock` leaves it, and `write-tree` takes the lock too but is not
  retried (`key.go:121`).
* *The process group, pipes and timeouts* of `hp.Run`, and the client's timeout
  against `leaseTimeout`: assumed under Fairness.
* *The policy* (`policy.go`) and `NormalizeCommand`: functions of the command
  text, which the models abstract to what was decided about it.  `Scope` maps
  the part of `policy.go` that cuts a line into segments and words.
* *Bundles*: the manifest, the limits (a log of more than 8 MiB is cut), and the
  appended log, which a running daemon does not see before the restart that
  `cache import` asks for.
* *`transition.go`, `export.go`, `corpus.go`, `replay.go`*: reports over the log or a
  trace; they change no state of the cache.
* *`norm.go`* and parsing of harness payloads: string processing.
* *The event stream, the fleet view, `doctor`, `init` and the viewer* only display.
* *`speculate.go` and `warm.go`* are reached by no command and no route.
* *In what is modelled*: pytest's settings and the plugin's text (`ReadSet`), the
  choice of an install directory, tar headers and the methods of copying
  (`Artifact`), commands that are always cheap (`Fastpath`).
