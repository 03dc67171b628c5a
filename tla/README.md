# A verification development for abitious

abitious turns a native Node addon into a *hybrid* `.node`: a small stub with the
compressed addon in a section of its own.  At run time the stub unpacks the addon into
a cache and loads it from there.  A second kind of stub does the same for plain shared
libraries that Node's FFI opens.  Around it are a CLI that builds hybrids, scripts that
build, sign, release and publish the packages, and the command that hydrates a checkout
with the organisation's shared files.

The modules in this directory are translated from the code; paths below are relative to
the repository.  `PROJECT.json` maps each definition to the lines it stands for.

## 1. Inventory

| Component | State it keeps | Operations | What is hard | What makes it correct |
|---|---|---|---|---|
| Generic stub and its cache: `crates/abitious-stub`, `abitious-decmpfs/src/selfextract.rs` | files below `<tmpdir>/abitious-cache/<uid>/`: the entry, temporaries, two directories | `resolve_self`, `prepare_cache_dir`, `write_atomic`, dlopen and forward | many processes at one file without a lock; crash, power loss, OS cleaning, damage; fail-soft | the entry is never torn, nobody loads a torn file, loaders do not disturb each other, the cache repairs itself |
| FFI carrier: `crates/abitious-ffi-stub` | files below `<tmpdir>/abitious-ffi-<user>/`; the static `TEMP_SEQUENCE` | `resolve_library_path`, `valid_cached_file`, `write_atomic`, the entry point | as above; temporary names that do not mention the library; renames that Windows refuses; errors are thrown | as above, and no failure without a cause, no temporary left behind |
| Native producer resolver: `scripts/repo/npm/native-producer.mts`, `native/producer/*` | the dispatch receipt; GitHub's workflow runs | list, qualify, reuse or dispatch, poll, wait, download, record | a POST that may be lost on the way out or back; eventual listings; re-runs, by-hand dispatches; a job that dies anywhere | one dispatch at a time, one signed attempt is returned, the receipt does not change its mind |
| Preparation and restoration of native packages: `scripts/repo/npm/{prepare,restore}-native.mts` | package directories and `receipt.json` in two checkouts; artifacts and receipts on GitHub | download, stage, hash, record, upload; read the receipt back, download the same again, verify | both runs may be repeated while the other job reads; artifacts are replaced one by one; a job dies half-way and its workspace stays | what passes the offline verification is what was packed, what is packed was signed, nothing stale is restored |
| PRESSED_DATA codec, injection, FFI section: `abitious-decmpfs/src/{lib,inject,ffi,ffi_payload}.rs` | none (pure), buffers handed to C callers | encode, decode, inject into ELF, Mach-O, PE | chains of injections; every pointer into moved data; alignment padding; a signature to strip and remake | both sections are read back whole, the loader sees the stub unchanged, the layout stays sound, the signature fresh |
| Producer and `abi build`: `crates/abitious-producer`, `crates/abitious/src/build.rs` | the output file and its temporaries | cargo build, copy, compress in place | failure between the copy and the compression; builds that overlap; loaded outputs; power loss | a promised output is never partial, a success is what its receipt says, applications are not written under |
| Release: `scripts/repo/release.mts`, `bump.mts` | working tree, commits, tags, origin, GitHub Releases | edit all manifests, promote the changelog, validate, commit, tag, push; align Cargo with npm | a failure after any edit, a maintainer who repairs by hand, branches that move, a `gh` that fails | a release is a validated commit, an immutable release keeps its tag, repetition gets there |
| Bootstrap: `scripts/repo/bootstrap/fleet.mjs` | the lock directory; the records of what was applied (ref, files, manifest); the receipt of the last check; the payload's files | `ensureCurrentFleet` (lock, takeover, heartbeat, release), `installFleet` (place, prune, record) | every prepare, session and sync starts it, so runs overlap; a holder that dies or sleeps; a death between two records; a channel that moves back | one installer, holders keep their locks, no rollback, no orphans, a receipt that vouches |
| N-API binder: `crates/abitious-bind` | none | `probe`, `stat`, `compressFile` | - | fail-soft: an error of the engine is a result, not an exception |
| Loader for npm: `npm/cli/*.cjs` | none | choose the platform's package | - | - |
| Template and signing scripts, hooks, fleet scripts, workflows, fuzz targets | - | drivers of other tools | - | - |

How they interact.  The producer writes the section that both stubs read; the stubs meet
other processes only through the file system.  The resolver meets GitHub through its API
and its own past through the receipt.  `prepare-native.mts` calls the resolver, stages
the artifacts of the attempt that it returned, and leaves a receipt with the publish run,
which is all that `restore-native.mts` has to go by.  `release.mts` meets the workflows
through the tag that it pushes.  `fleet.mjs` meets other runs of itself through the lock
directory, and git through the list of tracked paths.

`PROJECT.json` lists the hazards line by line.

## 2. Plan

Done:

1. `AtomicEntry`: what an extraction cache promises.
2. `SelfExtractCache` (+ MC, + proofs) and its refinement of `AtomicEntry`.
3. `FfiCache` (+ MC, + proofs) and its refinement of one `AtomicEntry` per library.
4. `NativeProducer` (+ MC, + proofs): the resolver against GitHub.
5. `HybridImage` (+ MC, + proofs): the section codec and its injection into Mach-O, ELF
   and PE.
6. `BuildOutput` (+ MC, + proofs): the commands that write one output path.
7. `FleetHydration` (+ MC, + proofs): overlapping runs of the bootstrap in a checkout.
8. `Release` (+ MC, + proofs): a maintainer's clone, from the edits to the release.
9. `NativePackages` (+ MC, + proofs): a publish job, a scan job, and the runs between.

Left, in this order:

10. `sign-ffi-release`: its staged outputs, next to `BuildOutput`.  The script signs,
    verifies and notarizes one file after the other and then writes a receipt, so there is
    little in it beyond a failure on the way.

`FfiCache`, `NativeProducer` and `NativePackages` keep the resolver, the packages and the
caches apart on purpose: their product would not be checkable, and each meets the next
through one value only (the attempt that `ReturnsOneSignedAttempt` is about; the file at a
path).

## 3. The modules

### AtomicEntry

The cache entry as ONE cell with the values absent, whole, damaged, and loaders that
verify it or replace it in one step and then load it.  It has no value "torn": an
implementation cannot refine it if anybody ever sees half a file.  A loader may load
`damaged` only if the damage came after it was ready, which is exactly the window between
the verification and the dlopen that the code has.

### SelfExtractCache

One cache file and the processes that load it.  A file system of names and inodes:
`dest` and `tmp[p]` are names, `fd` and `mapped` hold on to inodes, `file` has their
contents (length in write calls, whether the bytes are the addon's, whether synced).

| Action | Code |
|---|---|
| `ReadSelf` | `self_path`, read, `unwrap_if_hybrid` |
| `StatEntry`, `OpenEntry`, `HashEntry` | `metadata(dest)`, `sha512_file(dest)` |
| `CreateShared` ... `ValidateLeaf` | `prepare_cache_dir` on Unix: `create_and_validate_owned_dir` twice |
| `CreateAll`, then `CreateShared` ... `ValidateLeaf` for what is missing | `prepare_cache_dir` on Windows: `create_dir_all`, which checks that a path that exists is a directory and nothing else |
| `RemoveStaleTemp`, `OpenTemp`, `WriteTemp`, `SyncTemp`, `RenameTemp`, `RemoveFailedTemp` | `write_atomic` |
| `LoadRegister` | `load_register` of the stub |
| `Exit`, `Crash`, `FailIO`, `DamageEntry`, `CleanTmpdir`, `PowerLoss` | the world |

Each system call is a step of its own.  `PowerLoss` may cut every file that was not
synced; names are as the last system call left them.  A renamed file counts as mapped
until its process ends.  `unix` is chosen once from `Systems`: there a rename may replace
a file in use and a directory is refused that is a link, somebody else's or writable by
others (`unsafe`); on Windows a rename may not, and any directory does.  `file` is a path
that is no directory, which both refuse.  `harmed` remembers that a call has failed or
that somebody else has touched the files.  `Fresh` says which of the free inodes
the file system may hand out: any, for the proofs; one chosen arbitrarily, in the runs
(`AnyOne`), since free inodes differ in nothing but their names.

### FfiCache

The same file system for several libraries.  Several loaders can run in one `Image`, a
loaded copy of a carrier, which has the counter `sequence`; images may share a process
id.  `CheckWarm`, `CheckWritten` and `CheckOther` are the three uses of
`valid_cached_file`, each two steps, metadata and read, since they follow the path twice.
`OnError` says where an error of each call leads.  `setting` is chosen once: who shares a
process, a process id or a library, and whether the system replaces a file in use.
`MCFfiCache` names four: threads of one carrier; containers that see the same process id;
carriers of different libraries in one process; processes on Windows.

### NativeProducer

`runs` is GitHub: a run is hidden (accepted but not listed yet), active or done, has an
attempt and a conclusion (`signed`: successful with the macOS signing steps, `unsigned`:
successful without), and `exact` if it was built from the commit asked for.  `intent` is
the receipt file.  Runs are numbered upwards, as GitHub does.  One action is one request
together with the code up to the next one: to qualify a candidate takes two, its status
(`Qualify`) and the jobs of what is its latest attempt by then (`QualifyJobs`).  An
answer with a run id that is not a number keeps that id and fails at the next request:
`Post`, then `Abort`.  Job output, archives and digests are
abstracted: `origin` remembers which attempt the listed artifacts belong to.

### NativePackages

Two jobs, each with a checkout.  The publish job takes the artifacts of a producer's
attempt and leaves a receipt; the scan job, of a later run, has only that receipt.

| Action | Code |
|---|---|
| `Await`, `List`, `Download`, `Refresh` | `completedRun`, `listArtifacts`, `downloadArtifacts`, the last look at the run: shared by both jobs, which differ in what they insist on (`Pinned`, `Expected`) |
| `Clean`, `Copy` | `stageNativeProducerPayloads`: extraction and aggregation, then file by file into the packages |
| `WriteReceipt`, `Upload`, `Pack` | `prepare-native.mts`; the publish workflow's upload, `--verify-local` and packing |
| `StartScan`, `ReadParent`, `ReadReceipt`, `Recheck`, `Last` | `restore-native.mts`, `readParentReceipt` before and after the download, `parentAfterProducer` |
| `DeleteReceipt`, `RenameReceipt` | the replacement of `receipt.json`, and the step's output |
| `Build`, `Complete`, `RerunProducer`, `RerunPublish`, `Die` | GitHub, people, deaths of a job at a request or inside a file |

An artifact's id is the attempt that built it; one artifact and one file stand for each
target.  A repetition of the publish run replaces its receipt: while it is under way the
listing may show any attempt's, afterwards the newest.  A job starts in a fresh workspace
or in the one that it left.  The path is that of a resumed publish (the producer's run is
known); how it is found is `NativeProducer`.  The ghosts `signed` and `packed` remember
what each attempt ended with, and `repeated` that the publish run was repeated while a
scan relied on it.

### HybridImage

One native binary in a chain of producer commands, each taking the output of the last as
its stub (`CompressNode`) or template (`CompressFfi`).  A file is a sequence of atoms with
offsets counted as in the code; headers and load commands are records beside the atoms
they occupy.  `BuildSection`, `BuildFfiSection`, `DecodePressed` and `DecodeFfi` are the
two codecs (a header atom that states length and digest, then the payload); `SpliceMacho`,
`Shifted`, `StripSignature` and `Resign` are the Mach-O splice; `InjectElf`, `InjectPe`,
`FindMacho`, `FindElf`, `FindPe` the rest.  `InjectVerdict` is the guards of
`inject_section` in their order, and a refusal leaves the image as it was.  `Misfits` are
the addons whose size no decoder accepts (none, or more than 512 MiB): `compress_ffi`
refuses them and `compress_node` does not.  `MaxLoadCommands` and `MaxPeSections` are how
far `find_macho` and `find_pe` walk (10 000 and 200), which the injection does not look
at.  A "table" stands for a command that `read_layout` matches; others stay as they are
in the model as in the code.  apple-codesign is external.  `MCHybridImage` lays the stubs out as the linkers do; `MachoLinked`, `ElfLinked`
and `PeLinked` say what that is, and `StubsAssumption` that the stubs are so.

### BuildOutput

The processes that write one output path: `abi build` with and without `--compress`,
`abitious-producer`, `abi pack-ffi`.  `Cargo`, `RemoveStale`, `OpenCopy`, `Copy` are
`run_with` and `copy_artifact`, each write a step; `Read` is `compress_node` or
`compress_ffi` up to the injected bytes; `OpenTemp`, `WriteTemp`, `SyncTemp`, `Rename`
are the two `write_atomic`, which differ in what they do with a taken name, in the sync
and in what a failure leaves behind (`DropTemp`).  `mapped` says that an application has
the file at the output path loaded, which on Windows keeps it from being replaced.
`setting` is chosen once: which processes run which commands, on which system, and what
may go wrong.  `MCBuildOutput` names three kinds: compressing commands that overlap, with
crashes and I/O errors; one process that runs commands of all kinds, with power losses as
well; `compress_ffi` twice at a time, with power losses.  Two `abi build` at a time on one
output are left out of the promises: `copy_artifact` writes in place, and the code
promises nothing there.  `compress_node` does not sync either, so after a power loss only
`compress_ffi` is held to a whole output (`AtomicCommands`).

### Release

A maintainer's clone and its origin.  A file is represented by its version, the changelog
by its headings; a commit is a number that stands for the files it holds.

| Action | Code |
|---|---|
| `Start` | `createReleaseContext`, `resolveRelease`, `assertCleanTree` |
| `WriteCargo`, `WriteNpm`, `UpdateLock`, `Relock` | the edits of `bumpRelease`, in order |
| `Promote`, `Validate` | `promoteReleaseChangelog`, `validateRelease` |
| `Commit`, `View`, `Tag`, `PushBranch`, `PushTag` | `git commit -o`, `assertReleaseMissing`, `git tag -f`, the two pushes |
| `CanonicalBump`, `SyncCargo`, `SyncLock`, `SyncFuzz` | `bump.mts`, `syncCargoVersion` |
| `Fail` | any step fails, or the command is killed; what is done stays done |
| `CommitByHand`, `Stash`, `FillIn`, `Work`, `ColleaguePushes`, `Pull`, `Cut` | what the messages tell the maintainer to do; surprises; the release workflow |

The npm manifests are one file, `pnpm-lock.yaml` is not told apart from them, and the
canonical bump, whose code is not in the repository, is external.  An [Unreleased] with
nothing under it, renamed, is a heading without prose like a stub's, and is refused like
one.  To ask for a version below the tree's is one of the maintainer's surprises, which
`MaxFaults` bounds.  `meddled` and
`salvaged` remember a file that changed under a running command, and a half-made set of
edits that somebody committed by hand.

Three things that the model shows and the properties leave room for.  A half-made bump
that is committed by hand is not completed by the next run: the version in `Cargo.toml` is
already the new one, so `bumpRelease` is skipped, and `validateRelease`, which does not
look at the lock, either refuses the version for ever or releases it with a stale lock
(`salvaged`).  `release.mts` leaves `fuzz/Cargo.lock` at the old version, and `bump.mts`
refuses to start from there.

### FleetHydration

The runs of `fleet.mjs` in one checkout.  Packs are numbered by their time of creation,
and the content of a file is the first pack that had it.

| Action | Code |
|---|---|
| `Pin` | `main` with `--ref`, which installs without the lock |
| `Check`, `Acquire`, `Retire`, `Remake`, `WriteOwner`, `Wait` | `ensureCurrentFleet` and `acquireEnsureCurrentLock`: mkdir, a look at the owner file, rename of a stale lock, mkdir again, owner file, and the turns of waiting |
| `Resolve`, `Fetch` | `resolveGreenPack` with its fallback and the rollback guard; download and verification |
| `Place`, `Prune`, `Project` | `installFiles`, `pruneStaleFleetFiles`, the projections, the applied ref |
| `WriteFiles`, `WriteManifest`, `WriteReceipt` | the other two records, the receipt of the check |
| `Unlock`, `UnlinkOwner`, `RemoveLock` | `releaseEnsureCurrentLock` |
| `Heartbeat` | `refreshEnsureCurrentLock` |
| `Crash`, `LockAges`, `ReceiptAges`, `Publish`, `Edit` | deaths; ten minutes; four hours; the channel; somebody at a payload file |

The module is about the files that git does not track.  Moves, tombstones, segments,
settings, workspace and adapters are folded into `Prune` and `Project` (a step that may
fail); `migrateRuleFile` and `repairTrackedHydration`, which touch tracked files, are left
out.  `Complete` is one step, and so is the heartbeat's read and touch.  Each record is
written in one step: one that a crash has torn is not modelled (a death between the
records is).  The pack would not count as installed, and a list of files that is cut short
would hide some from the next prune.  A `--ref` command
counts as a fault, since nothing orders it with the others.  Four ghosts say what the code
does not exclude: a takeover or a release that meets another lock than the one it looked
at (`raced`), a live holder that slept for ten minutes (`stalled`), installations or edits
that overlapped (`mixed`), and files that an unfinished installation left (`stray`).

## 4. The runs

| Run | Question | Bounds |
|---|---|---|
| `selfextract_systems` | do two processes keep the entry sound under any two faults, on Unix and on Windows, keep out of refused directories, implement `AtomicEntry`, and does the entry heal? | 2 loaders, 4 inodes, 1 write per file, 2 faults, fair loaders |
| `selfextract_sharedpid` | **violation**: two loaders with one process id | 2 writes per file, no fault needed |
| `ffi_settings` | do two loaders of any of the four settings ever load, leave or break what they should not, is the entry an `AtomicEntry`, and does it heal? | 2 loaders, 5 inodes, 1 write per file, 3 attempts, counter modulo 3, 1 fault, fair |
| `producer_retries` | one live dispatch, one signed attempt, a stable receipt, and does a repeated publish succeed or name its obstacle? | 4 runs, 3 attempts, 3 faults, fair |
| `producer_resume` | **violation**: "resume with the same intent receipt" | 2 runs, 1 fault, which goes into a rejected POST |
| `packages_reruns` | is what is restored what was packed, and what is packed what was signed, however the runs are repeated; does a repeated scan get there? | 2 targets, one of them reproducible, 3 attempts of either run, 2 faults, fair |
| `image_chains` | what do chains of injections do to a file and its readers? | 3 injections, 3 blob lengths, 3 addons of which one is a misfit, every header slack from 0 to 7, readers that walk 4 commands or sections, both hosts |
| `image_roundtrip` | **violation**: a hybrid as the stub of another hybrid | 2 injections |
| `build_settings` | is the output ever partial, a receipt ever false, an application ever disturbed, and does the next command succeed? | 1 or 2 processes, 4 commands, files of 2 units, 2 faults, 1 edit, fair |
| `release_retries` | is a release ever invalid, does it ever move, and does repetition get one out? | a prerelease, its plain version and the next; 4 commits, 2 faults, fair |
| `hydration_overlap` | do overlapping runs keep the lock, the records, the files and the receipt together, and is the checkout hydrated? | 2 runs, 2 packs of up to 2 files, 2 turns of waiting, 1 fault, fair |
| `hydration_offline` | **violation**: "no verified fleet pack is available locally" | the second pack changes one file and drops the other |

Why the bounds are enough to be interesting: two loaders give every pairwise race on a
name; a file can be empty or complete, or, in the run with two writes, half-written; four
or five inodes let each loader write one while it, or the other, still maps the replaced
one (an action that finds no free inode would only wait: the number is chosen so that none
does); one or two faults give a crash that leaves a temporary followed by one more mishap.
Four runs and three faults of the resolver are a dispatch, a run by hand, a repeated run
and one spare.  `Wrap` and `MaxAttempts` stand for 2^64 and 128: with fewer stale
temporaries than attempts the number does not matter, with as many the code has no way
out, which `EntriesHeal` leaves out by its bound on faults.  In `HybridImage` the
alignments (3, 2) are co-prime to some of the blob lengths and divide others, so that
padding is empty, short and long; the widest stubs have room for the three injections,
the tighter ones are refused on the way; the readers walk far enough for two sections of
a Mach-O and not for three, and for some PE stubs only.  Four commands with two faults are a build, two
that are interrupted and one that has to cope.

With two targets an artifact can be replaced while its sibling is not yet, and one that
rebuilds to the same bytes tells ids and contents apart; three attempts allow a
repetition of each run before, between and after the two downloads.  Four commits are the
first, a bump, one by hand and one by a rebase.  Two packs, where the second adds a file
to the first, can be rolled back, orphaned, half-placed and half-recorded; one fault of
the environment is enough for each of the ghosts by itself.  The
safety properties of `hydration_overlap` also hold with two faults (5.3 million states),
those of `packages_reruns` with three (1.8 million); the runs are smaller for the
liveness they check.  `MaxFaults` bounds the environment, and "once nothing more goes
wrong" is that bound used up.

Deadlock is checked but in the runs whose commands are bounded: `build_settings`
(`MaxRuns`), the two of `HybridImage` (`MaxChain`) and `release_retries` (`MaxCommits`).

The type invariants are part of the inductive invariants of section 6 and are proved for
every value of the constants; a run repeats the type invariant only where there is no
such proof (`image_chains`).

Four runs expect a violation:

* `selfextract_sharedpid`.  The temporary is named after the process id alone and is
  unlinked before it is created.  Two loaders with one id (first processes of two
  containers that mount one tmpdir; two worker threads) can interleave so that one
  renames what the other has only begun to write, and dlopens it.  The FFI cache does
  not have this: it never unlinks a name that it has not created itself.
* `producer_resume`.  The receipt is written before the POST and says "dispatched".  If
  the POST is rejected, every later call polls for a run that does not exist; the error
  message advises to resume with the same receipt.  `ResumeResolves` is about behaviours
  in which all runs are this job's and none is repeated (`OnlyThisJobsRuns`): the trace is
  the intent, a POST that comes to nothing, polls up to the deadline, and so on for ever.
* `image_roundtrip`.  `inject_pressed_data` says that its result round-trips through
  `unwrap_if_hybrid`.  Given a file that already is a hybrid it appends a second section,
  and the readers return the first.  `compress_ffi` refuses such a template;
  `compress_node` does not check.  `SectionsRecovered` says what does hold: the first
  section of each kind is read back whole after any chain, unless its size is refused or
  the tables have grown beyond what the readers walk.
* `hydration_offline`.  When the channel cannot be read, an installed pack is to be used
  if it is complete, which compares the applied file list with the applied manifest
  position by position.  The first is sorted by code units (`toSorted()`,
  `fleet.mjs:791`), the second by collation (`localeCompare`, `fleet.mjs:800`).  A payload
  with an upper-case name such as `README` sorts differently in the two, so that a whole
  installation never counts as complete, and the message says that there is none.

`NoSpuriousFallback` of the generic stub says where loaders can hurt each other, or be
hurt by what one that crashed has left: only where a mapped file cannot be replaced
(Windows), and then with a whole entry in place, which its `write_atomic`, unlike that of
the FFI cache, does not look at.

`UnsafeDirNeverWritten` is about Unix.  On Windows `prepare_cache_dir` checks nothing, and
nothing is claimed.

Some hazards are left open by the code, and the properties exempt them openly:
`compress_node` after a power loss; a lock whose owner died before it signed it; two
takeovers of one dead lock that cross (`raced`); `--ref` beside another installation
(`mixed`); files that a failed installation has placed (`stray`); a file edited between
its validation and its commit (`meddled`); half-made edits committed by hand
(`salvaged`); as many stale temporaries as there are attempts.  The hazards of
`PROJECT.json` say so at their lines.

## 5. Fairness

*Caches.*  `WF_vars(Step(l))` for each loader: a running process gets to its next system
call.  It includes `Exit` and the next load, so the two "heals" properties speak of an
addon that goes on being loaded; without another load nothing in the code would repair an
entry.  No fairness for the environment.

*Resolver.*  `WF_vars(Resolve)` says that the publish job runs and is started again, and
GitHub's own steps (a run appears, a run ends) are fair one run at a time.  Re-runs,
by-hand dispatches and aborts are not.

*Native packages.*  The two jobs go on (`Prepare`, `Restore`), a scan is dispatched again,
and a producer's run builds each target and ends.  `RestoresInTheEnd` assumes beside this
that the publish run has succeeded and that nobody repeats its producer any more.

*Builds.*  `WF_vars(Step(b))` lets a command that was started run on; nothing makes
anybody start one.

*Release.*  A command goes on and the workflow for a tag runs.  The rest is the
maintainer: strong fairness for doing what each message says (fill in, pull, stash what
is half-made, commit what is whole) and for starting again with the newest version and
`--push`.  It is strong because a colleague or another command may disable a step again
and again.

*Hydration.*  Weak fairness for each run, which includes the next command: the checkout's
own hooks give it.  Time passes for the lock of a dead holder.  A living holder's lock
need not age, nor a receipt.

## 6. What is proved

Every proof is for all values of the constants that satisfy the assumptions of the
module, hence for any number of processes, files, attempts and faults.  Each goes by an
inductive invariant `IInv` with `TypeOK` as a part.  `Inductive` is `Spec => []IInv`,
`TypeCorrect` is `Spec => []TypeOK`, and the others follow from them.

**`SelfExtractCacheProofs`**, with `PidsDistinct`: `EntryIsNeverTorn`, `TornIsNeverLoaded`,
`WritesArePrivate`, `UnsafeDirIsNeverWritten`, `FallbacksHaveCauses`, and `Refinement`:
`Spec => ImplementsCell`.
That the entry is never torn depends on what a rename publishes, hence on the file behind
the temporary's name being complete and synced (`EntriesDurable`); that it stays complete
depends on no writer holding the same inode (`WriterOwns`, `TempsPrivate`), which in turn
needs the temporary's name to belong to one loader: `PidsDistinct`, the assumption that
the run `selfextract_sharedpid` shows cannot be dropped.  `DirsChecked` carries the
directory checks of Unix to the step that creates the temporary.  `FallbacksHaveCauses`
has an invariant of its own (`QuietInv`): as long as nothing is `harmed`, a loader can
rely on the directories that it has made, on its temporary, and on an entry that it has
found or made whole.  The refinement maps a loader to "ready" when it has an intact entry
open, since that is when the outcome of its hash is decided.

**`FfiCacheProofs`**, with `TempsAreKept`: `TornIsNeverLoaded`, `NoTempIsLeft`,
`Refinement` (`Spec => ImplementsCell`).  The
names of the temporaries say nothing, so ownership goes by what `create_new` gave: a name
belongs to the loader between its creation and its removal (`NamesOwned`), with it the
inode behind it (`InodesOwned`), so that a rename publishes what that loader wrote
(`Contents`).  No assumption on process ids is needed.  `TempsAreKept` says that no
setting's operating system cleans temporaries: one that does hands the name of a living
loader to another.  The run has one such setting, where the loaders are threads of one
carrier, whose counter keeps their names apart.  `FailuresHaveCauses` holds in any setting,
for at most `MaxAttempts` loaders (`CalmInv`): while nothing goes wrong each name that is
taken belongs to another loader, so none runs out of attempts before the others are
through, and a rename that is refused finds a whole library in place.

**`BuildOutputProofs`**: `NoTempIsLeft`, and `OutIsNeverPartial` for the settings in which
all commands write by a rename only, and all sync if there can be a power loss
(`AtomicCommands`).  What is at the output path was renamed there (`OutputIsRenamed`), and
what is about to be renamed is whole, and synced where it has to be (`RenamesAreReady`).
`copy_artifact`, which writes in place, and `compress_node`, which does not sync, are why
the restriction cannot be dropped.  A second invariant, `TrueInv`, gives `ReceiptsAreTrue`
and `AppsAreUndisturbed`.  A build with the output path to itself is about to write, or has
written, what cargo built last (`SoloInv`), since `copy_artifact` removes what is there
before it copies; and what an application has loaded is whole (`MappedWhole`), so that the
writes in place, which go to a file that is not whole yet, never meet a loaded one.

**`NativeProducerProofs`**: `AttemptsStay`, `PinsStay`, `ReturnsAreSigned`,
`DispatchesAreSingle`.  GitHub goes on
between two requests, so nothing the job has read is true later.  What stays true is
relative to the attempt: a run that has not been repeated is what it was (`Grown`), and a
repetition has a larger number; each part of the invariant says of what was read that it
holds or that the attempt has grown.  The last theorem has an invariant of its own,
`DispatchInv`: as long as the receipt is kept and nobody starts or repeats a run by hand
(`Quiet`), the receipt accounts for every run there is.  The run that it names is the only
one that may be under way; a dispatch whose run is not known yet has at most one run
outside the baseline; and nothing is under way when the job dispatches.

**`HybridImageProofs`**, with `StubsAssumption`: `FirstPackedIsRecovered`, `LayoutIsSound`,
`ViewIsKept`, `SignatureIsFresh`, `TightStubsOnly`, for all three formats.  The invariant
says that the image is again one that a linker could have laid out, that its injected
sections stand in the order of packing behind those of the stub (`PeChain`, `ElfChain`,
`MachoChain`), and that the room for load commands is accounted for (`MachoGood`).  An
injection into ELF and PE only appends, so there the proofs are about the lengths of the
parts and about what was there being a prefix of what is there now.  In Mach-O everything
behind the splice moves: `Grown` says command by command and byte by byte what an
injection, with or without a signature, makes of an image, and all else is derived from
it.  TLC checks the assumption on the stubs of the runs.

**`NativePackagesProofs`**: `VerifiedArePacked`, `PackedAreSigned`, `RestoresAreFresh`.
What an attempt has signed, uploaded or packed stays (`Kept`); the two jobs meet only
there (`JobsApart`), so each has its own part of the invariant, and a step of the one
leaves the part of the other alone.

**`ReleaseProofs`**: `ReleasedAreValid`, `ReleasesStay`.  From the clean tree to the commit
the files that a command has not edited are those of HEAD (`EditInv`), so what is
committed is what was validated; the lock, which nothing validates, follows `Cargo.toml`
in every commit but a salvaged one (`LockInv`); and tags move only to commits that were
made so (`GoodInv`).

**`FleetHydrationProofs`**: `InstallersAlternate`, `HoldersKeepLocks`, `NoPackIsRolledBack`,
`NoFileIsOrphaned`, `ReceiptsVouch`.  The invariant has four parts: the types; what the
lock and the runs that hold it agree on, which is where a step between the look at a lock
and the rename of it must be accounted for; what a run has confirmed under the lock; and
where every file of the payload comes from.

Model-checked only: liveness (`EntryHeals`, `EntriesHeal`, `ResolvesOrNeedsOperator`,
`RunsSucceed`, `Hydrates`, `ReleasesInTheEnd`, `RestoresInTheEnd`), which the prover does
not do.  `ImplementsCell` is proved for both caches as the safety refinement that it is.

## 7. Not modelled

* The C interface of `ffi.rs`: it copies buffers in and out and keeps no state.
* In `HybridImage`: byte layouts inside a header, compression, and files that no linker
  writes (the repository fuzzes its readers and the injection with those).  Digests are
  compared by content.
* In `BuildOutput`: output paths that alias the artifact or the stub, and where stub,
  template and artifact are found.  Injection refused by the stub is a failed step.
* Argument parsing, JSON, reports, messages, triples: no state and no interaction.
* In the caches: the bytes themselves.  A hash comparison is a comparison of contents
  (no collisions); "damaged" stands for any bytes, type, owner or mode that the checks
  refuse.  The window between a check of a directory and its use is kept, a directory
  that *becomes* unsafe is not: the parent is not writable by others once it is checked.
* In the resolver: paging, formats, digests and sizes, whose failure is a failed request
  (`Abort`); a receipt for another commit, which counts as no receipt; two jobs at once,
  which the workflow's concurrency group excludes.
* In the native packages: zip parsing, identities and the comparison of manifests (a step
  that may fail); the expiry of artifacts; the deadline; npm's own upload.
* In the release: the dry run, which prints; version strings and their comparison beyond
  the order and the finalization of a prerelease; signing.
* In the bootstrap: tracked files, `migrateRuleFile`, `repairTrackedHydration`; the content
  of segments, settings, workspace and adapters; the verification of a pack (a download
  that may fail); `prepare.mts` and `fetch-session.mts`, which run `fleet.mjs` and package
  managers one after the other.
* The JSON reader, the loader for npm and the binder keep no state.
* Template build and signing scripts drive external tools one after the other.
* Fleet scripts, git hooks and shared actions are vendored from the organisation's shared
  tooling; workflows appear as the environment of the resolver, of the native packages
  and of the release.
