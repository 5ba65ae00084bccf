# A TLA+ model of oneload-tts-arm

`oneload-tts` renders a manifest of text segments to WAV files with one load of a
locked text-to-speech model, and benchmarks that against one process per segment. Its
own logic is small; what it promises around it is not: a file under a result's name is
whole or absent and never replaces another, a model is only used while it is the locked
one, a failure leaves nothing behind, a benchmark reports only what every render
agreed on. This directory models the code that makes those promises, checks it with
TLC on small instances, and proves the most important results with TLAPS.

Paths below are relative to the repository; `engine.py` and the like are in
`src/oneload_tts/`.

## 1. The system

| Component | State it keeps | Operations | Modules |
|---|---|---|---|
| Write-once publication, `_filesystem.py` | a directory, temporary and final names | `private_unlinked_file`, `commit_open_file` | `WriteOnce`, `Publish`, `PublishProofs` |
| Verified model view, `engine.py`, `_filesystem.py` | staged copies of the model, fingerprints, hashes | `_verified_model_view`, `private_staging_directory`, `copy_regular_file_from_descriptor`, `_require_unchanged_model` | `ModelView`, `ModelViewProofs` |
| Model downloader, `download_guard.py` | the target directory, the byte budget, the answer being received | `validate_download_target`, `download_locked_model`, `main` | `Download`, `DownloadProofs` |
| Segment rendering, `engine.py` | output directory, random state, receipts | `render_manifest`, `_render_segment`, `_write_wav_at` | `Render`, `RenderProofs` |
| Render supervisor, `benchmark.py` | a child process group, two pipes, a deadline | `_run_render` | `Supervisor`, `RunProofs` |
| Benchmark driver, `benchmark.py` | trials, claimed and actual hashes, samples of the sources | `run_benchmark`, `_run_cold_path`, `_run_persistent_path` | `Benchmark`, `BenchmarkProofs` |
| Receipt validation, `engine.py`, `benchmark.py` | none (arithmetic) | the figures of `render_manifest`, `_validated_receipt` | `Receipt`, `RunProofs` |
| Caption verification, `captions.py` | cues read, position, the snapshot | `verify_caption_timing`, `_write_caption_snapshot`, `main` | `Captions`, `ReadProofs` |
| Directory binding, `_filesystem.py` | descriptors | `open_or_create_bound_directory`, `open_relative_directory` | `BindDirectory`, `BindDirectoryProofs` |
| Bounded reads, `_filesystem.py` | descriptors, blocks read | `read_regular_file_bounded` | `AtomicRead`, `StableRead`, `ReadProofs` |
| Manifest parsing, `manifest.py` | none | `load_manifest` | only the relation of output paths, in `Render` |
| Command line and shell scripts | none | `main`, `download-model.sh`, `run-benchmark.sh` | not modelled |

How they meet:

- `run_benchmark` starts renders through `_run_render`; each is a process of its own
  that runs `render_manifest`. They share the file system and a receipt on a pipe.
- `render_manifest` binds a `_verified_model_view`, loads the model from it and checks
  its fingerprints after the load and after the last segment.
- WAV files, reports, caption snapshots and model files are all written through
  `private_unlinked_file` and `commit_open_file`.
- The downloader fills the directory that the model view is later taken from.
- Manifest, model lock, receipts and captions are read by `read_regular_file_bounded`;
  everything that is written goes to a directory bound by
  `open_or_create_bound_directory`.
- The receipt a render prints is believed by the benchmark only after
  `_validated_receipt`, and its durations place the cues that `captions.py` verifies.

What is hard there: several processes that publish into one directory, calls that fail
half-way through a publication or a cleanup, a process that dies, a power loss, files
changed between a check and their use, a child that hangs, floods its pipes or leaves
descendants, a rerun over what a failed run left, comparisons made long after the
data they compare, a path whose parts are exchanged while it is walked, and figures
that are rounded by one program and recomputed by another. `PROJECT.json` lists these hazards with their lines.

## 2. Modules

Each component module has its state as variables, an action per step of the code, a
`TypeOK`, and its properties at the end. Operators introduced as "Mutant of ..." are
plausible mistakes; no action uses them, and `PROJECT.json` pairs each with the
property that would find it.

**`WriteOnce`** is the abstract store a caller of `commit_open_file` may rely on:
contents appear whole, a taken name is never overwritten, a reported publication
survives a power loss. It gives up only names that an outside program changed.

**`Publish`** is the detailed one. One action is one system call: `Create`/`Collide`
(`O_EXCL` under a random name), `Inspect` (fstat and stat), `UnlinkTemp`, `WriteBlock`,
`SyncFile`, `CloneFile`/`CloneRefused`, `StatCreated`, `OpenCreated`, `Verify`,
`SyncDir`, and the error paths `Discard`, `DiscardUnlink`, `Rollback`,
`RollbackUnlink`, `RollbackSync`. `dir` is the directory that processes see, `disk` what
a power loss leaves of it; `synced` does the same for the blocks of a file; `stale`
notes, for every step (`Notice`), the names that changed after a process looked at them
and before it acts on what it saw. `Fault`
lets any call fail, `Meddle` is an outside program, `Crash` and `PowerLoss` do what
they say. `INSTANCE WriteOnce` at the end maps the directory entries to the abstract
store, and `ImplementsWriteOnce` says that every step is a step of the store or none.

**`ModelView`** has one actor, the render, and two others that act between any of its
steps: an editor of the source directory and a program that tampers with the staged
copies. Files of `Deep` lie in a subdirectory of the view, which the first of them makes.
A file is a sequence of blocks that are `Locked` or not, and of one beyond them
that the lock does not know of: a copy taken during an edit can be mixed, and a source
can be cut short or grow under the copy, which reads it block by block and then looks
for one byte more (`CopyDone`, `CopyGrown`). What a failure leaves is taken apart where
the `except` clauses are: a staging directory nobody has identified stays, one that
cannot be opened is removed (`Unstage`), and so is a copy that is given up
(`CopyEndsEarly`, `CopyVanished`, `Uncopy`), until its fingerprint is to be noted
(`Record`). Fingerprints are time stamps. The cleanup is modelled call by call, in
the order of the `finally` clauses, since a `rmdir` out of order fails; between `Enter`
and `Leave` the working directory of the process is the view.

**`Download`** has several invocations of the downloader on one target, each a
sequence of validate, stage, hide (unlink), request, body, digest, commit, verify per
file; in the end the target is listed and read again file by file. `strays` are
temporary names that a fault or crash has left, `withdrawn` files that the failing commit
of their own maker took back.

**`Render`** has several invocations of the render command on one output directory.
The random state is the seed set last and whether it was drawn from; a published file
is the random state it was generated from. `below` relates output paths, one of which
may be a directory of another (`a.wav`, `a.wav/b.wav`).

**`AtomicRead`** is what a caller of `read_regular_file_bounded` may rely on: the answer
is what stood under the path at one instant of the call, and a change is reported only
if there was one. **`StableRead`** is the code: `Stat`, `Open` (with its fstat),
`Enter`/`Bind` (the second stat), `Read`, and `Return` or `FstatDiffers`, with an exit
for each error. The file system is a tree of inodes of which only the next part of the
path matters in each directory; `Relink`, `Rewrite` and `Recycle` exchange entries,
change a file in place and give an unused inode number away again. `INSTANCE
AtomicRead` maps the tree to what the rest of the path leads to (`Visible`) and all it
has led to since the call began (`possible`).

**`BindDirectory`** is the walk that also makes what is missing, by several processes
at once: `Check` (`_require_protected_directory`), `Mkdir`/`Exists`, `StatMade`,
`Expect`, `Open`, `Enter`, `Final`, and the errors. `fds` holds the descriptors a
process has open: `Fail` closes those the code closes on that way out, and what it does
not name stays open. Another program exchanges entries and changes modes.

**`Receipt`** follows the figures of one receipt. The render half measures in ticks and
rounds (`Load`, `Render`, `Report`); `Garble` makes one figure another; the validating
half (`TakeItem`, `Believe`, `Disbelieve`) compares sums within the code's tolerances.
All quantities are integers, so that bounds are exact: a millisecond has `Milli` ticks,
a half may be rounded either way, and a floating point comparison that both sides meet
exactly may turn out either way, which the guards say with a slack of one.

**`Captions`** has the audio in ticks, the receipt's durations and the cues in
milliseconds, an editor who writes cues for the audio and goes on changing the file, and
verifications that are run again. A verification reads once and keeps what it read.

**`Supervisor`** has the loop of `_run_render` against a render and a descendant that
write, close either pipe, fork, leave the group, ignore SIGTERM or exit at any moment,
and a clock.

**`Benchmark`** has the driver with its alternating paths, and around it an editor of
the sources, a program that changes outputs, and a model that for once speaks
differently. A render there is what `Render` and `Supervisor` justify: it publishes into
free names, and ends by its own or at its time limit. The sources are two versions
that may or may not sound alike.

The `MC...` modules give the constants values for TLC. Two modules of proofs are about two
components each, which meet there: `RunProofs` about the run of a render and the receipt
it prints, `ReadProofs` about a read and the captions that come through it. That is why
names that `Supervisor` and `Receipt`, or `StableRead` and `Captions`, would share are
distinguished (`Next` and `ReceiptNext`, `Spec` and `CaptionsSpec`, `pc` and `phase`).

## 3. What is checked

All instances are small enough to be explored completely, in up to two minutes each.

| Run | Question | Bounds |
|---|---|---|
| `publish_hostile` | Are published files whole, kept, and spared by others, and does `Publish` implement `WriteOnce`? | 2 publishers of one name, 2 temporary names, 2 blocks, 2 tries, 2 failing calls, 1 outside step, 1 crash, 1 power loss |
| `publish_live` | Does every publisher end, and does one of the rivals win when nothing disturbs them? | the same without crash and power loss, 1 block |
| `modelview` | Is the view frozen, a failure cleaned up, no copy longer than the lock says, is an honest model loaded, was what was loaded the locked one, does success leave nothing, does it end? | 2 files of 2 blocks, one in a subdirectory, in four worlds: copies or clones, with up to 2 edits, 2 acts of tampering, 1 failing call, 1 interrupt (`MCWorlds` combines them) |
| `download` | Does only locked content arrive, does success mean the whole snapshot, and do restarts end there? | 2 invocations, 2 files of 2 blocks, 1 redirect, 2 failures, 1 crash |
| `supervisor` | Is a receipt complete, a failed render killed, the verdict just, what is kept of a stream bounded, and does the call return? | limit of 2 blocks, 4 sent per stream, pipes of 1, deadline at 2 |
| `render` | Is each output reproducible, owned by one run, is what a run leaves a prefix, and does rendering what is missing complete the manifest? | 2 invocations, 3 segments of 1 to 3 units or none, limits 2 and 3, 1 failing run, 3 layouts |
| `benchmark` | Is what is reported what every render made, by the code that is named, within the time; does a benchmark fail only for a cause, and end? | 3 trials of 2 segments, 2 edits, 2 mishaps, time limits 2 and 3 |
| `stable_read` | Is the answer of a read what stood under the path at one instant? | 1 directory and the file, 5 inodes, files of up to 4 blocks of which 2 may be read, 3 acts of another program, 2 ticks of the clock |
| `bind` | Is a bound directory reached through protected ones only, is no descriptor left, do processes that make one path share it? | 2 processes, 2 parts, 5 inodes, 5 trees, 1 failing call, 2 acts of another program |
| `receipt` | Is an honest receipt believed, and a believed one consistent as a whole? | 1 or 2 segments, 3 lengths and 2 times around the halves of a millisecond, 1 figure changed by -2, 1 or 3 |
| `captions` | Do accepted captions and snapshots follow the audio, is the snapshot what was verified, do honest captions pass? | 3 segments, 11 narrations, 2 edits, 2 verifications, 1 failing call |
| `captions_total` | Is the message about a narration that is too long true? (It is not, see below.) | as `captions` |

Why these bounds are enough to be interesting. The dangers of a publication are pairs:
a rival between two calls, a second failure inside a rollback, an outside unlink
between a check and an unlink. Two publishers, two faults and two names reach all of
them, and two blocks make "partly written" different from "not written". Two blocks
per file also let an edit fall inside a copy, and two files let a failure leave an
earlier one. In `Download` one file is already there while the next is fetched; one
redirect reaches the limit of redirects. In `Supervisor` a stream can exceed its limit
by more than a block while a pipe holds another. In `Render` three segments have a
first, a middle and a last, durations lie below, at and above both limits, and the sum
can pass the manifest's limit at the second or at the third. Three trials
of the benchmark take both orders and return to the first one; two edits are enough to
change the sources and change them back. In `StableRead` a torn read takes two
writes, one before and one after the block that is read, and an exchanged directory two
renames; files may be shorter, as long as, and longer than what a caller takes. In
`BindDirectory` the last part of the path, the anchor and one in between are different,
and one exchange and one change of mode can fall into one walk. The lengths in `Receipt`
are one tick (rounded to nothing or a millisecond), just above the half second below
which the factor cannot be compared, and two of which exceed the limits. In `Captions`
the error of the third cue is that of two roundings.

Bounds that are constants of the modules (`MaxFaults`, `MaxCrashes`, `MaxEdits`,
`MaxMeddles`, `MaxRuns`, `MaxClock`, `Worlds`, ...) count how often the environment acts
or where it starts, never what the program does; `MaxTries`, `MaxRedirects`, `MaxBytes`,
`Limit`, `SegmentLimit`, `ManifestLimit`, `AudioLimit`, `TotalLimit`, `TimeLimit`,
`RenderTimeout` and `Timeout` are limits of the code, in small.

Symmetry is used in `publish_hostile` only, over publishers and temporary names, which
no property tells apart.

### Properties worth knowing before reading the code

- `FailureLeavesNothing` (`Publish`) and `FailureCleansUp` (`ModelView`) hold with
  named exceptions, and the models enter the excepted windows: when the `stat` after a
  clone fails, the rollback does not know the file and leaves it
  (`_filesystem.py:515-517, 541-548`); a fault or an interrupt between making something
  and noting it (the staging directory before its identity is known, a copy before it is
  in `view_entries`), and a removal that fails, leave it and, with it, the directories
  around it (`Fragile`). An interrupt leaves more, since the `except` clauses of
  `_filesystem.py` name `OSError` and `RuntimeError` only (`FragileToInterrupt`).
- `SparesOthers` (`Publish`) is also about names an outside program has changed: a
  publisher takes only its own file for its own. What it excepts is a name that changed
  after the publisher looked at it and before it acted (`stale`): the `unlink` that
  follows a comparison, and the `stat` that follows a clone.
- `Converges` (`Download`): a stray temporary name, left by a crash between create and
  unlink, makes `validate_download_target` refuse the target from then on. The property
  names that state (`Hopeless`); in every other one a restarted download completes.
- `PrefixPublished` (`Render`): the limit of the manifest is compared after a
  segment's file was published, so a failing run can leave one file beyond it.
- A run whose durations all round to 0.000 fails on a division after its files were
  published (`engine.py:867`): `OkOwnsAll` says that a run never succeeds with such a
  sum. Two outputs `a.wav` and `a.wav/b.wav` pass the manifest's validation and exclude
  each other: `Completes` excepts them (`Unrenderable`).
- `ReportNamesItsCode` (`Benchmark`) holds unless an edit of the sources was undone
  before the second sample, which two samples cannot see. The audio is compared in any
  case: `ReportIsUniform` has no such exception.
- `NoDescriptorLeft` (`BindDirectory`): when the `fstat` or `stat` right after the open
  of a part fails, because the name was taken away or for any other reason, the
  descriptor just opened is not closed (`_filesystem.py:216-217, 230-232`). The property
  allows this one, to the process whose own call failed there (`lost`) and to no other:
  a directory that was exchanged is refused and closed (226).
- `ImplementsAtomicRead` (`StableRead`) compares time stamps, so a file that was changed
  in the very tick it was opened in can change again within that tick unseen; `recent`
  names that case.
- `HonestReceiptPasses` (`Receipt`) names the honest receipts that `_validated_receipt`
  turns down (`Rounded`): less than about 526 ms of audio in all, a duration, loudness
  or factor that rounds to zero, or loading and generating that leave less than half a
  millisecond for each segment of the whole time.
- An interrupt (`KeyboardInterrupt`) makes `_run_render` return without signalling the
  render, which runs on in its own session. `NoSurvivor` is about every other return.

### A disagreement between the code and its message

`captions.py:124` says "narration receipt duration exceeds 1,800 seconds", but what is
compared in line 123 also counts the gaps between the cues (line 127). The run
`captions_total` finds a narration whose durations stay below the limit and that is
refused with this message. The renderer's limit (`engine.py:841-844`) counts durations
only, so such narrations are rendered.

### Fairness

Weak fairness is assumed of the program's own steps (the operating system
schedules processes and its calls return), and of nothing that goes wrong: faults,
crashes, edits and interrupts may happen or not. `StableRead`, `Receipt` and `Captions`
state safety only and assume none. Beyond that:

- `Supervisor` and `Benchmark`: time passes (`Tick`), and a process that was sent
  SIGKILL dies (`Die`). Nothing is assumed of the render itself: it may hang.
- `Download`: an answer or an error arrives in the end (`Step`; the code sets a
  timeout on its sockets), and the user starts a failed download again (`Start`).
- `Render`: the user renders again, with `--only`, what is missing (`Resume`), as the
  command line offers.

## 4. What is proved

TLAPS checks the proofs in the eight `...Proofs` modules for every value of the
constants that the assumption of each module allows: any numbers of processes, names,
files, segments, blocks, inodes, failures, crashes, edits and power losses. The
assumptions only say that sizes and bounds are natural numbers, that temporary names are
no destinations, that the special values differ, that the limit of a segment is at most
the manifest's, that there are one to nine trials (`benchmark.py:655`), that directories
form a tree whose entries lead to something, and that the segments of a narration follow each other with the gap.

Every invariant, every action property and both refinements that a passing run checks have a
theorem. None of the deeper invariants is inductive alone; what follows says for each
module what makes it so. The step lemmas go through `Next` action by action.

**`Publish`**: `TypeCorrect`, `NeverPartial` (`WholeOrAbsent`), `SuccessIsDurable`
(`SuccessLasts`), `FailureIsClean` (`FailureLeavesNothing`), `OthersSpared`
(`SparesOthers`, an action property) and `PublishRefines` (`ImplementsWriteOnce`).
`IInv` adds

- `TriesLeft`: a process that starts again has tries left (the range of `tries`);
- `SyncedFirst`: at the clone, the file is written and durable in full;
- `WholeClones`: a clone that any name, seen or on disk, refers to is whole and durable;
- `TempsApart`: temporary files stand under temporary names only, so no destination
  shows one;
- `TempHeld`, `DestHeld`: as long as a process may still unlink a name, that name holds
  its own file, unless the outside program changed it. This is the heart: from it
  follow `SuccessLasts` (a rival cannot be in a rollback of the same name) and
  `SparesOthers`;
- `ForeignStays`: a name of somebody else's file is the same in the directory and on the
  disk, unless the outside program was there (so a loss of power takes none away);
- `KnowsOwn`: what a process has noted as its own, and what it is about to unlink, is its
  own, unless the name changed after it looked (so `SparesOthers` holds of the names the
  outside program was at, too);
- `TempTraced`, `CloneTraced`: a name of a process's temporary file or clone exists only
  where the process is still going to clean it up, and is the name it would clean up;
  unless the process is `blind` to the result of one of its calls or the power failed
  (`Sighted`). `FailureIsClean` is the case of a process that has failed.

The refinement needs `ReadsWhole` (what stands under a destination reads as nothing, as
somebody else's file or as a whole payload: the content the abstract store knows),
which follows from `WholeClones` and `TempsApart`. Then `CloneFile` is the store's `Publish`, `SyncDir`
its `Succeed`, `RollbackUnlink` its `Retract`, `Meddle` its `Tamper`, `PowerLoss`
its `Outage`; a step in which a publication fails is its `Fail`, and all others leave it
as it was.

Two more theorems are what `RivalsDecide` rests on besides fairness. `CallsAreBounded`:
every call of a publisher, whether it succeeds or fails, leaves it fewer to make
(`CallsLeft`), nobody else takes part in that, and it has none left only when it is done;
so a publication takes at most `MaxTries + Size + 11` steps, cleanup included.
`SomebodyWinsAlways`: when the publishers of a name are done and nothing else disturbed
them, a file stands under it, unless they ran out of temporary names (`Rivalry`: without
disturbance no error path is entered, and a clone fails only at a name that is taken).

**`ModelView`**: `CopiesStayWithin` (`CopyWithinLock`), `LoadsLockedOnly` (`LoadedIsLocked`),
`ViewStaysFrozen` (`ViewIsFrozen`), `SuccessLeavesNothing` (`OkLeavesNothing`),
`FailuresCleanUp` (`FailureCleansUp`) and `HonestModelsLoad` (`HonestModelLoads`). The
invariant, in `ModelViewProofs`, adds `Placed` (where the render is in the list of files,
and that the subdirectory is noted before a file is put there), `Sealed` (a copy whose
fingerprint is the bound one holds the locked bytes), `Told` (if what was loaded was not
pure, a fingerprint that is compared later tells), `Removed` (what a cleanup without
trouble has removed at each of its calls), `Accounted` (unless a step was torn or a copy
tampered with, what stands in the staging directory is what the cleanup knows of),
`Untouched` (a copy nobody else touched is where it was put, as it was bound) and
`Smooth` (with nothing happening to it, no part of the render goes wrong). `Sealed` and
`Told` are the heart of `LoadsLockedOnly`: the render itself cannot see that a copy was changed
under the loader, only that its fingerprint is another afterwards.

**`Download`**: `TypeCorrect`, `SuccessMeansSnapshot` (`SuccessIsWhole`) and
`NothingElseArrives` (`OnlyLockedArrives`). `IInv` adds `AtFile` (an invocation that
fetches is at a file of the lock), `Hashed` (a commit is reached only with a body of the
locked length and digest), `Rechecked` (what the last reading has passed is
locked or was taken back) and `OwnCommit` (what an invocation may still take back is
there and only its own); the last one is what keeps a rival's rollback from breaking
another's success other than through `withdrawn`.

**`Render`**: `TypeCorrect`, `EachItsOwnSeed` (`Reproducible`), `RivalsApart`
(`OneOwner`), `SuccessOwnsSelected` (`OkOwnsAll`) and `PrefixesPublished`
(`PrefixPublished`). The invariant, in `RenderProofs`, adds `Selecting` (all segments are
selected or just the one at hand, so that the next number is the next segment), `Fresh`
(what is about to be generated or published stems from the segment's own seed),
`InOrder` (what was published is exactly what was selected before the segment at hand),
`Kept` (what a run claims is still there, from which it follows that a rival publishing
into a free name claims something else) and `Totalled` (the sum a run keeps is that of
the segments it has published and accounted for, and was within the limit before the
last of them); `Divisible` (a run that has succeeded has a sum above zero) rests on
`Report` alone. A sum over a set is a recursion over its subsets, and no backend
instantiates an induction theorem; so `RenderProofs` states the sum as what any function that
adds up over all subsets gives (`Adds`), and proves that it exists, is unique and grows by
what is added, each from the least number of elements for which it would not
(`LeastOf`), a form of induction that is a plain theorem about sets of numbers.

**`Benchmark`**: `TypeCorrect`, `ReportsAreUniform` (`ReportIsUniform`),
`ReportsNameTheirCode` (`ReportNamesItsCode`), `BudgetIsKept` (`BudgetKept`) and
`FailuresHaveCauses` (`FailureHasCause`). The invariant, in `BenchmarkProofs`, adds
`Receipts` (which segments of the path have a receipt, at each step of either path),
`Accounted` (all that renders ever made of a segment is what the receipts of this path,
the hashes of the first path and those of the earlier trials say), `InTime` (a render's
limit is its own or the benchmark's), `Named` (another version than the sampled one has
rendered only if it is still on disk or an edit was undone) and `Sound` (without mishaps
files agree with receipts, and without edits all audio is one version's). `Accounted` is the
heart: the comparisons make its three sources one.

**`BindDirectory`**: `TypeCorrect`, `CheckedAllAlong` (`ProtectedAllAlong`),
`NoDescriptorLost` (`NoDescriptorLeft`) and `RivalsShareAlways`. The invariant, in `BindDirectoryProofs`, adds
`PartsLeft` (a walk has parts before it), `CheckedBehind` (all directories behind are
protected or had their mode changed; the one just entered is checked next), `Accounted`
(which descriptors each step has open: only `restat` has more than the two an error
closes).
`RivalsShareAlways` is what `RivalsShare` rests on besides fairness: without another
program, all who are given a directory are given the same one, and who fails does so
because a call failed, something else is in the way, or there was no room, never because
another was faster. Its invariant `Sharing` says that all directories bound are one path
from the anchor on (`Path`, a function that grows with the walk that is furthest), that
what a process looked up is still there (`Seen`), and that causes of failure stay
(`Caused`).

**`StableRead`**, in `ReadProofs`: `ReadTypeCorrect`, with the bound on what is ever read
of a file, and `ReadIsAtomic` (`ImplementsAtomicRead`). `ReaderInv` says that what stands
under the path is `possible` (true of the mapping, and kept because every step of
another program adds what it made visible) and adds `Quiet` (bytes are only read at the
end of the path, an answer is the last step), `Calm` (as long as nothing has changed, what is
looked at twice is the same: why a change is only reported if there was one), `Stamped`
(a later change of the opened file will show in its time stamp) and `Traced` (while the file's stamp
is the one it was opened with, its content is one that stood under the path, and what
was read is the first part of it). The step in which the file enters is the hard one
(`EnterSees`): at the second `stat` the name of the open file still leads to it from the
directory the walk is in, and the directories behind it may have been moved since; that is
why `AtomicRead` speaks of where the *rest* of the path leads from where the reader is.

**`Captions`**, in `ReadProofs`: `CaptionsTypeCorrect`, `AcceptedFollows`
(`AcceptedFollowsAudio`), `SnapshotVerified` (`SnapshotIsVerified`) and `HonestPass`
(`HonestCaptionsPass`). The invariant adds `ReceiptRounds` (durations are rounded
lengths), `Fresh` (each verification starts at the first cue), `Position` and `Verified`.
`Position` is the heart: the expected start of cue i is off the audio by at most i - 1
halves of a millisecond, and all cues before it follow the audio. Both directions come
from it: an accepted cue is near the audio, and a cue rounded from the audio is accepted
as long as these halves stay below the tolerance (32 segments stay below 20 ms).

**`Supervisor`**, in `RunProofs`: `SupervisorTypeCorrect` (`TypeOK`), `ReceiptsComplete`
(`ReceiptComplete`), `NobodySurvives` (`NoSurvivor`) and `VerdictsJust` (`VerdictJust`).
The invariant adds `Conserved` (every block written is in a pipe or in a buffer, and a
stream is only given up when nothing is in its pipe and nobody can write to it: this
makes a receipt complete), `Tracked` (which steps follow a failure and which do not),
`Living` (who can still be signalled) and `Settled` (a call that is about to
return has reaped the render, and has signalled all of a failed one).

**`Receipt`**, in `RunProofs`: `ReceiptTypeCorrect`, `BelievedConsistent`
(`BelievedIsConsistent`) and `HonestReceiptsPass` (`HonestReceiptPasses`). The invariant
adds `Rendered` (there is an item for each segment made, and the render stops at the
number it was asked for) and `Adding` (the sums so far are within a millisecond per item
of what the samples say); the comparison of the totals then costs another millisecond
per item. `HonestReceiptsPass` takes a second invariant, `Truthful`: as long as no figure
was changed, each is within half a unit of what was measured, and the sums that the
validation adds up again are on the way to those the render printed. That
is stated with functions that exist (`PartialSums`) rather than a recursion. Quotients
are stated by the inequalities they stand for, multiplied out by `Milli`, and compared as
multiples (`Scaled`), since the backends do not decide products of variables.

Only model-checked:

- liveness, which is beyond the proof system: that every call and every run ends
  (`ViewEnds`, `Ends`, `AlwaysReturns`), that rivals come to a decision (`RivalsDecide`,
  `RivalsShare`), that restarts and reruns complete (`Converges`, `Completes`);
- `TooLongIsTooLong`, which does not hold.

## 5. What the models leave out

- Ownership, link counts and ACLs: checks that change no state and refuse what the
  models do not create. A failing check is a `Fault`. `BindDirectory` has the modes.
- A `stat`, `open`, `fstat`, `stat` sequence whose results are compared is one step in
  `Publish`, `ModelView` and `Download`, except where the code acts on the difference
  (`StatCreated`, `OpenCreated`, `Verify`, `Rollback`). `StableRead` and `BindDirectory`
  take the same sequence apart and show what it closes. `open_bound_directory` is the
  walk of `BindDirectory` without the making, and has no module of its own.
- Time stamps increase with every write, except in `StableRead`, where the clock has
  ticks; a clone is atomic; an fsync that returns has reached the disk. The code depends
  on the last two and cannot check them.
- A model has one subdirectory at most, not a tree of them, and listing it is one step.
- In `Render`, `Download`, `Benchmark` and `Captions` a publication is one step, as
  `Publish` justifies; `Download` keeps the window between clone and last check, in which
  the file can still be withdrawn. In `Captions` a read is one step, as `StableRead`
  justifies.
- Sums and quotients of floating point numbers are exact in `Receipt` and `Captions`.
  Their error is some 10 orders below the tolerances, so it only matters where both
  sides of a comparison are equal, and there the models allow either outcome.

Not modelled:

- `manifest.py` and `load_model_lock`: validation of one JSON value, without state and
  without a second actor; which values pass is a table of ranges, and a model of it
  would repeat the table. URL and SRT syntax likewise.
- `cli.py` and the scripts: argument parsing, wording of errors, exit status, checks of
  the platform. The one protocol they offer, rendering again with `--only`, is `Resume`.
- The figures of the benchmark's report: medians and ratios of what was validated.
- The budgets of tokens and renders that a benchmark checks on entry
  (`benchmark.py:655`); that it has 1 to 9 trials is an assumption of `Benchmark`.

## 6. Plan

Done: publication, supervisor, model view, downloader, rendering, benchmark driver,
receipt, captions, directory binding and stable reads, each with proofs of all its
safety properties and of its refinement where it has one. Next, in this order:

1. The safety half of termination for `ModelView` and `Supervisor`, as `CallsAreBounded`
   is for `Publish`: a number that each step of the program itself lowers, which bounds
   how many calls a render's cleanup or a supervisor's last read can take.
2. That the publication steps of `Download`, `Render` and `Captions` are those of
   `WriteOnce`, so that the three rest on `Publish` by a theorem and not by a remark.
