# A verification project for GeeZipX

TLA+ models of GeeZipX: of its concurrent parts, of what it does when a step fails or is
cut short, of its readers and writers as far as their behaviour over several entries goes,
and of its window; the TLC runs that check them on small instances; and TLAPS proofs of
the main properties for every value of the constants. Paths such as `extraction.rs:82`
are relative to `src/crates/` and name the shortest unique end of a path.

    tlc -workers 2 -config window.cfg MCAppLifecycle      # a run: PROJECT.json lists them all
    tlapm ExtractionDirProofs.tla                         # a proof module

Contents: [the system](#the-system), [modules](#modules), [what is abstracted](#what-is-abstracted),
[runs](#runs-and-bounds), [fairness](#fairness), [proofs](#proofs),
[known deviations](#known-deviations), [limits](#what-is-not-modelled).

## The system

GeeZipX is an archiver in Rust: a core library (`core`), a command line (`cli`), a window
(`gui-egui`), a file-manager extension (`shell`) and a self-extractor (`sfx-stub`). Most
of its lines are readers and writers of some forty formats.

| Component | State it keeps | Operations | What is hard | What makes it correct |
|---|---|---|---|---|
| **Transactional extraction output** `core/src/archive/extraction.rs` | the destination; `NEXT_TEMP`, one counter per process; per call a guarded temporary file | `write_file` (about a dozen system calls), `create_dir`, `reject_link`, `PendingFile::drop` | threads and processes in one directory, the user too; death between two system calls; filesystems without hard links; clean-up that fails | an entry appears complete or not at all; nothing is replaced without leave; no two calls share a temporary file |
| **Batch extraction** `core/src/archive/mod.rs`, `engine/mod.rs`, `commands/decompress.rs` | the entry at hand, the errors so far | `extract_all_safely`, `extract_all_streaming`, `read_entries` | which errors end the batch and which are collected; entries of one name; the archive's own name among them | what is reported is what is on the disk |
| **Window lifecycle** `gui-egui/src/app/`, `job.rs` | the job slot, the native drag, the settings job; the question about closing; the forms; the shell task | `update` frame by frame: poll, close check, draw; some twenty inputs; three worker threads | a result, a click and a request to close in any order; two answers to one question; a window with nothing in it | an exit leaves no worker it knew of; a confirmed exit happens |
| **Browser, folders, selection, forms** `browser.rs`, `app/` | list, history, selection and its copies; extraction form; draft of a new archive; passwords | open, back, search, sort, select, type, submit | the user goes on while a job runs, whose result meets another state of the window | selection and status name what is shown; a password reaches only the archive it was typed for |
| **Archive index and stream cache** `gui-egui/src/engine/` | identity of the listed file; the decoded stream | `capture`, `matches`, list, extract, verify, preview | the archive is replaced after it was listed | no mixture of two versions; what is delivered is the record asked for |
| **Formats** `core/src/archive/`, `core/src/detect.rs` | a walk over the records, or a table | read, list, verify; write, batch, pool, roll back | records that are no entry, two entries of one name, a broken payload, trailers | an entry is delivered, verified and written as itself |
| **Creation of archives** `engine/mod.rs`, `app/create.rs`, `commands/compress.rs`, `commands/common.rs` | collected sources, the writer's staging, one temporary file | collect, write, encode on a thread, publish | files that change, shrink or vanish while they are read; a thread that must end | the archive holds each collected file, with its own data |
| **Split archives on disk** `commands/compress.rs`, `core/src/volume.rs` | the files `base.001`, `base.002`, ... | `split_output_into_volumes` (scan, stage, publish, roll back); `discover_volumes` | publication file by file beside another command, a reader or the user; cancellation in the middle | one complete set or none |
| **Streams over volumes** `core/src/volume.rs` | writer: volume number and fill; reader: volume, open file, global position | `write`, `finish`; `open`, `read`, `seek` | short writes, failures in the middle of a call and their repetition; empty volumes; borders | no byte lost or doubled; the set reads as one file |
| **Command-line output and cancellation** `commands/common.rs`, `signal.rs`, `seven_zip.rs`, `rar.rs` | a pending temporary file; a process-wide flag | `PendingOutput::new/commit/drop`; set, reset, test; extraction in place | a signal before the reset or after the last look; an output that is the input | a cancelled command publishes nothing; success is true |
| **Commands** `cli/src/commands/`, `detect.rs`, `sfx-stub/` | none between commands | `compress`, `list`, `test`, `decompress`, the stub | each command and the window decide a format by tables of their own | what was written can be read, tested and decoded alike |
| **Drag out of the window** `export.rs`, `app/native_drag/`, `app/interaction.rs` | one drag; its preparation behind a mutex; what was delivered | XDND, file promises, the Windows drop thread; `paths`, `extract_to`; retention | messages of other programs, timeouts, several askers, cancellation | read once and only after the drop; a drag always ends |
| **Settings and registration** `app/settings.rs`, `integration/` | draft, snapshot, the desktop's registry, what it replaced | apply, remove, inspect; the installer's repair | one step of several fails or the process dies; the user changes his mind elsewhere | the user's earlier choice is kept and comes back; nothing names a launcher that is gone |
| Shell handoff `shell/src/`, `launch.rs` | a selection file | write, read once | death between read and removal | a selection is consumed once |
| Drawing, translations, progress figures, packaging | | | | not for these models |

Interactions. The window owns at most one `Job` (a thread with a `Control` and a channel),
one native drag (a thread that reads the archive through the deferred export) and one
settings job. A job calls the engine, which calls a format's reader, which writes through
`ExtractionDir`; a split archive reaches the reader as one `MultiVolumeReader`. The command
line calls the same readers directly and splits finished archives through
`MultiVolumeWriter`. Processes meet only in the filesystem.

`PROJECT.json` lists every component with its status, and under `hazards` each of the
places where this code can go wrong in a way a test would hardly reach.

## Modules

| Module | Models | State and actions |
|---|---|---|
| `ExtractionDir` | `ExtractionDir::write_file` | `leaf`: final names; `temp`: temporary names `{pid}-{serial}`; `next`: `NEXT_TEMP`; per writer `pc`, `target`, `overwrite`, `serial`, `result`. One action per system call on the destination, plus `Crash` and `OutsideStep`. |
| `AtomicOutput` | the promise: publication in one step | `store`, `status`, `outcome`; `Start`, `Commit`, `Finish`, `Die`, `OutsideChange` |
| `ExtractionRefinement` | `write_file` implements it | the refinement mapping |
| `BatchExtraction` | the loops around `write_file` | extends `ExtractionDir`: a batch is a writer, its calls are the steps there; `job`, `phase`, `at`, `cause`, `verdict`, `outcome` |
| `AppLifecycle` | the window from launch to exit | `active`/`reply`/`cancelled`: the job; `drag`, `integ`: the other workers; `prompt`, `closing`, `closeReq`, `closeCmd`, `veto`, `exited`; `late`: the workers started since; forms and shell fields. A frame is `PollIntegration`, `PollDrag`, `Poll`, `CloseCheck`, an input of `Render` below the settings, `DrawSettings`, an input above them, `EndFrame`; workers finish at any time. |
| `Browser` | `Browser` and its rows | operators on a record that keeps copies of what could be derived, as the struct does |
| `CreateDraft` | the form for a new archive | operators on the draft: sources, formats, the name proposed |
| `Workspace` | what the user of the window works on | `archive`, `br`, `marquee`, `job`, `form`, `pending`, `typed`, `retry`, `unlock`, `shell`, `draft`; every input of the user, and `Result`, the end of the job |
| `ArchiveReaders`, `ArchiveReading` | the forty readers, and the loops over them | `ArchiveReaders` says of each reader how it walks, opens, hides and checks; `ArchiveReading` has the operations of the window and the command line on an archive with `vers`, its versions, and the window's `index` |
| `ArchiveWriters`, `ArchiveCreation` | the writers, and the creation of an archive | of each writer how it stages, batches, pools and rolls back; the sources on the disk, the `job`, the encoder's thread, the `tape` written so far |
| `SplitVolumes` | `split_output_into_volumes` and `discover_volumes` | `vol`: who made each number; per command `pc`, `size`, `sent`, `undone`; per reader `rpc`, `found` |
| `VolumeWriter` | `MultiVolumeWriter` | `limit`, `index`, `filled`, `paths`, `volumes`, and `taken`, what callers were told; `Write`, `NewVolumeFails`, `Finish` |
| `VolumeReader` | `MultiVolumeReader` | `sizes`, `left` (what the files have now), `at`, `handle`, `pos`, `res`; `Open`, `Read`, `Seek`, `CutShort` |
| `ByteStream` | the promise of `Read + Seek` | `bytes`, `pos`, `res`; any read, seek or failure of one file |
| `VolumeStream` | a set written and read back | `VolumeWriter` and an instance of `VolumeReader` that opens what was written, or a foreign set |
| `CliOutput` | outputs of the commands under Ctrl+C | files and names, temporary files, per command `pc`, `flag`, `exit`; staged and in-place commands |
| `CommandLine` | what each command makes of a file | `file` as layers of coding under a name; `Create`, `Read`, `RunStub`, `Rename` |
| `DragExport` | a drag out of the window on three systems | the window's slot, `DeferredExport`, the backend's thread, the drop target, the 30 s timeout; `promised`: the references AppKit's promises hold |
| `Registration` | the settings dialog and what its worker does to the system | the desktop's state, the worker's place `pc` among its steps and the types `left`, the dialog; `After` is the order of the steps per system; `want`: what the user chose and can expect back |
| `MC...` | instances for TLC | |
| `...Proofs` | theorems | |

`ExtractionDir` is composed with `BatchExtraction`, `VolumeWriter` and `VolumeReader` in
`VolumeStream`, `Browser` and `CreateDraft` in `Workspace`. Where two modules describe one
thing at different depths (a job in `AppLifecycle` and in `Workspace`; publication in
`BatchExtraction` and in `ArchiveReading`) the header of each says which of them carries
which question.

Each definition is mapped to its lines in `PROJECT.json`. Definitions whose comment begins
with "Faulty" are not part of any specification: each is a mistake that this code could
have had, and substituting it for the definition it follows breaks a property of a run.

Type invariants (`TypeOK`) are stated beside the modules with proofs, which prove them, and
in `BatchExtraction` and `VolumeReader`, where they document the state; no run spends a
property on one.

## What is abstracted

In general:

- *A file is who made it, in which call.* Its content is whole or not (`written`); two
  names hard-linked to one file hold the same value. A byte of a stream is its place.
- *Where a call may fail for reasons outside the model* (permissions, a full disk, a bad
  archive) the action has a disjunct that fails, always enabled.
- *Live processes have distinct identifiers*; a dead one's may be used again, which
  `Crash` does by keeping the process and starting its counter at 0. Containers that share
  a directory but not a pid namespace are outside: `create_new` still skips the names of
  files that exist.

By module:

- `ExtractionDir`: parents of an entry (`create_dir`) are one step with three outcomes.
- `BatchExtraction`: a decoder fails or is cancelled in an entry; which codec it is does not
  matter. Entries are leaves or folders of one destination.
- `AppLifecycle`: eframe is modelled as the code uses it: a `Close` command, or the window
  manager, makes the next frame carry `close_requested`; the loop ends after a frame that
  carries it without `CancelClose`. A frame handles at most one input of the list and the
  forms and one of the windows above. Which page the settings show is left open. What the
  jobs carry is the subject of `Workspace`.
- `Workspace`: a job ends at any time; the columns for packed size and type, which sort like
  size and name, widths, scrolling, drawing and the timing of double clicks are left out,
  and so are names with empty components. The preview, the list of tasks and the windows
  about the program change nothing that is modelled. What `docs/EGUI_GUI.md:42-47` says of
  selection, search and keys is the behaviour modelled.
- `ArchiveReading`: folders and sizes are left out. Rewriting a file in place changes its
  stamp (length and time); replacing it may keep both, but not the file's identity. A file
  rewritten under an open reader is modelled for listings only.
- `ArchiveCreation`: other programs resize, delete and create files; they do not put links
  where files were. A root of the window's draft and each source of the command line is
  collected in one step. The "library" client goes on after an entry failed, as the tests of
  the writers do. Size limits, single-stream formats and the command line's cancellation
  (`CliOutput`) are left out; a self-extractor is a stub put before the archive.
- `SplitVolumes`: `read_dir` is a snapshot: a scan of a directory that changes meanwhile may
  in practice miss or include a change, as the filesystem likes.
- `VolumeReader`: `BufReader` may still return bytes cut off the file since it read them.
- `CliOutput`: standard output as a target is left out.
- `CommandLine`: a content is a list of layers, and a reader fails on layers not its own;
  a name is its extensions. 7z hides names by default, sets of volumes have one part.
  First bytes of LZH and of the formats without a magic are assumed to hit no other magic.
  Levels, 7z's own options, `--sfx-target`, patterns, `--stdout` of `compress` and where a
  password comes from are left out. The properties except what the code does not promise:
  `img`, `bin` and `isz` name images that may be raw, a TAR may begin with a name that looks
  like another format, and an ISZ of something that is no image passes `test` but is not
  decoded; volumes are joined by `decompress` only.
- `DragExport`: the window systems' protocols are what the backends make of them:
  messages arrive in any order, a request may fail, another client may take the selection.
  The descriptors made from the listing are left out.
- `Registration`: one worker at a time, in one process; the installer runs while the dialog
  is closed; nobody picks this program by hand. What a registry key or a desktop file says is a value. On Linux, without an
  explicit choice a type opens with what the desktop takes unasked (`Rival`).

## Runs and bounds

`command_line`, `creation` and `registration` are checked for deadlock. The other models end
by themselves, when every call has been made, every stream is full or the program has exited,
and their configurations say `CHECK_DEADLOCK FALSE`.

| Run | States | Instance | What it shows |
|---|---|---|---|
| `extraction_shared` | 555,154 | two threads of a process and one of another, one entry name, no hard links, clean-up may fail; one crash, one outside change | `OwnTemp`: no two live calls share a temporary file; `ImplementsAtomicOutput`: as long as no call is in the fallback, every step is one of the atomic destination |
| `batch` | 1,004,245 | a window's batch beside one of the command line, two entries each, leftovers of a crash in the way, the archive under an entry's name | `FailureLeavesNothing`, `SuccessIsComplete`, `ReportIsTrue`, `CancelPublishesNoMore`; `BatchEnds` |
| `window` | 124,234 | both semantics of a drop; clicks, keys and the settings start work in every frame | `ExitOnlyWhenIdle`, `ClosingStartsNothing`; `CancelledExitHappens`, `ShellWindowCloses` |
| `workspace` | 206,588 | two archives, one with two versions; two searches; two sources, four formats, two stubs; four ways to launch | `SelectionIsHere`, `StatusIsTrue`, `PasswordForItsArchive`, `ProposalFits`, `FailureRestoresForm` |
| `reading` | 1.02 million | every reader; archives of one to three records with twins and metadata; two versions, two operations | `IndexIsOneVersion`, `DeliveredIsOwn`, `SuccessIsWhole`, `VerifiedIsWhole` |
| `creation` | 1.18 million | every writer; a folder, a file of the same name in another source, links and special files; one change by another program | `PayloadsAreOwn`, `EveryFileIsIn`; `CreationEnds` |
| `split_races` | 70,712 | two commands, a reader, four volumes, one crash, one outside change | `SettledIsOneSet`, `SuccessIsWhole` |
| `volume_stream` | 38,673 | limits 0 to 4, streams of up to 7 bytes, volume numbers to 5; sets of two and three volumes of 0 to 2 bytes, one cut short | `VolumesInOrder`; `ImplementsByteStream`: the reader is one stream of bytes |
| `cli` | 933 thousand | two commands, two names that may be one file, archives of two entries, one outside change | `FailureLeavesNothing`, `CancelHeeded`, `SuccessIsTrue` |
| `command_line` | 390 thousand | every known extension, five contents, a file of each format written elsewhere, locked ones; any sequence of commands | `RoundTrip`, `TestedIsReadable`, `SameVerdict`, `Protected` |
| `drag` | 838,567 | three systems, two drags, three foreign messages, two roots, promises held by AppKit | `ReadOnceAfterDrop`, `StagingFollowsDelivery`; `DragEnds` |
| `registration` | 5.37 million | three systems, a simple and a compound type, another program and the system's own; any step fails or is the last | `PreviousKept`, `NothingDangles`, `RemovedIsGone` |

The bounds and why they suffice:

- `MaxCalls` = 1 call per writer with three writers, 2 in `batch`. Three concurrent writers
  already meet in every pair of program points, and a writer's second call differs from
  another writer's first only in its serial. The theorems have no such bound.
- `MaxSerial` bounds `NEXT_TEMP`, a 64-bit counter. It is 3 in `batch`, enough for the calls
  after a death to pass the names that it has left behind; 1 in `extraction_shared`, where
  `TakeSerial` stops a search beyond it.
- `MaxOutside`, `MaxCrashes`, `MaxCuts`, `MaxChanges` = 1. One change, in any state, is what
  each look-then-act gap needs; one death leaves leftovers and resets a counter.
- Two symmetric threads or commands are exchanged by `SYMMETRY`, only in runs without
  liveness.
- `batch` has one leaf and a folder, so that two batches want the same name and one archive
  has the name twice.
- `MaxVolumes` = 4: a published prefix, a competitor's volume, a gap and a part behind it.
- `MaxBytes` = 7 with limits 1 to 4: several full volumes, ends that meet the limit and
  ends that do not; with limit 1 the numbers run out at `MaxIndex` = 5, which stands for
  `u32::MAX`. Limit 0 is "no limit". Foreign sets have empty volumes first, last, in the
  middle and in a row.
- `MaxVersions`, `MaxTasks` = 2: an index made of one version and used on another.
- `PipeCap` and `BatchCap` = 2 stand for 64 MiB of pipe and 1024 entries; with three files
  both fill up and are emptied again.
- `MaxOutputs` = 2 entries in place: one refused or left, and one after it.
- `MaxDrags` = 2: a drag begun while an older one's files are kept. `MaxMessages` = 3: more
  than any one state of the source waits for.
- `workspace` has a state constraint, `Bound`: the form for a new archive, sorting and the
  keyboard's focus, and a rectangle drawn over the rows are each explored with little else
  going on. `MaxTrips` = 1 folder back or forward. The pieces it keeps apart share no
  variable that an operation of the other reads.
- `MCFlags` and `MCHints` take one flag of each kind (an archive, a compound one, a stream,
  an image, a lock, one that can be read but not written).

The models of the window and of the commands need no other bound: their state is finite.

## Fairness

- `BatchExtraction!FairBatchSpec`: weak fairness of each batch's steps. A batch is one thread
  in a sequence of system calls, each of which returns; archives are finite.
- `AppLifecycle!FairSpec`: weak fairness of the frame (`request_repaint_after` of 100 ms
  while anything runs, and a wake-up by each worker), and of the end of each worker. A
  chooser or a drag ends when the user or the drop target answers; an engine job ends
  because archives are finite, sooner if cancelled.
- `DragExport!FairSpec`: weak fairness of the backend's thread, of time, which passes the
  30 s, and of the window's poll.
- `ArchiveCreation!FairSpec`: weak fairness of the job's and of the encoder's thread.

Nothing is assumed of the user or of other programs.

## Proofs

Every proof module extends its component and is checked from nothing by `tlapm`.

| Theorem | Property | Assumes |
|---|---|---|
| `ExtractionDirProofs!Typing` | types, calls counted | |
| `TempOwnership` | `OwnTemp` | |
| `StepsAreAtomic` | `ImplementsAtomicOutput` | |
| `Refinement` | `Atomic!Spec` | hard links |
| `PublishedIsWhole` | `PublishedWhole` | hard links |
| `ExistingIsKept` | `KeepsExisting` | hard links |
| `FailuresLeaveNothing` | `FailureLeavesNothing` | removals succeed |
| `BatchesAreCallers` | `BatchSpec => Spec` of `ExtractionDir` | |
| `BatchFailuresLeaveNothing` | `FailureLeavesNothing`, of batches | removals succeed |
| `SuccessIsWhole`, `CancelSpares` | `SuccessIsComplete`, `CancelPublishesNoMore` | |
| `NothingUnreported` | `ReportIsTrue` | removals succeed |
| `AppLifecycleProofs!WindowTyping` | `TypeOK` | |
| `ExitsIdle` | `ExitOnlyWhenIdle` | |
| `OneTask`, `PendingIsCurrent`, `ClosingIsFinal`, `ShellNeverBlank` | `OneEngineTask`, `PendingWhileExtracting`, `ClosingStartsNothing`, `ShellOffersSomething` | |
| `ArchiveCreationProofs!CreationTyping` | types of `ArchiveCreation` | |
| `PayloadsStayOwn` | `PayloadsAreOwn` | |
| `EveryFileStaysIn` | `EveryFileIsIn` | what exists is in a folder |
| `SplitTyping` | `TypeOK` of `SplitVolumes` | |
| `SuccessStaysWhole`, `VolumesAreKept` | `SuccessIsWhole`, `VolumesKept` | |
| `OneSetRemains` | `SettledIsOneSet` | removals succeed |
| `WriterTyping`, `NoGap`, `CountAnnounced` | `WriterTypeOK`, `VolumesInOrder`, `AsAnnounced` | |
| `ReaderIsOneStream` | `ImplementsByteStream` | |
| `CommandLineProofs!CliTyping` | `OutputTypeOK` | |
| `CliFailuresLeaveNothing`, `SuccessesAreTrue`, `CancelIsHeeded` | `FailureLeavesNothing`, `SuccessIsTrue`, `CancelHeeded` | |
| `DragExportProofs!DragTyping` | `TypeOK` | |
| `ReadsOnceAfterTheDrop`, `DeliveredIsKept` | `ReadOnceAfterDrop`, `StagingFollowsDelivery` | |
| `ArchiveReadingProofs!IndexOfOneVersion`, `OwnIsDelivered` | `IndexIsOneVersion`, `DeliveredIsOwn` | |
| `WholeOnSuccess`, `WholeOnVerification` | `SuccessIsWhole`, `VerifiedIsWhole` | |
| `CommandLineProofs!SidesAgree`, `LockedStaysLocked` | `SameVerdict`, `Protected` | |
| `ComesBack`, `TestedCanBeRead` | `RoundTrip`, `TestedIsReadable` | |
| `WorkspaceProofs!PasswordsStayWithTheirs` | `PasswordForItsArchive` | |
| `FormComesBack` | `FailureRestoresForm` | |
| `ProposalsFit` | `ProposalFits` | |
| `StatusStaysTrue` | `StatusIsTrue` | |
| `SelectionStaysHere` | `SelectionIsHere` | |
| `RegistrationProofs!RegistrationTyping` | `TypeOK` | |
| `PreviousIsKept` | `PreviousKept` | |
| `NothingPointsAstray`, `RemovalIsComplete` | `NothingDangles`, `RemovedIsGone` | |

Besides the assumption in its row a theorem uses only the `ASSUME` of its component, which
gives the constants their types; the number of processes, writers, names, calls, volumes,
bytes, commands, drags and messages is arbitrary. The arguments:

- **`OwnTemp`** alone is not inductive: that my temporary name holds my file says nothing
  of the writer who is about to create one. `SerialsApart` adds that between `fetch_add`
  and the end of a call the serial is below the process's counter and differs from that
  of every other such call of the process. A crash resets the counter, but also ends all
  calls of the process, and `create_new` skips what they left.
- **`PublishedWhole`, `KeepsExisting`**: with hard links no call is ever in the fallback,
  and from `publish` on its file is written (`LinkedInv`); by `OwnTemp` the file that is
  renamed or linked is that file.
- **`FailureLeavesNothing`**: before it publishes, a call's file is under no final name
  (`ShownInv`), and a file is named by its call, so no other call can put it there.
- **The batches**: `LoopsInv` ties the place of a loop to the call it has under way: where the
  loop stands and what it has counted (`Placed`, `Judged`), what the call in hand may still
  return (`Calling`), and which call may still publish once the flag is set (`Spared`), which
  `Bounded` carries over to the files under a final name. A step of a batch is a step of a
  writer, or none (`BatchesAreCallers`), and what is proved of the calls holds of the batches.
  `Accounted` says of every file at a final name that its batch counts it, has it in hand in a
  call whose answer is still to come, or died or was cancelled there. It needs that removals
  succeed: an entry whose fallback copy failed, and whose partial file could not be removed,
  is there and not counted.
- **`StepsAreAtomic`, `Refinement`**: `HardLink` and `Rename` map to `Commit`, `DropGuard`
  to `Finish`, the steps between to stuttering; the strengthening (`StepInv`, with
  `DropInv`) says what a call in `drop` is about to report. With hard links no state has a
  call in the fallback, and the restriction goes away.
- **The window**: `ExitOnlyWhenIdle` needs `ExitDecided`, that in the second half of a
  frame that carries an unopposed request every worker owned has been started since the
  frame looked. `ShellNeverBlank` needs
  `ShellInv`, which says, for each kind of the shell's job, what will be shown after it.
- **`PayloadsAreOwn`**: a tape is `Whole` when every head is followed by as many blocks as
  it says, those of one input of its name, and no block stands behind anything else; whole
  tapes joined are whole (`WholeJoin`), an entry is whole (`WholeFile`), and the closing part
  makes a whole tape `Finished`. `Contents` says where that is so: tape and pipe together
  (`Stream`) are whole between entries; within an entry that is written while it is read they
  are a whole tape, the head and the blocks read so far; `Held` says that batches are whole and
  that each pooled entry's range has its blocks, one range right behind the other (`Behind`),
  which is what writers without ranges rely on (`OffsetIs`). `Stages` adds what the place of
  the job says of pipe, encoder and pool: above all that an encoder is `done` only with an
  empty pipe, so that what is published is the stream. A caller that goes on after a failed
  entry has a writer in which that entry has not reached the stream (`WriterFacts`,
  `FailingContents`). That `FlattenSeq` and the sum of lengths, which recur, have the values they should is shown by the
  least place where they would not (`FoldExists`, `Flattened`, `OffsetIs`).
- **`EveryFileIsIn`** has two halves. `Reached`: a file that is wanted is an input, or at or
  below something the walk or the collection has still to look at; a walk that takes a folder
  from its stack puts what is in it there, among it the next step down to the file. That
  there is such a step is `Rooted`, that what exists does so in a folder, which the changes
  of other programs keep (`TreeStays`); `TreeAssumption` says it of the trees to begin with.
  `Counted`: of every name there are as many heads on the stream, in the batch and in the pool
  as files of that name the job is through with, and one more while an entry that begins with
  its head is being written (`Written`, `Handled`, `Begun`). At the end the batch and the pool
  go to the stream: a sequence made of sequences with at most one head of a name has as many
  as have one (`FlattenedCount`), and of entries that are merged the last one stays
  (`LastStays`), unless a file has the name of a folder above it (`Overlaid`).
- **Splits**: `Progress` ties `sent` and `undone` to the place in the code; `Owned` says
  that a command's volumes are exactly those it has published and not taken back. Two
  sets that are both complete would both own number 1.
- **The writer**: `taken = (index - 1) * limit + filled`, with `filled` at most `limit`;
  `LastFilled` adds that the last volume is never empty once something is written. The number
  of volumes is then the division rounded up (`DivCeil`).
- **The commands' outputs**: an invariant per command. `Unnamed` says that the file a staged
  command writes has no final name until it ends in status 0, because `persist` and the
  end are one step of the file system's; no other command can give it one, since names are
  taken only by their owner (`OthersKeepOut`, `NewNames`). `Accounted` counts the entries
  an in-place command is through with, and `Heeded` that a signal between the reset and
  the last look leaves no way to `persist`.
- **Drags**: `OneAtWork` ties the slot to the backend's place, `BackendsApart` says which
  places each system has, `Prepared(d)` that a drag's preparation is answered once and for
  all, `Staged(d)` what window and AppKit hold of the files at each report, and `Reading(d)`
  who has paths of them. Sequences enter through the library's theorems only (`retained` grows
  by the current drag).
- **Reading**: the time stamps and identities of an archive's versions never go back
  (`Versions`), and a listing looks at them before and after it opens the file (`Listing`
  records which versions it saw). The version listed lies between two looks that agree, so it
  has that stamp and that identity. For `DeliveredIsOwn`, `Headed` says that a decoder stands
  where the walk stands, and a lookup's least or greatest hit exists because the naturals are
  well-founded.
- **What is delivered or verified is everything**: `WholeInv` says how far an operation
  has come on an archive that has not changed since it began: what it was asked for
  (`Request`), what its index says (`Recorded`), and then one conjunct for each stage:
  `Before`, `Opening`, `Walking`, `Handling`, `Decoding`. A walk at record *k* has handled
  the wanted ones among the first *k*; a plan's decoder at step *i* those of its first *i*.
  Of an operation during which the archive changes only `DeliveredIsOwn` is claimed. What the wanted ones are is `Only(s, keep)`, a recursive function; the
  few facts about it (whatever it selects is there, in order, once per place) are the lemmas
  on `Only`, by least counterexample on the length from the well-foundedness of the
  naturals, since a proof by the library's induction would need an operator as a parameter.
- **The two tables of formats**: the first bytes say one of the formats with bytes of their
  own. Of these only five are compressions that may wrap a TAR, and for each the command
  line and the window ask the name the same question (`SameAnswer`); `Settled` ties what
  each has settled to the name the file has now, which a rename resets.
- **`ImplementsByteStream`**: `VolumeOffsets`, `OffsetsGrow` and `HoldingIs` say of every list of
  sizes that the volumes lie one behind the other and that each byte is in exactly one, empty
  volumes or not. `AtPosition` says how the reader keeps its place: while bytes are left, the
  open file is at the position, or the position is where the next volume with bytes begins.
  A call that fails between two volumes leaves the second case, a read that empties a volume
  too. With it every step of the writer, the reader or another program is a step of
  `ByteStream` or none.
- **`Protected`**: only `Peel` takes a lock off, with the password or not at all
  (`PeelGuards`); every reader, decoder and stub is built from it (`GivesGuard`), and
  `FileInv` adds that compress locked the file with the password it was given.
- **`RoundTrip`, `TestedIsReadable`**: `PackedInv` says of a file whose name tells what
  `compress` was asked for that it is the source with that format's layers put on, locked if
  a password was given. Each reader or decoder of a format has one way that fits these layers
  (`OnlyWay`), and it takes exactly them off. `TestedInv` says that the passwords `test` has
  accepted a file with are still good for it, until a command writes another.
- **The window's work**: what the field holds was typed for the archive listed (`FieldInv`),
  and what a job carries for the one it works on (`JobInv`); `ShellInv` adds that the small
  window, where an archive can be opened again with the password, has one archive only.
  `FormInv` adds that the options kept while an extraction runs are those it was
  started with. For the draft, `Good` says that whenever the output was proposed, not typed,
  it is one of the names the form can start from (`Bases`) with the suffix of the present
  choice, and when typed, the user's own. Taking the old suffix off leaves exactly the name
  it started from (`RenamedFits`), also where the suffix is empty.
- **The list on screen**: `Kept` says that a `Browser`'s copies are what its folder, search,
  order and selection make them; each operation has its lemma, from which those of the clicks
  and keys follow (`ListInv`). That a search or an order loses no row and shows none twice
  needs that the rows are sorted, and a sorted row stands behind as many as come before it
  (`Place`): two rows of one folder differ in name, so the places are apart
  (`PlacesAreTaken`). A total is the number of its units, one for each byte: the units of
  rows that lie apart lie apart, so the bytes of the selection are those of the files an
  extraction takes, each counted once (`BytesOfSelection`).
- **`SelectionIsHere`** needs `OneWindow`: at most one window lies above the list, and no
  listing begins or ends while a form is open or kept for a failure. Otherwise the archive
  could change under a form that names rows of the old one.
- **The registration**: `PlacedAt` says which steps each system and operation has, and
  `Follows` and `Goings` where each step leads. `Freed` says that a removal without error
  has given back the types it is through with, so that the entry, the launcher and the file
  go when nothing needs them any more; on Linux that rests on `Cleared`, that a type has
  lost this program before the previous one is named. `Rooted` and `Launched` order what is
  named before what names it, `GoneInv` adds up what a removal has done so far. `ChoiceInv`
  is the worker's share in keeping the user's choice: one that is taken is in the file and in
  the worker's hands, the one in hand is in the file before the type is taken. A choice that
  the user makes for a type the worker has no answer about yet is simply in force; `want`
  gives up the others (`UserChooses`) and what a cut of two steps destroys (`Risks`).

`PublishedWhole`, `KeepsExisting`, `OneEngineTask`, `PendingWhileExtracting`,
`ShellOffersSomething`, `VolumesKept`, `AsAnnounced` and the type invariants are proved and
are in no run.

Of what the runs check only liveness (`CancelledExitHappens`, `ShellWindowCloses`, `BatchEnds`,
`DragEnds`, `CreationEnds`) is not proved: it is outside this prover.

The proofs have changed the models where these could not be true to the code: `CASE` is a
choice among the arms that hold, so arms that overlap, as the branches of the source do, say
less than the order of the branches. They are disjoint or `IF`s now.

## Known deviations

Met while modelling; where a property would be violated by one, its definition or the
instance says which case it leaves out. None of them is asserted by a run.

Outputs:

- Without hard links an entry is created under its final name and filled by a copy; if the
  copy fails the name is removed, whatever file it holds by then (`extraction.rs:156`). An
  incomplete file is visible while the copy runs and stays after a crash.
- Ctrl+C after the last look at the flag, before `persist`, does not keep the output from its
  name (`common.rs:289`), and one before the flag is reset, at the start of the operation, is
  forgotten (`signal.rs:82`). `CancelHeeded` speaks of those between.
- 7z and RAR archives are extracted in place by the command line: a cancelled or failed
  entry leaves a partial file (`seven_zip.rs:694`, `:732`), though the repository's
  `README.md:21` announces "graceful Ctrl+C with partial-file cleanup". `SuccessIsTrue` holds for them,
  `FailureLeavesNothing` speaks of staged commands only.
- After a refused entry the in-place loop for 7z goes on decoding a solid block from where
  it stands, so the next file gets data from the wrong place (`seven_zip.rs:441`, `:717`);
  it also resolves each path twice. `DeliveredIsOwn` leaves this case out.
- A splitting command that dies leaves a prefix of its set under the final names
  (`compress.rs:894`), and `discover_volumes` accepts a prefix if the next volume appears
  between its miss and its scan (`volume.rs:389`).
- `decompress --stdin -f tar.gz -o dir` writes one raw TAR named `output`. `decompress A.GZ`
  in its own directory is refused.

Window:

- `poll` withdraws the question about closing when its job ends; `poll_integration` and
  `poll_native_drag` do not. "Cancel task and exit" answered after the last worker only sets
  `close_when_finished`, which is looked at when some worker ends (`app/mod.rs:913`).
- Cancel and exit, close again while the worker winds down, keep processing: the second
  answer clears the question, not `close_when_finished` (`app/mod.rs:901`).
- A chooser's answer is dropped without a word if a settings job started meanwhile
  (`app/mod.rs:275`), and so is the target of a drop on Windows (`interaction.rs:159`).
- The engine compares the index with the archive and then opens the archive by its path
  (`engine/mod.rs:419-436`).
- For a self-extractor for Linux made of a source without extension the form proposes the
  source's own name: `replace_output_suffix`, unlike `suggested_output`, compares with no
  source (`create.rs:447-464`). A name that was proposed also stays when its source is taken
  off the list, though it may be that of the next one.
- Input is handled in the frame that already carries an accepted request to close: work begun
  by it, or by the settings, which read the system as they are drawn (`settings.rs:459`),
  ends with the program (`app/mod.rs:996`). `ExitOnlyWhenIdle` speaks of the other workers.

Drags:

- `export.rs:287` promises files that stay while the target may read them, but the 30 s
  timeout releases them (`linux.rs:269`), and so do a refusal, a lost selection or connection
  and the exit; `StagingFollowsDelivery` lists the cases. On macOS the promises' delegates
  hold further references (`macos.rs:167-185`): what they still hold when the program exits
  is left in the temporary folder. If AppKit never asks for a promise, the drag is
  never reported; `DragEnds` leaves macOS out.
- Dragging out opens the archive without the index, though `docs/EGUI_GUI.md:121` says that
  the cache is used again.

Settings:

- If giving back the user's earlier choice is cut short, a later removal does not restore
  it (`integration/linux.rs:171-178`): the type no longer looks like ours. On macOS the file
  of previous defaults is truncated before it is written again (`macos.rs:136`): a death
  between the two loses the choices of the types taken. A program that the user picks between
  the worker's question about a type and its answer is replaced without being recorded
  (`linux.rs:264-268`, and on macOS). `PreviousKept` names these cases, and `want` gives the
  choice up in them.
- Applying writes the whole draft. Types not selected on Linux keep "default" as what they
  replaced. On macOS a death between removing the launcher and copying the new one leaves
  none.

Formats and commands:

- A plain TAR with a global pax header: the listing leaves the record out, the walk gives it
  to the visitor (`tar.rs:180-209`). Readers that find an entry by its name (CAB, ARJ, ACE,
  ARC, cpio) never read the second of two entries of one name. Listings of compressed TARs
  do not read the codec's trailer.
- WIM merges two entries of one name (`wim/writer.rs:467`), which `common.rs:341` would have
  refused. If a file of one source has the name of another source's folder, the folder becomes
  that file (`:473-480`) and the files below it are left out (`:391`), with success reported;
  `EveryFileIsIn` excepts both. CAB would misplace payloads if a caller went on after a refused entry
  (`cab.rs:200-225`); both callers give up. A failed `tar.br` job does not wait for its
  encoder's thread.
- A self-extractor made with a password cannot extract itself: the stub asks for none
  (`sfx-stub/src/main.rs:172`).
- `decompress a.isz` extracts the image's files while `decompress a.isz.001` writes `a.iso`.
  `.msp` and `.mst` are known as extensions and not to `-f`.
- `signal.rs:33-34` and the repository's `README.md:21` say that a second Ctrl+C ends the
  program at once; the handler only sets the flag again.

## What is not modelled

- Bytes: headers, checksums, codecs, encryption, text encodings, the arithmetic of offsets
  inside a format. They are sequential, mostly calls of external crates, and a small model
  tells nothing apart. What the models keep of a format is what `ArchiveReaders`,
  `ArchiveWriters` and `CommandLine` say of it.
- The file that carries a selection from the shell extension to the window, and the COM
  objects around it: written once and read once by code for one system, with nothing
  beside it. The window's launches are in `Workspace`.
- The protocols of the window systems under a drag: proxies of XDND, UI Automation, AppKit.
- The questions and the console of the self-extractor.
- Figures of progress, parsing of options, patterns, printing, translations, fonts, themes,
  drawing, packaging and the build.
- Directory creation beyond its outcome; links in parent paths.
- Deaths of the process outside `ExtractionDir`, `BatchExtraction`, `SplitVolumes`,
  `CliOutput` and `Registration`: the rest keeps nothing on the disk that outlives it but
  temporary files of the system.
