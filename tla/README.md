# A verification development for CUTMACHINE

CUTMACHINE is a non-linear video editor for macOS: a document of timelines edited
by typed operations, saved as a package of several files, driven by its own
interface, by a command line and by tools for language models (MCP). This
directory holds TLA+ models of the parts of it where a mistake is hard to see in
a test, TLC configurations that check them on small instances, and TLAPS proofs
of the most important properties for every instance.

Paths such as `Cli.cc` are files of the repository's `src/` directory.

## 1. Inventory

| Part | State it keeps | Operations | What is hard | What makes it correct |
|---|---|---|---|---|
| Artifact transaction (`Cli.cc`: `CommitArtifacts`, `RecoverTransaction`) | canonical files, `.bak`, `.tmp`, the journal `.cutmachine-transaction` | commit, recover, remove leftovers | a stop between any two calls, unsynchronized directory entries, failing calls in the middle of a rollback | all the files of one generation, never a mixture |
| Session lock (`ProjectStorage.cc`: `ProjectSessionLock`) | directory `<project>.lock`, its file `owner` | `Acquire`, `Release` | processes that stop, race for a stale lock, run on another machine | one holder, only stale locks are broken, no lock stays for ever |
| Media task manager (`MediaTaskManager.cc`) | queue, task states, two condition variables | `Enqueue`, `Cancel`, `CancelAll`, `WaitForIdle`, destructor, `WorkerLoop` | lost wake-ups, cancel racing the end of a work, completions outside the mutex | no task lost, run twice or completed twice; everybody wakes up |
| Project storage (`ProjectStorage.cc`, `Project.cc`) | project, manifest, timelines, logs of a package | create, load, commit, verify, collect | which artifacts belong to a generation, what is removed | the manifest names exactly what is there |
| Edit history (`EditLog.cc`, undo in `main.mm`, commands in `Cli.cc`) | one log per timeline, one project log of snapshots | apply, undo, redo, across two logs and several processes | snapshots that predate later edits, logs that are not loaded | undo and redo give back exactly the states passed through |
| Autosave (`ProjectRecovery.cc`) | autosave file beside the project | write, inspect, load, discard | a stop between autosave, commit and discard | an autosave never hides a newer save |
| Editing operations (`Operations.cc`, `Document.cc`, `Timeline.cc`) | tracks, clips, links, transitions, markers, bins | some fifty operations and their inverses | long sequences of legal operations, undone and redone; what files keep of them | undo and redo exact, locked tracks untouched, every frame is the one the edit means |
| Timeline interaction (`TimelineView.cc`) | selection, drag, preview | pointer events, cut, range, source edits | the preview and the drop computed apart; an edit in the middle of a drag | the drop does what was shown; linked clips stay together |
| Speech cleanup (`PauseTightening.cc`, `BoundaryAir.cc`, `Transcription.cc`, tools of `McpTools.cc`) | envelope, words | tighten, trim, close, remove | three grids that do not line up; words that share frames; stale snapshots | no speech is cut; picture and sound in step |
| Decode worker, frame cache (`DecodeWorker.cc`, `FrameCache.cc`, `MediaSource.mm`) | pending request, decoder position, frames within a budget | request, fill, evict, reload | a request that replaces another in flight; pictures whose times are not those of the frames; eviction at the limit; a stop in the middle of a fill | the newest request is served; a fill keeps its window; a reload ends and shows nothing old |
| MCP tools (`McpTools.cc`, `McpLiveBackend.cc`, `HttpServer.cc`) and chat (`ChatSession.cc`) | a document reference, a socket loop, a conversation | tool calls on the main thread from other threads | everybody waiting on everybody; bounded loops; a commit that fails after the edit | every turn ends; a limit leaves a well-formed conversation; nothing is open that is not stored |
| Command line (`Cli.cc`) | none: loads, edits, saves | `--apply-op`, `--undo-*`, `--ingest`, ... | runs beside the application without the session lock | no save is lost |
| Other views, rendering, signal analysis, recognition, ingest, export, sidecar | views, GPU resources, buffers | | signal processing, platform frameworks, file formats | not modelled, see section 7 |

The parts meet in the package directory. The application and `--mcp-serve` take the
session lock when they open a project; every save, theirs and the command line's,
goes through `CommitTextArtifactsAndRemove` and so through `CommitArtifacts`; every
load first calls `RecoverTextArtifactTransaction`. Inside the application the main
thread owns the document; the task manager's workers, the decoder, the HTTP server
and the chat run on their own threads and come back to the main queue.

`PROJECT.json` lists, under `hazards`, what can go wrong in this code that a test
would hardly reach, line by line, with the property that watches for it or the
module of the plan that will.

## 2. Modules

| Module | Models | Kind |
|---|---|---|
| `AtomicGeneration` | what a save promises (`SAVING_ROADMAP.md`, invariants 1 to 3) | abstract specification |
| `ArtifactTransaction` | `CommitArtifacts`, `RecoverTransaction`, `RemoveTransactionLeftovers` | specification |
| `ArtifactTransactionProofs`, `RecoveryProofs` | the theorems about it | proofs |
| `SessionLock` | `ProjectSessionLock` | specification |
| `SessionLockProofs` | the theorems about it | proofs |
| `MediaTaskManager` | `MediaTaskManager` | specification |
| `MediaTaskManagerProofs` | the theorems about it | proofs |
| `ProjectHistory` | the handlers of `main.mm` that change and save a project, `EditLog`, `ProjectEditLog`, `ProjectRecovery`, `CommitStoredProjectAndLogs`, the editing commands of `Cli.cc` | specification |
| `ProjectHistoryProofs` | the theorems about it | proofs |
| `Document` | `DocumentClip`, the lookups, `Document::Validate` | operators |
| `Operations` | `ApplyOperation` and every `Apply...` function, the inverses, the locks | operators |
| `JournalFormat` | `SerializeOperation`, `DeserializeOperation` | operators |
| `Timeline` | `Timeline::ResolveTrack` and `ResolveTrackLayers` | operators |
| `DocumentFile` | `Document::SaveToString`, `LoadFromString` | operators |
| `EditSession` | `EditLog` over these operations, as the tools of `McpTools.cc` submit them | specification |
| `TimelineInteraction` | `TimelineInteraction` and the gestures of `TimelineView.cc` | specification |
| `Cleanup` | the speech tools: `PauseTightening.cc`, `BoundaryAir.cc`, parts of `SpeechOnset.cc`, `Transcription.cc` and `McpTools.cc` | specification |
| `CleanupProofs` | the theorems about it | proofs |
| `MediaSource`, `FrameCache` | the pictures of an open file and the frames they count as; `FrameCache` | operators |
| `DecodeWorker` | `DecodeWorker`, the playback calls of `main.mm` | specification |
| `DecodeWorkerProofs` | the theorems about them | proofs |
| `AgentTools` | `ChatSession`, `ChatPanelView.mm`, `McpLiveBackend`, `McpServer`, `McpProjectBackend`, `HttpServer` | specification |
| `AgentToolsProofs` | the theorems about it | proofs |
| `MC...` | instances for TLC | model checking |

`ArtifactTransaction` is the detailed form of a save; `AtomicGeneration` is what it
promises, and `ProjectHistory` uses that promise: there a save is one step that stores
the whole generation or nothing. `EditSession`, `TimelineInteraction` and `Cleanup` are three
ways to edit one document and share `Operations`: what a drag, a tool and an undo do to
the clips is defined once. `AgentTools` abstracts those edits to markers, because it asks
which thread edits which timeline and what is stored, not what a trim computes.

### ArtifactTransaction

One action per system call that can fail or after which the machine can stop.
`file[a]` is what processes see of artifact `a` (its canonical file and its backup);
`images[a]` is the set of states of it that a stop may leave, which grows with
every change and shrinks to the visible state at a successful `SyncDirectory`.
`marker` and `markerImages` are the same for the journal. Nothing is assumed about
the order in which the file system writes back entries of different files. The
contents of a file are the number of the transaction that wrote them: `WriteFile`
synchronizes the descriptor before it closes it, so a file is never half written.
`existed`, `backedUp`, `committed` are the flags of `struct CommitArtifact`; `pc` is
the position in the code; `mode` says whether `RecoverTransaction` was called by a
reader or by a commit. A temporary is kept only as a flag: its name has the nonce of
its transaction and no other transaction reads it.

History variables: `current` is the generation a correct reader must get, which
changes when the removal of the journal is synchronized, or when a stop before that
finds the removal durable; `ignored` records the two failures the code ignores and
should not (end of section 5).

A stop that tears one pass of `RemoveTransactionLeftovers` in the middle is covered:
what is not deleted stays as an image, and `kept` lets any subset stay.

### SessionLock

One action per system call, any number of processes and hosts. `remove_all` is
`unlink(owner)` followed by `rmdir`. The metadata reach the file at `close`; a file
that is open and not closed yet is empty, and `ReadLockOwner` rejects it. `Acquire`
begins with `Release()`: in the model a process that holds the lock takes its
`Release` action before its next `Acquire`. A process may stop at any point (`Exit`),
and its PID is not used again.

### MediaTaskManager

One action per critical section of `mutex_`, one per call made outside it. `asleep` is
the set of threads blocked on a condition variable; only a notification (or the
timeout) takes a thread out of it, so that a lost notification shows as a task that
never runs. Spurious wake-ups are not modelled: they could only hide a lost one.

### ProjectHistory

`state` is `AppState`: `project`, `active` (`activeTimelineId`), the focused `document`, its
journal `log` (`editLog`), the journals of all timelines (`timelineEditLogs`), the project
journal `plog` (`projectEditLog`), `domain` (`lastHistoryDomain`); `pending` is the timeline
a handler is about to create or to show. `disk` is the durable package, `autosave` the
recovery envelope beside it with the result of comparing its date with the project's.
`outcome` is what the last save of the application returned.

One action per handler, its saves included. The two handlers that save twice
(`createTimelinePressed`, `createTimelineFromSelectedMedia`, followed by
`activateTimelineIdentifier`) are two actions joined by `pending`, because a stop may fall
between them. Every save goes through `Save`: refused by `ValidateTimelineLogs`; done, with
the autosave discarded or left; failed, with the autosave written or not; or stopped at
any of these points. The commands load, change and commit in one step, and they run only
when the constant `Commands` lets them: while the application is closed, while it is open,
or both; the undo and the redo of a timeline are tools of `--mcp-serve`, which holds the
session lock, and run only while it is closed. Two commands at once are left to the
plan.

Data: every value a user gives is a token that is used once. A timeline has one track
and its contents are the set of edits made to it, so an edit that is lost or comes back
shows as a set that differs from the one its journal leads to. A timeline operation is
*exact* when it records the tracks before and after (`exact_track_result`) and compact
otherwise; a project operation always records the project before and after
(`SetExactProject`). The library stands for rushes, sources and proxies; `placement` for
the places of timelines in bins. Imports and finished proxies enter the document with no
operation, as in the code.

History fields, which no guard reads: `rewound` is the set of timelines whose edits an
undo or a redo of the project journal replaced; `base`, in an autosave, is the generation
it was made from.

### Document, Operations, Timeline, DocumentFile, JournalFormat

Operators only. A document is a record of tracks, transitions, markers, caption styles,
multicam groups, bins and media; a clip has its source, its place, its link and what it
carries (effects, audio gain and fades, opacity, caption). A time is a number of frames of
one rate: `RationalTime` computes in 128 bits and throws out of range, and conversions
between rates are left out. Identifiers are numbers drawn from `next`, as `GenerateUlid`
draws: never twice. `ApplyX(d, op)` is the function of the same name in `Operations.cc`; it returns a
refusal, or the new document, the operation as it is logged (with the result it
recorded, the `exact_...` fields of the code) and its inverse. `ApplyOperation` looks at
locks first (`LockedTrackTouchedBy`), then dispatches, and keeps only a valid document
(`ValidateResult`, which a compound also asks of each of its steps). `SaveToString` is modelled
by what it keeps: a field that equals its default is not written, a missing field is read
as the default of the reader.

`JournalFormat` is the JSON of the journals. The code writes and reads each kind of operation by
hand, and the reader takes the members of an object in one order only. Here an object is
the sequence of its members: `SerializeOperation` gives that sequence, `DeserializeOperation` reads
it with a grammar per kind (what must come, what may come, what is an array of objects or
a nested operation) and returns `ParseError` when the next member is not the one expected. A
member that is written under a condition, read as optional, or given a default when it is
absent is so in the model; a recorded track loses its audio gain and fades on the way.
The grammars are taken from `DeserializeOperation` and the member lists from
`SerializeOperation`, independently. Texts, times and identifiers stand for what is
written of them: escaping, number formats and white space are left out.

### EditSession

`doc`, `applied` and `undone` are the document and the two lists of `EditLog`; each entry also
remembers, for the properties, the documents around it. For each tool of `McpTools.cc` that
submits an operation there is the set of operations it can submit (`InsertClip`,
`RippleTrim`, ...), its arguments chosen among the clips, tracks and positions there are;
`Edit` applies and logs one of them (`EditLog::Apply`). The other actions are `Undo`, `Redo`, and
`Reload`, which writes the journal (`WriteEntries`) and the document and goes on with what a later
session reads; a journal that cannot be read is not opened. `ReopenedAsLeft` therefore compares
the document, and every operation of the journal, with what the files give back. A plan
says which kinds of operations the first and the second edit may be, so that every kind
meets every kind that prepares for it (locks, cuts, links) within the bound.

### TimelineInteraction

`selected`, `drag` and `preview` are the members of `TimelineInteraction`; a preview keeps the
operation it tried, what it drew, and the document it was drawn from. A pixel is the
choice of a frame; snapping only chooses another one. `PointerUp` applies `PendingOperation`,
which the code builds again from the preview. `ExternalEdit` is a tool of the live
backend, which does not look at drags. Cuts, range deletions, the ripple deletion of the
selection and edits from the source monitor are one action each.

### Cleanup

`levels` is the envelope of `SpeechOnset`, `words` the transcript after
`NormalizeTranscriptWords`. A call takes its snapshot (`Call`), and the step that resolves it
applies an operation to the document as it is by then: between the two the user may trim
(`UserTrim`), as between two blocks of `MainThreadBackend`. Frames, analysis windows and
decoder ticks keep three different sizes. Decibels are a table of three levels. A behaviour
starts from one of `Cases`; `CasesAssumption` asks of each that windows are numbered, that words
have times, and that its document is `Tidy`: finitely many tracks, clips with the fields and
identifiers of their own, all drawn before `next`. What the tools compute one after the other
(words placed, fragments kept, clips cut, trims of a compound) is written as functions on `0..n`
and orders as ranks, so that the proofs can unfold them.

### MediaSource, FrameCache and DecodeWorker

A file is the sequence of the times of its pictures, in ticks of its time base, and a frame lasts
`Ticks` of them at the file's average rate. A seek to a frame finds the first picture at its time or
later (`DecodeFrame`), and a picture counts as the frame `FrameIndexForPts` rounds its time to: at a
variable rate a frame may have no picture, two pictures may count as one frame, and what is stored
is not always the frame asked for. `Files` says what each source may be opened from; `Offline`, no
pictures, is a source that could not be opened, at the start or by a reload. A thread remembers the
picture its decoder stands after (`at`) beside `nextSequentialFrame_` (`next`).

The cache is the least recently used list with the bytes of its frames and its budget.
`ask[s]` is what `RequestFrame` and `Stop` leave under the mutex of the worker of source `s`, `thread[s]`
where its thread is: one action per frame decoded or per critical section. `Turned` is the
estimate of direction and speed. The main thread asks layer by layer (`calls`), presents
at each refresh, and reloads: `BeginReload`, `Stop` and `Join` per worker, then `Reopen` per source,
which clears it from the cache and starts its decoder while the sources reopened before already
decode, and `Resume`, which asks for the position again. Two history variables: `excuse`, the
decoder failed on the request or the cache pushed its picture out; and `stale`, the frames in the cache that
were decoded from files a reload has replaced.

### AgentTools

`queue` is the main dispatch queue; `turn` is the background queue of the panel with its
position in `SubmitUserMessage` and in the tool, waiting or not for its block; `server` is the
accept thread. `stored` is what was committed, `open` the document and journal of the
window. `RunEdit` applies, persists and, when the commit fails, restores both from the
project, as the callback in `main.mm` does. Every commit may fail, once.

## 3. Runs

| Run | Instance | Shows |
|---|---|---|
| `transaction` | 3 artifacts in 2 directories, 2 commits, 2 faults, 2 stops | `TypeOK`, `Recoverable`, `LoadedIsCommitted`, `JournalResolved`, and `ArtifactTransaction` implements `AtomicGeneration` |
| `lock` | 3 processes, 2 on one host, 4 directories, 1 fault | `Exclusive`, `StaleOnly` |
| `lock_stolen` | 3 processes, no fault | violation, section 5 |
| `tasks` | 2 tasks, 2 workers, 2 clients | `CancelHonoured`, `QueueConsistent`, `EveryTaskEnds`, `NobodyWaitsForever` |
| `history` | the application, 2 timelines, 3 tokens, 1 fault | `DisplayedIsDurable`, `JournalsDescribeUnlessRewound`, `OfferedAutosaveIsNewer` |
| `history_commands` | with commands while it is closed, 1 timeline and 1 to add, 2 tokens, project journals of 2 entries | `TypeOK`, `JournalsDescribeUnlessRewound` |
| `edits` | 2 shots, linked sound, a caption, 5 frames, 2 edits: a lock, cut or link and then any of 24 kinds of edits of clips, or two of 28 kinds of settings | `UndoRestores`, `RedoReproduces`, `ReopenedAsLeft`, `LockedTrackUntouched`, `FramesFollowTheEdit` |
| `gestures` | 2 linked shots and a third track, 4 trim modes, 1 edit | `DropDoesWhatWasShown`, `LinkedDragKeepsSync`, `GestureFrames` |
| `playback` | 1 source of 5 frames in a file of constant rate, of variable rate, one that ends early, or offline; a cache of 4, 3 seeks, 1 reload, 1 fault | `RequestServed`, `ReloadEnds`, `NoStaleFrame`, `DecodesInRange`, `WindowCached` |
| `agents` | window or server, 3 timelines, 2 turns of 2 rounds, 1 step of the user, 1 fault | `NothingUnsaved`, `EveryToolAnswered`, `PanelShowsItsSession`, `TurnEnds`, `ServerStops` |
| `cleanup` | 2 interviews of 7 frames and music, 1024 envelopes, 4 transcripts, 1 or 2 calls | `PausesKeepSpeech`, `WholeClipAirKeepsSpeech`, `SecondPassFindsNothing`, `OtherWordsSurvive`, `PictureAndSoundInStep`, `SyncTracksFollow` |
| `tightened_then_trimmed` | the same, 2 calls and no user | violation, section 5 |

Configurations kept outside the runs, each violated when it is run by hand: `MCLockWedged`
(`NeverWedged`), `MCUndoAcrossJournals` (`JournalsDescribeTimelines`), `MCTimelineRefused`
(`SavesAreAccepted`), `MCProjectHistoryForgotten` (`ProjectHistoryKept`), `MCCommandBesideSession`
(`NoOtherSaveReplaced`), `MCSameSource` (`RequestServed`), `MCReverseSpins` (`DecoderRests`),
`MCTargetEvicted` (`TargetStays`), `MCStrictTimeline` (`EditsNameTheirTimeline`). Section 5 says what each shows.

Why the bounds are enough. Two commits let leftovers and the journal of the first
one meet the second; two stops let a recovery be interrupted and resumed; two
faults let a rollback fail inside a commit that failed; three artifacts in two
directories give an artifact beside the journal before and after one that is not.
For the lock, three processes are the owner that stopped and two that race for what
it left. For the tasks, two workers race for two tasks while one client cancels and
waits and the other enqueues or destroys. For the histories, three tokens are a change
of the project, an edit undone and the edit that follows it; two timelines let one of
them be edited while the other's journal is only carried along; one fault is enough for
an autosave to be left behind and met by everything that follows. `MaxHistory` bounds the
project journal only where commands change the active timeline without using a token.
For the edits, the second edit meets what the first prepared: a lock, a cut, a link, or
an item of a list; undo, redo and reload are not bounded. For the gestures, every
document an edit leaves is met at rest, where range and source edits are tried with all
their arguments; a drag meets one foreign edit. For the playback, three seeks give a
direction and its reversal; the cache holds the window of three frames and one more, and is smaller
than the source, so that a new position evicts; the file of variable rate has a frame with two
pictures, one with none and one whose picture comes early. Two turns of two
rounds cut a conversation and start another after it. For the cleanup, ten windows of two
ticks against frames of three give every phase of one grid on the other, and all
envelopes of speech and silence are tried. The proofs of section 4 remove the bounds for
the properties they cover.

The lock and the task manager may stop for good (every process is gone, the manager
is destroyed); so do gestures, agents and cleanup when their bounds are used up. These
runs do not check deadlock, the others do.

Symmetry is used for interchangeable processes of one host and for the tokens of
`ProjectHistory`, whose runs have safety properties only.

Fairness. `ArtifactTransaction!FairSpec`: a running call goes on, and the project is
opened again (`WF` of the steps and of `BeginLoad`); the faults and stops are finite
in number, which stands for a fault that does not last for ever.
`MediaTaskManager!FairSpec`: every thread goes on, every work returns; no client is
obliged to call anything and no timeout has to expire. `DecodeWorker!Spec`: every thread
that can run goes on and the display refreshes; nobody has to seek. `AgentTools!Spec`: the
threads and the main queue go on and a request to the model ends, by its timeout of 120
seconds if need be; no user acts, and no client has to send: `ServerStops` therefore
excepts a client that holds its connection in silence.

Each property of a passing run has a mutant in `PROJECT.json`: a plausible bug
(marked "Mutant" in the module, just before the definition it replaces) that
makes TLC find it violated.

## 4. Theorems

All proofs are checked by TLAPS, for every value of the constants that satisfies the
assumptions named in the modules (`ConstantsAssumption`, `AbsentAssumption`, `LockConstants`,
`HistoryConstants`, `ManagerConstants`, `CacheAssumption`, `PlaybackAssumption`, `GridAssumption`,
`CasesAssumption`, and those of `Document` and `AgentTools`): any number of artifacts, directories,
commits, faults, stops, processes, hosts, timelines, values, journal entries, tasks, workers,
clients, sources, frames, turns and tools, any envelope, transcript, document, frame rate and
analysis grid.
The assumptions say of what kind a constant is (a number, a finite set, a value outside
another set); the bounds `Max...` are arbitrary numbers.

- `ArtifactTransactionProofs!TypeCorrect`: `Spec => []TypeOK`. It needs `ControlInv`
  (what `i`, `existed`, `backedUp` and the journal are at each position), because a
  rename of a backup is only defined where there is one.
- `RecoveryProofs!RecoverableHolds`: `Spec => []Recoverable`, and
  `RecoveryProofs!LoadedIsCommittedHolds`: `Spec => []LoadedIsCommitted`. `Recoverable` speaks of
  every subset of unsynchronized entries and is far from inductive. The invariant
  `IInv` says which of three situations the disk is in at each position. *Quiet*:
  every image has the committed canonical files, and no journal that may be found
  would change that. *Journaled*: one durable journal, which undoes whatever was
  done. *Deciding* (between the removal of the journal and its synchronization):
  every image is the new generation, and the journal, if it is found, undoes it.
  `NonceInv` adds that no backup or journal bears the nonce of a commit that has not
  published its own yet, so that a backup left by an earlier commit is never taken
  for one of the current journal. One lemma per action (`...Data`), one per helper.
- `RecoveryProofs!RefinesAtomicGeneration`: `Spec => ImplementsAtomicGeneration`. The abstract store
  is mapped to `NextReader`, what a recovery would give the next reader. `ReaderIs` computes it
  from `IInv`: the committed generation, or the new one once the journal is gone and its
  removal is not synchronized yet. So only the removal of the journal, its synchronization
  and a stop change it, and `StepRefines` shows each of the other steps to leave the abstract
  state alone. The steps after an ignored failure (`ignored`, section 5) are excepted, as they
  are in the property.
- `SessionLockProofs!ExclusiveHolds`: `Spec => []Exclusive`, and `StaleOnlyHolds`:
  `Spec => StaleOnly`. The invariant `LockInv` holds until a removal of a stale lock hits
  another directory than the one that was read (`misfired`): the creator of the
  directory is the only process between its `mkdir` and its `Release`, and every
  process that removes a stale lock has seen an owner of its own host that is gone.
- `ProjectHistoryProofs!TypeCorrect`: `Spec => []TypeOK`. `TypeOK` is inductive here and says
  more than types: what is durable, in the autosave and in the session is a valid
  project with exactly one journal for each of its timelines. `StoredType` shows it for
  what a save stores, whatever part of the journals it is given.
- `ProjectHistoryProofs!OfferedAutosaveIsNewerHolds`: `Spec => []OfferedAutosaveIsNewer`,
  commands beside the application included.
- `ProjectHistoryProofs!DisplayedIsDurableHolds`: `Spec => []DisplayedIsDurable`, provided no
  command runs while the application is open (`"open" \notin Commands`; the configuration
  `MCCommandBesideSession` shows why). `CommitKept` is the heart of it: a handler whose next
  session shows exactly what it gives to `Save` keeps both properties whatever `Save`
  returns; there is one lemma per handler (`...Kept`) that checks this of the session the
  handler stages, and one per command.

- `ProjectHistoryProofs!JournalsDescribeUnlessRewoundHolds`:
  `Spec => []JournalsDescribeUnlessRewound`, with commands at any time. The property is about
  what is durable; the invariant `SoundInv` says it of everything a save may make durable: the
  package, the autosave and the open session. A compact undo takes out of the timeline the
  token its edit brought in, which is right only if no other edit brought it in: `Sound` adds that
  a project and its journals hold used tokens only, so a new edit is always about a new one.
  `Coherent` ties the document and the journal the session shows to its project.
- `MediaTaskManagerProofs!OneHolderOfATask`: `Spec => [](TypeOK /\ WorkerInv /\ ClientInv)`. Every running
  task has exactly one worker, and a worker or a client about to call a completion is the only
  thread that holds the task, which has ended with no completion called: the worker that took it
  from the queue, or the client whose `Cancel` did.
- `MediaTaskManagerProofs!QueueIsConsistent`, `CancelIsHonoured`: `Spec` implies the invariance of
  `QueueConsistent` and `CancelHonoured`. That a completion is called once rests on
  `OneHolderOfATask`; `Lists` says that the queue holds exactly the queued tasks, each once, and
  `TaskInv` what a state says of completions and accepted cancellations.
- `AgentToolsProofs!NothingIsUnsaved`, `EveryToolIsAnswered`, `PanelIsOfItsSession`: the invariance of
  `NothingUnsaved`, `EveryToolAnswered` and `PanelShowsItsSession`. Three invariants are kept
  together. `DocumentsInv`: the applied and the undone operations of a journal are one history
  in which a marker is added once and removed at most once, later; this is why an undo or a
  redo gives what replaying the journal gives. `PanelInv`: the blocks waiting in the main queue
  are of the panel's session, and the one that ends the turn is the last. `MessageInv`: while
  the tools of an answer run, the results so far and the uses left make up what was asked.
- `DecodeWorkerProofs!FramesAreInRange`: `Spec => []DecodesInRange`. The frame about to be decoded
  was computed several steps before from the request, the direction and the window.
  `AskInv`, `FillOK` and `CacheInv` carry the bounds along: a request that was not taken is for a
  frame of the source; a fill starts at 0 or later and ends in the source, and may be empty; the
  decoders registered in the cache are finitely many, so the window is a number. That the
  last hole of a reverse fill exists (`MaxOfHoles`) comes from the well-foundedness of the
  naturals.
- `DecodeWorkerProofs!NoFrameOfReplacedFiles`: `Spec => []NoStaleFrame`. A frame stored late is the
  danger: a thread decodes without the lock, and the cache is shared by all sources. The
  invariant (`StaleInv`) says that a stale frame is one of a source still to be reopened, that a
  source joined and not yet reopened has its thread ended, so that it stores no further frame,
  and that outside a reload no source is left to join or to reopen.
- `CleanupProofs!PausesKeepTheSpeech`: `Spec => []PausesKeepSpeech`, and
  `CleanupProofs!WordsThatStaySurvive`: `Spec => []OtherWordsSurvive`. The invariant says of the last edit
  of a tool that whatever it took off a track lies in its ranges (`EditOK`), and of these ranges that
  they are clear of the frames of speech (`PauseInv`), or of the words that stay (`WordInv`), as the
  snapshot showed them. `CallOK` carries the snapshot from `Call` to the edit, while the user trims.
  The first part is about `RemoveWords` on any tidy document: the kept fragments of a clip hold every
  frame outside the ranges (`FragmentsAre`), splicing one clip leaves the others (`SpliceIs`), and so
  does splicing them all (`SpliceAllIs`). The second is arithmetic of two grids (`CutIsSilent`:
  rounding up at the head and down at the tail stays inside the silent windows), and what
  `NormalizeTranscriptWords` leaves: words in order that share no frame (`Ordered`), whatever the
  decoder emits. Where two decoded words share a frame, normalization gives it to the earlier one, and
  it goes with that word.
- `CleanupProofs!SecondPassSettles`: `Spec => []SecondPassFindsNothing`. `AirInv` says it of the last
  edit, and `AirKept` carries it to later states. `RippleTrimEffect` gives what a ripple trim that
  succeeds does to every clip of any tidy document; `TwoParts` takes a compound apart into its trims;
  `Settled` shows that a clip without the frames `HeadTrim` and `TailTrim` take still measures the same
  speech, because no trim reaches into it, and so has nothing left to trim, at the ends of the clip or
  on either side of the junction (`Closed`). At a junction the first trim must not take hold of the
  other clip as well; that is what `OnePerTrack` in the property is needed for (`NotLinked`), and where fragments of one clip break it the run
  `tightened_then_trimmed` shows the harm.

Induction over the length of a list is not available as a theorem with an operator parameter; the
proofs of `CleanupProofs` take the least counterexample instead (`LeastOf`, from the well-foundedness of
the naturals), once for the existence of each recursive function and once for what it preserves.

Only model-checked, and why:

- `WindowCached`: it needs the budget to hold the window that 70 % of it gives, with the frame asked for,
  summed over a list whose order the fills change at every step.
- `EveryTaskEnds`, `NobodyWaitsForever`, `RequestServed`, `ReloadEnds`, `TurnEnds`, `ServerStops`,
  `JournalResolved`: liveness under fairness is out of the prover's reach.
- `WholeClipAirKeepsSpeech`, `PictureAndSoundInStep` and `SyncTracksFollow` do not hold of every tidy
  document: they need linked clips that are aligned and tracks without overlaps, as those of
  the instances are. That every operation keeps a document so is what `Validate` and the
  construction of link groups provide, over operations `Cleanup` does not have.
- The properties of `EditSession` and `TimelineInteraction`: they quantify over some fifty kinds of
  operations, whose results are folds, filtered and sorted sequences of clips (`FoldLeft`, `SelectSeq`,
  `SortClips`), and over the round trip of each through `JournalFormat`. Each kind would need its own
  proof of what it touches and of what its inverse restores, as `RippleTrim` and `RemoveWords` have in
  `CleanupProofs`.

## 5. Where the code and what is said of it differ

Two runs expect a violation:

- `lock_stolen`. Two processes find the same stale lock. The first removes it and takes
  the lock; the second, which had read the old owner, removes the new lock and
  takes it too (`ProjectStorage.cc:603-606`).
- `tightened_then_trimmed`. The fragments `tighten_pauses` makes of a clip keep its link group
  (`Operations.cc:3981`), and `LinkedBoundaryClipIds` takes a whole group (`BoundaryAir.cc:236`). The
  air of one fragment is trimmed from all of them, into the speech of the others.

The configurations outside the runs show:

- `MCLockWedged`. A process that stops between `create_directory` and the end of the
  write of `owner` leaves a lock that every later `Acquire` refuses as invalid
  (`ProjectStorage.cc:599`), whereas a comment of `main.mm:3203` says a lock whose process is
  gone never wedges the next open.
- `MCUndoAcrossJournals`. A timeline is moved to a bin, Cmd+Z takes that back, the timeline
  is edited, Cmd+Shift+Z. The timeline journal has nothing to redo, so the redo goes to
  the project journal (`main.mm:8922-8926`) and restores the whole project from before
  the edit. The timeline has lost the edit, its journal still lists it as applied, and
  both are saved. `SAVING_ROADMAP.md` asks that the project and its journals "appartiennent à
  la même génération logique".
- `MCTimelineRefused`. `createTimelinePressed` saves the project with a new timeline and the
  journals of the session (`main.mm:5965`), which have none for it yet; `ValidateTimelineLogs`
  refuses the autosave, and with it the save. `--apply-project-op` creates the journal and
  succeeds. `docs/PROJECT_SPEC.md` says that `Cmd+Option+N` creates a timeline.
- `MCProjectHistoryForgotten`. `--apply-op`, and the undo and redo tools of `--mcp-serve`, commit a
  project journal they did not load (`Cli.cc:2197`): the undo of earlier project
  operations is gone.
- `MCCommandBesideSession`. The commands take no session lock. What one commits while the
  application has the project open is replaced by the application's next save.
- `MCSameSource`. A position with two layers of one source, as in a dissolve between two parts of
  a shot, asks one worker for two frames; the second request replaces the first
  (`main.mm:4655`), and the first layer stays on a neighbouring frame. `README.md:202-206` describes
  such dissolves as rendered alike in the player and in the export.
- `MCReverseSpins`. Backwards over a file of variable rate, the window holds a frame that has no
  picture. `FillReverseAhead` takes it for a hole and decodes the chunk that ends there; the next
  picture counts as a later frame, the hole is still there, and the loop decodes the same
  chunk again, until another request or a stop comes (`DecodeWorker.cc:275-335`).
- `MCTargetEvicted`. A request for a cached frame asks `Contains`, which does not touch it
  (`DecodeWorker.cc:151`). After a change of direction it may be the frame used longest ago, and the fill around
  it evicts it before the next refresh; asking for it again is no request. `RESULTS.md:89-92` leaves
  30 % of the budget for the frame displayed.
- `MCStrictTimeline`. With the preference that every edit names its timeline, the chat
  panel's edits need not: `MainThreadBackend` does not forward `SelectTimelineForEdit`
  (`ChatPanelView.mm:149-279`). `README.md:485-496` describes the preference for all tools.

The passing runs show that these are the only ways: `Exclusive` holds with the theft
excluded, `WholeClipAirKeepsSpeech` for clips that are not fragments,
`JournalsDescribeUnlessRewound` of every timeline that no
undo or redo of the project journal touched, and `DisplayedIsDurable` without commands
beside the session.

Some properties are stated around what the code does. Where that leaves a hazard of `PROJECT.json`
without a property, its note says so:

- `UndoRestores` and `LockedTrackUntouched` except `SplitClipAtPositions` and `RemoveWords`, which
  change a locked track that only a linked clip reaches; such an edit can then not be undone
  (`docs/NLE_TIMELINE_SPEC.md:74` asks that locks hold).
- After a reload, undo and redo agree up to audio gain and fades: `WriteExactTracks` does not
  write them, so undoing an edit of an earlier session resets them (`ROADMAP.md:226`).
- `Exclusive` and `StaleOnly` say nothing after a theft, which is when the comparison of tokens in
  `Release` matters (`ProjectStorage.cc:628`).
- `JournalsDescribeUnlessRewound` excepts the timelines an undo or redo of the project journal replaced.
- `RequestServed` asks for a picture as near to the frame asked for as a seek finds, and excuses a
  decode that fails, a source that is offline and an eviction before the next refresh.
- `DropDoesWhatWasShown` speaks of a drag whose document nobody edited meanwhile: a tool's
  edit does not cancel a drag.
- `NothingUnsaved` says the document goes back when the commit of a live edit fails; the tool
  has already answered `"ok":true` (`McpLiveBackend.cc:71`).
- `ServerStops` excepts a silent client: `Stop` joins a thread that reads without a timeout.

Met while modelling, and not stated as properties: undoing the removal of a track or of a
bin brings it back at the end of its list, not at its place; a track added with `locked` set
cannot be removed by its undo; an overwrite that cuts a clip with effects in two would give
both pieces the same effect identifiers and is refused; a transition may be longer than one
of its clips (`docs/NLE_TIMELINE_SPEC.md:165`).

Two failures are outside `Recoverable` and `LoadedIsCommitted`, because the code ignores them
and goes on; the variable `ignored` records them. `RecoverTransaction` ignores a
`RemoveIfPresent` that fails on a file that did not exist before (`Cli.cc:359`), then drops
the journal: a reader would get the old generation with one file of the new one. And
`CommitArtifacts` ignores a failure to write the journal again (`Cli.cc:492`) and rolls back
without one: a stop in that rollback would leave a mixture. `WaitForIdle` may return before
the completion of the last task was called (`MediaTaskManager.cc:216-218`); the model has
this order, and no property speaks against it.

## 6. Plan

In order:

1. `SharedPackage`: `SessionLock` and `AtomicGeneration` composed with processes that take the
   lock and commands that do not, several at once. Property: no acknowledged save is lost,
   and the recovery of one process does not roll back the commit of another.
2. `AudioPlayback`: the render callback against `PlayFrom`, `ScrubAt` and `Stop`, load by load and
   store by store. The callback compares the generation and then stores the cursor, the
   remaining scrub and the direction, so that a seek in between is overwritten.
3. `InterviewShort`: `create_interview_short`, which cuts at words of the timeline's transcript.
4. `PackageStorage`: which artifacts a save writes and removes; verification and
   collection of a package.
5. Proofs: `UndoRestores` kind by kind, starting from the operations recorded by `Edited`, whose
   inverse is right as soon as the edit touched the tracks it names only (`RippleTrimEffect` is the
   first of these lemmas); `DropDoesWhatWasShown`, which rests on what a trim by nothing and a move to
   the same place leave.

## 7. What is not modelled

Rendering, colour, the recognizer, and the signal processing that makes the speech envelope,
beats, shot quality and waveforms are numerical code over samples and pixels; ingest, export
and media sources are calls into platform frameworks and file formats; the views other than
the timeline keep no project state beyond what `ProjectHistory` models; the JSON and ULID code is
parsing and formatting. The Python sidecar and the Resolve plug-in call the command line from
outside. The reuse of a PID by an unrelated process, file systems that lose synchronized data, and
spurious wake-ups are left out of the models above. In `ProjectHistory`, batches of project
operations, an autosave that does not parse, and an integrity warning that the user answers by not
opening the project are left out: none of them changes what is durable in a way the
modelled actions do not. In `Operations`, rates other than the sequence's, keyframes and effect
parameters are left out; in `TimelineInteraction`, pixels and snapping; in `AgentTools`, the texts of
the conversation; in `DecodeWorker` and `MediaSource`, pictures without a time.
