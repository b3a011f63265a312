# A verification project for rankoder

rankoder watches a media library, decides which files are worth re-encoding to
HEVC, asks an operator to approve them in batches, encodes one file at a time,
swaps the encode into the library and keeps the original for a retention period.
This directory holds TLA+ modules translated from its source, the TLC
configurations that check them on small instances, and TLAPS proofs for every
size. Paths below are relative to the repository; `src/...` is its Rust source.

## 1. The system

| Component | State it keeps | Operations | Correct when |
| --- | --- | --- | --- |
| Media store (`src/store/`) | `media_files` rows with `workflow_state`, `events`, `retention_files`, in Postgres | compare-and-swap `transition`, `transition_batch`, `complete_transcode`; the unguarded `record_vmaf`, `requeue_quality_skips`, `recheck_quality_skips`; upserts and `reconcile_missing_files` | a row only moves along the workflow; a stale writer changes nothing |
| Transcode worker (`src/transcode/orchestrator.rs`) | the job in memory, `<id>.mkv` in the temporary directory | `process_file`: read, recover, encode, validate, size and quality gate, swap, commit | no original is lost, no encode is encoded again, rows tell the truth about the disk, every file is resolved |
| Swap and recovery (`src/transcode/swap.rs`, `recovery.rs`) | files in the library and in retention | two renames with rollback, copy instead of rename on `EXDEV`; four recovery outcomes | a swap cut short anywhere is completed or undone, never half taken |
| Transcode queue (`TranscodeOrchestrator::run`) | channel, `pending`, `inflight`, one permit, interval, tasks | biased `select!` of cancel, receive, tick, dispatch, join; drain | one encode at a time, no file twice, none forgotten |
| Workflow orchestrator (`src/workflow.rs`) | queue of ids, tasks | reads the row and acts on its state: probe, analyse, wake the feeder, send to the worker | each file advances once per event, whatever is duplicated or stale |
| Listener (`src/listener.rs`) | Postgres connection | `NOTIFY` to ids; catch-up after a failed connection | no active file is left without a later event |
| Prober, decision, encoder arguments (`src/probe/`, `src/analysis/`, `src/transcode/encoder.rs`) | columns of the row | pure functions | what is measured is what is read, decided on and passed to ffmpeg |
| Approval (`src/approval/mod.rs`) | `Notify` permit, nothing else | feeder `top_up`, `handle_response`, stale checker | the cap on pending batches holds, the feeder does not sleep through work, every pending batch is asked, an answer decides what was asked |
| Retention (`src/transcode/reaper.rs`, UI) | `retention_files` rows and files | reap by age, delete confirmed originals | only originals of good encodes go early, and row and file go together |
| Maintenance (`src/maintenance.rs`) | none | VMAF backfill, requeue of quality skips | scores belong to the encode they are stored for |
| Sync and scheduler (`src/sync.rs`, `src/scheduler.rs`, Jellyfin) | trigger `Notify`, interval | list the provider by pages, upsert in chunks, flag missing | a listed file is present, a vanished one missing; no trigger is lost |
| Reporter, MQTT, UI, HTTP, Radarr, Sonarr | high-water mark; connections | alerts, snapshots, requests and answers, actions | each failure is alerted once |

How they interact: everything goes through rows. A transition writes a row and
an event in one transaction; a trigger notifies; the listener sends the file's
id to the workflow orchestrator, whose task **reads the row again** and acts on
the state it finds: it probes or analyses (another transition), wakes the feeder,
or sends the id to the worker's channel. The feeder and the answers move batches
of rows. Several transitions (`recheck_quality_skips`, `requeue_quality_skips`)
write no event and count on the worker's periodic scan.

What is hard: state read before an await and used after it (everywhere); crashes
between two renames, between swap and commit, within a copy, between a removed
file and its row; notifications lost without an error; the same file named by
events, catch-up, scan and start-up at once; late and repeated answers; wake-ups;
bounded channels; a listing read page by page while the library changes.
`PROJECT.json` lists these as hazards, each at its line, with the property that
covers it or the reason why none does.

## 2. The modules

| Module | What it is |
| --- | --- |
| `AtomicSwap` | abstract specification: per file a phase and what the library shows; the replacement is one step |
| `Transcode` | the worker, swap, recovery and the rows, over a disk of named paths |
| `TranscodeQueue` | how ids reach the worker: start-up, workflow sends, select loop, tasks, crash |
| `Workflow` | abstract specification: the state machine of a file, and the two ways back |
| `MediaAnalysis` | pure operators: ffprobe's output, the row, the decision, ffmpeg's arguments |
| `Pipeline` | listener, catch-up, concurrent tasks per file, requeues; extends `MediaAnalysis`, implements `Workflow` |
| `Approval` | feeder, requests, answers, stale checker |
| `Retention` | worker, reaper, operator and backfill over the retained originals and their scores |
| `LibrarySync` | scheduler, paged listing, upserts, reconciliation, a library that changes |
| `TranscodeProofs`, `TranscodeQueueProofs`, `PipelineProofs`, `ApprovalProofs`, `RetentionProofs`, `LibrarySyncProofs`, `MediaAnalysisProofs` | theorems about the module named |
| `TranscodeSwapProofs` | what the rows of `Transcode` say of the disk, and the refinement of `AtomicSwap`; extends `TranscodeProofs` |
| `MCTranscode`, `MCTranscodeQueue`, `MCPipeline`, `MCApproval`, `MCRetention`, `MCLibrarySync` | instances for TLC, with their `.cfg` files |

The modules overlap where the components meet, each abstracting what another has
in detail: the swap is its two renames in `Retention` and may copy across filesystems in `Transcode`; the
worker is one step in `Pipeline` and `Approval`; the sync is two steps in
`Pipeline`; `TranscodeQueue` shows that ids reach the worker late, and
`Transcode` and `Retention` take that as `LateDispatch`. `Pipeline` extends `MediaAnalysis`, so
that where a task may take a file is what the decision computes.

### Transcode

`row[f]` is the part of the database row that matters (`state`, `path`, stored
score, whether a `transcode_failed` event exists, which retention files its
`retention_files` rows name). All states before transcoding are `waiting`.
`disk[f]` gives the content of each path of the file: `src` (an original not
named `<stem>.mkv`), `mkv` (`<stem>.mkv`, the final path), the names those two
get in retention, and the temporary file. Contents are `original`, `encode`,
`reencode` (an encode of something already encoded) and `partial` (truncated).
`job` is the local state of `process_file`; a crash loses it and nothing else.
`taken` are the files whose `.mkv` path another row has as its `file_path`: the sync
gives and takes it (`OtherRowTakes`, `OtherRowLeaves`), the column is unique, and the
commit of such a file fails every time (`CommitClashes`), which costs no fault.

Each operation is an action: `Dispatch`; the four outcomes of
`recover_stuck_transcode` (`RecoverNothing`, `RecoverCommit`,
`RecoverMarkFailed`, `RecoverRestore`); ffmpeg and the gates; `rename_or_copy`
as `Rename` or `CopyStarts`, `CopyEnds`, `CopyRemovesSource`, for the four moves
(restore, retain, install, roll back) and their failures; `record_vmaf`; the
three commits. ffprobe is external: it may fail on any file, and may pass what
`MayValidate` names, a truncated file included, since it reads the header.
`ExdevMoves` says which moves may cross filesystems, `LateDispatch` whether an
id may arrive after its row has left transcoding (`TranscodeQueue` shows that it
can). The notification of the media manager changes nothing here. Errors of
`TranscodeError` are all terminal on this path (`error.rs`, `is_terminal`),
apart from database errors.

`AtomicSwap` is refined by `phase <- row[f].state` and by `library`, which shows
the encode from the moment the final path holds it and retention holds the
original.

### TranscodeQueue

`row`, `events`, `sender` (a workflow task stopped between `find_media_file_by_id`
and `send`), `rx`, `pending`, `inflight`, `task`, `permit`, `due`, `scanned`.
Each arm of the `select!` is an action whose guard says that no earlier arm is
ready, as `biased` has it; the tick arm is two actions because it awaits the
scan, and the worker's task and the senders run in between. `TickEnqueues` takes
the rows in any order, as the query has none. Jobs are abstract here (`Commit`,
`LoseOutcome`, `End`); what they do is `Transcode`.

### Workflow, Pipeline and MediaAnalysis

`Workflow` is `WorkflowStateTag::next_on`: ten events, each from one state to one
state, plus the insertion of a row, `requeue_failed` and the recheck of skipped
files.

`Pipeline` keeps `state`, `missing` and the class of the last `transcode_failed`
event of each file; `mail` (notifications the connection holds), `queue` (ids in
the channel and in the orchestrator's `pending`), `probing` and `analyzing` are
counts per file, because the permit of `workflow.rs:74` is dropped with its
`select!` arm and bounds nothing: an event, a catch-up and a requeue put as many
tasks on a file. `Commit` is the store's compare-and-swap with its event and the
trigger's notification; `Stale` what a task that came second does. `Connect`,
`CatchUp`, `Receive`, `ListenerFails` are `run_listener`; `MailLost` is the
reconnection inside `PgListener::recv`, which drops notifications and returns no
error. `forgotten` is a ghost: the active files whose driver is known to be lost
(a lost notification, a row or result that could not be read or saved, a recheck
without an event, a file that was missing during a catch-up); a move, a
catch-up and, for transcoding files, `StaleTick` take a file out of it.
`RequeueFailed` and `RequeueOne` are `requeue_failed`, which reads a list and
moves its files one by one.

`MediaAnalysis` follows a file's numbers from ffprobe to ffmpeg: `Probe` (what
`mapping.rs` keeps and when it gives up), `SaveProbe` and `ReadRow` (the columns,
the `as i32` and `as u64` casts of the bitrate), `Decide` (each early return of
the decision in its order, `Bpp`, `Potential`, `Crf`), `BuildArgs`, `Detect`.
Floats are integers in thousandths, rounded down, and kilobits instead of bits,
so that TLC's 32-bit integers hold them; `IntRange` and `LongRange` are scaled
with them. A picture of less than a thousand pixels counts as one kilopixel, as
the rounding must not divide by zero where the program's floats do not. A text is
a number, absent, or `Unparsable`; `OutputType` and `PropertiesType` say what
ffprobe's JSON and `VideoProperties` may hold. `MCPipeline` enumerates
some 9600 outputs of ffprobe as initial states, on which the three properties of
`MediaAnalysis` are evaluated; the pipeline itself runs from one of them
(`Plain`), with every outcome any output may have (`ProbeLeadsTo`,
`AnalysisLeadsTo`).

### Approval

`row` per file, grouped in batches by `BatchOf`; a season is ready as a whole,
the query for movies gives a row per file (`ReadyKeys`). The feeder's round is
`TopUpCounts`, `TopUpFetches`, then for each key `TopUpAsks` and
`TopUpPublishes`, with an action for the failure of each query. `owed` holds
files whose event is still to wake the feeder; `Wake` uses the state the task
reads, not the event's, and the ghost `swallowed` remembers that one of this
round found its file moved on. `answers` holds answers under way, with `spent`
telling that the request they answer had been decided already; the code does not
know, which is the point of `DoubleSubmitIsNoOp`.

### Retention

`row` and `score` of each file, `table` (files with a row in `retention_files`),
`expired` (those past `retention_days`), `original` (in the library, retained or
gone), `installed` (which encode is at the final path), `displaced` (an encode in
retention). A score carries the encode it was measured on, which the column does not:
`ConfirmedIsVerified` is about the difference. The worker's steps keep the code's
order (measure, gate, two renames with their rollback, `record_vmaf` in a transaction
of its own, outcome), and each outcome is a compare-and-swap on transcoding.

With `LateDispatch` the worker takes up any row (`Starts`). What it does then follows
from the path the row names: for a row that is not done, the original's; for a done
row, the encode's, which it encodes again, moves to retention (`displaced`), replaces
and scores before the compare-and-swap fails. `SlotTaken` is whether that name in
retention is taken: the original and the encode have one name there only if the
original was an `.mkv` (`MkvFiles`), and then recovery takes the retained original
for that of an unfinished swap and measures nothing (`RecoverCommit`).

The reaper and the operator's action are two `Deleters` of one operation,
`reap_retention`: read a list, remove a file, delete its row, each a step, both at
once; any removal may fail. `BackfillMeasures` and `BackfillRecords` are the
backfill's; `Restart` chooses another `MIN_VMAF` and the flags of the start. Two
ghosts: `late`, the done files a late job displaced or scored, and `refused`, the
files one of whose removals failed.

### LibrarySync

`listed` is the provider's library; `known` and `shows` the rows of
`series_provider_refs` and of `series`, the second with the external ids of the draft
that made it (`Tmdb`, `Tvdb`, fixed per item); `path`, `missing`, `done` the rows; `seen`
the rows whose `last_seen_at` is not before the cutoff of the running sync.
`ReadPage` reads one page of one kind, by position, in a library that
`LibraryChanges` moves in between; the three listings run together. Series are written
first (`SyncSeries`): a draft is found by its tmdb id or its reference, or inserted, and
the insert fails its chunk and the sync if another row has the tvdb id
(`SeriesClashes`). `WriteChunk`
is one transaction of upserts; two conflicts decide what happens: on the
provider's id the row is updated, on the unique path the chunk fails
(`ChunkClashes`). `MovieUnreadable` fails the whole sync, an episode that does
not map is skipped. `Reconcile` flags what was not seen, unless nothing at all
was read. `CompleteTranscode` is the worker's commit, which moves a row to the
`.mkv` path. `owed` and `disturbed` are ghosts: a webhook not answered yet, and
the kinds that changed since this sync started.

## 3. What the runs check

| Run | Instance | Shows |
| --- | --- | --- |
| `transcode_rename` | 2 files (one not named `.mkv`, one an HEVC `.mkv`), one filesystem, quality gate, 2 faults | `OriginalKept`, `DoneIsSwapped`, `NeverReencoded`, `SkippedByGateIsUntouched`, `SwapIsNeverUndone`, liveness `TranscodingResolves`, refinement `ImplementsAtomicSwap` |
| `transcode_late` | the same with the install copied, late ids, no gate | `OriginalKept` and `DoneKeepsOriginal` survive |
| `transcode_exdev` | retention on another filesystem, 1 crash | **violated**: `OriginalKept` |
| `queue_loop` | 2 files, channel of 2, one preempted sender, 2 faults | `QueuedOnce`, `InflightIsExact`, `OneEncodeAtATime`, `StaleRequeueIsFresh`, `StalledIsRetried` |
| `queue_prompt` | the same without preempted senders | `DispatchedWhileTranscoding` |
| `queue_startup` | 3 stuck files, channel of 2 | **violated**: `StartupCompletes` |
| `approval_feed` | a season of two episodes and a movie, cap 2, one answer under way, 1 fault | `PendingWithinCap`, `NoLostWakeup`, `PendingIsAsked` |
| `approval_double` | a season of two episodes, two answers under way | **violated**: `DoubleSubmitIsNoOp` |
| `retention_window` | 2 files (one an `.mkv`), late ids, `MIN_VMAF` 0 or 1, scores 0 and 1, 2 encodes in all, 2 faults | `GoneIsReplaced`, `LeakedIsRefused`, `KeptInWindow`, `BackfillOnlyFills`, liveness `ExpiredIsReaped` |
| `retention_confirmed` | 1 file, 2 encodes, 1 fault | **violated**: `ConfirmedIsVerified` |
| `sync_converge` | 3 series (one is another under a new id, one shares only its tvdb id), 1 episode, 3 movies (one never maps), pages and chunks of 2, 1 change, 1 fault | `CalmSyncIsRight`, `NoTriggerLost`, `FlagsOnlyUnlisted`, liveness `ConvergesUnlessBlocked` |
| `pipeline_drive` | 1 file, 2 kinds of error, 1 requeue, 2 faults; the ffprobe outputs above | `ActiveIsDriven`, `ProbeFailureIsFinal`, liveness `MovesOn`, refinement `FollowsWorkflow`; `RowKeepsProbe`, `MoreBitsNeverSpared`, `ColourReachesEncoder` |

One run of each module also checks its `TypeOK`, and each property of a passing
run has a mutant: an operator of the module beside the one it changes, with the
bug a hand could make there, under which TLC finds the property violated.

The four violations disagree with what the repository says of itself:

* **A crash while the original is copied to retention loses it.** `swap.rs:24-25`
  says recovery tolerates a partly done copy. Recovery sees a retention file and
  no final file, concludes that the install is missing and moves the truncated
  copy over the original, which had not moved yet.
* **More stuck files than channel slots stop start-up.** `main.rs:196` sends
  before the receiver is spawned (`main.rs:205`); with more than 100 rows in
  transcoding, which one re-verify of all quality skips can leave, the process
  waits for ever. `main.rs:187-191` calls the loop merely redundant.
* **A second answer can decide files it was not about.** `approval/mod.rs:110-114`
  calls a double submit a logged no-op. If the feeder has meanwhile put other
  episodes of the season before the operator, under the same key, the second
  answer decides those.
* **A score of a discarded encode confirms the original for deletion.**
  `store/mod.rs:1402-1407` calls a confirmed original one whose encode is verified
  good. A skip for low quality stores the score of an encode that is thrown away,
  and nothing clears it when the file is encoded again. If the second encode cannot
  be measured, the worker goes on without a score; once `MIN_VMAF` is lowered to the
  first one's score, the original of an unmeasured encode is offered for deletion.

### Other disagreements met on the way

These have no run of their own; a property excepts each by name where it meets it.

* `README.md:46-47` promises that the periodic sync converges. A movie that does
  not map fails every sync. So does a re-import: after `complete_transcode` has
  moved a row from `.mp4` to `.mkv`, a provider that lists the new file under a
  new id conflicts with the unique path. So does a series: `find_or_create_series`
  looks for a row by tmdb id and by reference but inserts the tvdb id too, which is
  unique (`store/series.rs:60-71`, `4_series_tvdb.sql:5`); a series under a new id whose
  tvdb id is known and whose tmdb id is not fails this and every later sync. These are
  the three cases of `Blocked` in `ConvergesUnlessBlocked`.
* `orchestrator.rs:435-444`: the commit of an encode whose `.mkv` path another row
  holds (`1_init.sql:135`) fails, and so does every retry. The files are swapped, the
  row stays in transcoding with the old path, no failure is recorded and nobody is
  told, until that row moves elsewhere. `TranscodingResolves` excepts a file whose
  path is taken again and again.
* `README.md:125-128` says that under `MIN_VMAF=0` nothing is offered for
  deletion. `fetch_confirmed_originals` compares the score with zero: every
  scored original is.
* `README.md:100` says that approving frees a slot. `count_in_flight_batches`
  counts transcoding files, so a slot is freed when the batch is encoded or turned
  down.
* A wake-up of the feeder is lost in two cases, both excepted in `NoLostWakeup`:
  a workflow task finds the file of an event moved on (a re-verify between the
  event and the read) and wakes nobody; and a season in flight is asked again
  for new episodes, takes a slot and counts once. The slot stays free until the
  next event.
* `store/mod.rs:99-104` describes the class of a failure by its cause; `classify`
  goes by the first text found, so an encode whose ffmpeg output says "Permission
  denied" is filed as a failed swap (`Classify`, and the second of `MCErrors`).
* With an install across filesystems a truncated final file can pass the
  header-only validation and be committed (`DoneIsSwapped` fails there); with
  late ids a file resolved meanwhile can be swapped or encoded again
  (`NeverReencoded`, `SwapIsNeverUndone` and `DoneIsSwapped` fail), since
  `process_file` reads no state. `transcode_late` therefore checks none of these.
* A late id on a done row, besides: its encode is encoded again and moved to retention
  with no row naming it; the stored score is overwritten, by one that may lie below the
  bar, after a list of confirmed originals was read and before the original is removed;
  and a crash between the two renames leaves nothing at the path of a file whose
  original may be gone. If the original was an `.mkv`, the displaced encode has the
  name `reap_retention` was given, and a second deletion of a row takes it too.
  `GoneIsReplaced`, `KeptInWindow` and `BackfillOnlyFills` except the files in `late`,
  each no further than that.
* A colour found by an earlier probe stays in the row when a later one finds none
  (`insert_probe_data`), and a bitrate of 2^31 bits per second or more does not
  survive its column (a multiple of 2^32 makes the row unreadable on every read, so that
  no task finishes it); an incomplete light level drops the rest of the colour.
  `KeepsProbe` and `PassesColour` except these.
* `notification/mqtt.rs:46`: the task that alone drains rumqttc's request queue
  of 100 awaits a `subscribe` on it at every reconnection. If an outage filled the
  queue, it waits for itself; publishers wait behind it, and so does the drain of
  `main.rs:283`. This rests on rumqttc and is not modelled.

### Bounds

`MaxFaults` counts crashes, lost messages and database errors. Two are enough for
a fault during the recovery from a fault; the disk of a file has few states, and
a third fault starts from a state the first two reach. Where one fault is allowed
(`approval_feed`, `sync_converge`), each of its kinds leaves a state from which the
next round or sync starts afresh.

* Transcode and queue: two files let one file's job meet the other's requeue, and
  queue order matter; the worker never relates more. A channel of two fills up
  with two files plus a duplicate.
* Approval: the cap is the code's default, two (`config.rs:91`). With one slot a
  round asks at most one batch, and two of the module's behaviours cannot occur: a
  round with several keys, and a season asked again beside itself. Answers may be
  repeated any number of times one after another; `MaxAnswers` bounds those under
  way at once. Three files are a season of two and a movie of one; a movie with
  two files, whose rows count one by one, is left to the proofs.
* Transcode, besides: `taken` changes any number of times.
* Retention: two encodes, both of one file or one of each, so that a score may be of
  another encode than the one in place, and a late job makes the second of a done file
  while the deleters and the backfill hold lists with the other; two scores and two
  bars on either side of each other, zero among them; one file that was an `.mkv` and
  one that was not. Any removal may fail. About 607 000 states.
* Sync: pages and chunks of two with three movies give two pages and two chunks of
  one kind, which is where an item can slip from one page to the other; three series
  give two chunks, with the clash of tvdb ids within a chunk, across chunks and with a
  row of an earlier sync. The initial library is any, and one change adds, removes or
  moves an item while it is read. About 724 000 states.
* Pipeline: one file, since no action relates two but `CatchUp`, `StaleTick` and
  `requeue_failed`, which treat each by itself; tasks, ids and notifications of the
  file are not bounded but by what causes them. The proofs have any number of files.
* Analysis: bitrates are in kbit/s and `IntRange` is 4294968, so that 2147483
  fits the signed column and 2147484 does not, as 2^31 bit/s does not; `LongRange`
  is far smaller than 2^64 bit/s, but beyond every bitrate of the instance, which is
  all the conversion back needs. The proofs have every width.

### Fairness

* `Transcode`: `WF(JobStep)`, as the runtime polls a task that can run and
  ffmpeg ends; `SF(Dispatch(f))`, as the run loop hands out ids in FIFO order
  and the stale scan names every transcoding file again (checked in
  `queue_loop`).
* `TranscodeQueue`: weak fairness of start-up, of the loop as a whole, of the
  tasks, of the timer and of the restart (the service unit restarts the
  process). `SF(Dispatch)` and `SF(Join(f))`, because `biased` puts them after the
  tick, and ticks, 300 s apart, leave them time. No fairness for `Deliver` or
  `Send`: the liveness property must hold though no notification ever arrives.
* `Pipeline`: weak fairness of `Connect` (the listener retries every second),
  `CatchUp`, `Receive`, `Take`, and of the end of probes and analyses. None for
  the sync, the operator, the worker or its scan: `MovesOn` is about the states
  the orchestrator drives itself.
* `Approval`: weak fairness of the stale checker's timer. None for the operator,
  none for the feeder.
* `Retention`: weak fairness of the reaper's hourly tick, of the reaping it
  starts, and of the restart. None for the worker, operator or backfill.
* `LibrarySync`: weak fairness of the sync's own steps, which the scheduler
  awaits, and of the ticker (`Periodic`). None for webhooks.

Deadlock is not checked (`CHECK_DEADLOCK FALSE`): every one of these systems may
rest, with every file resolved or the operator silent, or with its bounds used up.

## 4. What is proved

All theorems are for every value of the constants that satisfies the module's
named assumption, which TLC evaluates in the runs. The assumptions say no more
than that the sets are finite where cardinalities are taken, that the kinds of
identifiers do not overlap and that the bounds are natural numbers. Those of
`MediaAnalysis` say besides what ffprobe may print (`OutputType`, bitrates of a
signed 64-bit integer) and that the column of the bitrate is signed and no wider
than half of what it is read back as.

**`TranscodeProofs`** proves, for any set of files, any `MaxFaults` and either
value of the switches:

* `TypeCorrect`: `Spec => []TypeOK`, one lemma per group of actions.
* `OriginalNeverLost`: `"retain" \notin ExdevMoves => (Spec => []OriginalKept)`.
  With late dispatches allowed and copied installs allowed; the assumption is
  exactly what `transcode_exdev` shows to be needed.

`OriginalKept` is not inductive: it does not say why a move may overwrite its
destination. `IInv` adds, by name:

* `NeverTwice`: of a file's original name and its name in retention, one is free;
* `TempIsNotOriginal`: the temporary file is never the original;
* `RetentionIsFree`: from the encode to the first move the retention path is free,
  because recovery came before;
* `FinalIsFree`: recovery restores only when the final path is free;
* `OriginalIsAway`: between the two renames neither the original path nor the final
  path holds the original, so the install and the rollback overwrite nothing of
  value and `OriginalKept` puts the original in retention;
* `OnlyInstallCopies`: by the assumption, a copy under way is an install.

`DestinationIsSafe` and `RenameDisk` then give that no move overwrites the only
original, and each action's lemma preserves the rest.

**`TranscodeSwapProofs`** relates the rows to the disk. Each theorem
states what it assumes of the moves and the dispatch:

* `NothingIsReencoded`: `~LateDispatch => (Spec => []NeverReencoded)`, for any
  `ExdevMoves`, copies cut short by a crash included. A late id encodes the encode.
* `DoneRowsAreSwapped`, `InstallIsFinal` and `WorkerImplementsAtomicSwap`:
  `DoneIsSwapped`, `SwapIsNeverUndone` and the refinement `Spec => AtomicSwap!Spec`,
  each under `OneFilesystem` (`ExdevMoves = {} /\ ~LateDispatch`). With a copied
  install a crash leaves half an encode that recovery commits, and a failure to
  remove the copied source takes back an install that was complete.
* `DoneRowsKeepTheirOriginal` and `GateSkipsLeaveTheOriginal`: `DoneKeepsOriginal`
  and `SkippedByGateIsUntouched` under `"retain" \notin ExdevMoves`, with late ids
  and copied installs, as in `transcode_late`.

All three arguments start from `RowInv`: a row names the original's path until it is
done and then the final path and the original's retention path (`RowNames`), the
job holds the path its row has (`JobPath`), and without late ids that row is in
transcoding (`JobTranscoding`).

* `EncodeInv` is about what may be an encode: neither the retention names nor the
  original's old name (`NoEncodeRetained`); where the final path is the original's
  own, an encode there has something in retention beside it, which is what
  `recover_stuck_transcode` looks for (`EncodeHasRetention`); so the source of the
  next encode is none (`SourceIsNoEncode`). `AwayHasRetention` carries this
  through the moves.
* `SwapInv` says that every file is in one of three shapes (`Shaped`): the original
  at home (`Before`), in retention with the final path free (`Between`), in
  retention with the encode in place (`After`). The job's position tells which
  (`JobKnowsShape`), a done row has `After` (`DoneIsAfter`), and what is installed is
  a whole encode (`TempIsWhole`). A step that changes a shape is one of the moves
  (`MovesRefine`); the install's is the atomic replacement, and the commit that
  follows, perhaps by the recovery of a later process, is the abstract commit
  (`RecordRefines`).
* `KeptInv` extends the `IInv` of `TranscodeProofs`: a file that is not done has its
  original at home with retention free, or in retention (`OpenIsPlaced`); a done one
  has it in retention, and a file at the final path that keeps a late job from
  restoring over it (`DoneIsKept`, `DoneMkvIsLeft`); what a job is about to commit
  is there (`OpenJobKeeps`), what it skips has nothing in retention
  (`SkipHasNoRetention`), because recovery ran first.

**`MediaAnalysisProofs`** proves of every set of outputs of ffprobe, column width
and configuration what `pipeline_drive` evaluates on some 9600 outputs:
`StoredProbeIsRead` (`RowKeepsProbe`), `BitsAreMonotone` (`MoreBitsNeverSpared`,
under `MinBpp <= MinBppHevc`, the order of the defaults in `config.rs`: a
configuration that turns it round means to spare less HEVC) and `ColourSurvives`
(`ColourReachesEncoder`). `IntRoundTrip` is the arithmetic of
the two casts: a positive bitrate comes back as itself exactly when it is below half
the column's range, and otherwise as another number or as a row that cannot be
read. `ProbeType` types what the probe keeps, so that none of it is mistaken for a
missing value (`RowIsRead`, `ProbeIsKept`). `BppMonotone` (the bits per pixel grow
with the bitrate, through a product and a rounded quotient) and `EncodesMeans` (the
decision's early returns as one condition) give `MoreBitsAreEncoded`. They hold in
every state of whatever specification, so the theorems have no invariant; what they
rest on is the type of ffprobe's output.

**`TranscodeQueueProofs`** proves `QueueTypeCorrect`, `NeverQueuedTwice`
(`QueuedOnce`), `InflightAlwaysExact` (`InflightIsExact`), `AtMostOneEncode`
(`OneEncodeAtATime`), `RequeueIsFresh` (the action property
`StaleRequeueIsFresh`) and `DispatchIsTimely`:
`Senders = {} => (Spec => DispatchedWhileTranscoding)`. With a preempted sender
the last is false: the assumption is the one of `queue_prompt`.

It starts with what `Append`, `Tail`, `\o` and `SetToSeqs` do to the elements of a
sequence and to the absence of repetition. The invariants need each other, and two
parts more, collected in `IInv`: `PermitOwned` (a free permit means that no task
runs, and all running tasks are one), without which nothing forbids a second
dispatch; and `ScanIsFresh` (during the awaited scan, a file that was read and is no
longer transcoding is in flight), which holds because only the loop joins tasks.
With the exactness of `inflight`, the gate of `enqueue_unique` then lets through
only files with no task. `DispatchIsTimely` adds `Prompt`: outside a drain an id in
the channel names a file that is transcoding or in flight. A file leaves
transcoding only through its task, whose file is in flight; it leaves `inflight`
only in the join arm, which the bias of the `select!` reaches with an empty channel.
In a drain tasks are joined over a full channel, but nothing is received or
dispatched any more.

**`PipelineProofs`** proves `TypeCorrect`, `NoFileLeftBehind` (`ActiveIsDriven`),
`ProbeFailuresStay` (`ProbeFailureIsFinal`) and `ImplementsWorkflow`, the refinement
`Spec => Flow!Spec`. Every step of the pipeline is shown to be a stutter or one
event of `Workflow`; what makes it so is the guard of `Commit`, whichever of the
tasks on a file gets there first. `ActiveIsDriven` is proved for all listener
states at once: with the listener down nothing is claimed, and between `LISTEN`
and the catch-up a file may be without a driver; `CatchUp` establishes it, and
every later step keeps it. `ProbeFailuresStay` needs `RequeueHasClass`: the list the
requeue works off names files with a `transcode_failed` event only. Of what the
analysis computes only the states it may lead to are used.

**`ApprovalProofs`** proves `TypeCorrect`, `NeverBeyondCap` (`PendingWithinCap`) and
`FeederNeverOversleeps` (`NoLostWakeup`) for any finite sets of files and batches.
The cap needs that the count the feeder starts from is no lower than the number of
pending batches (`BeforeInFlight`: a movie with a pending file has a file in
flight of its own), that a round holds keys only while it asks (`RoundsClear`), and
that asking trades one key for one batch at most. The wake-up needs an invariant
of the round, `RoundCovers`: what the round leaves out is in flight already
(`InFlight` plus what it still has to ask reaches the cap), or it leaves nothing
out (`Ready` is within its keys), or something comes later (`Late`). `Late`
outlives every step but the feeder's own awakening (`StepsBeforeLate`), and asking
about a batch raises `InFlight` by at least as much as it takes from the keys
(`AskSeasonCounts`, `AskMovieCounts`). The first of these is where the second
exception of `NoLostWakeup` comes from: a season already in flight does not count
again.

**`RetentionProofs`** proves `TypeCorrect`, `NothingGoneUnreplaced`
(`GoneIsReplaced`), `OnlyRefusedLeak` (`LeakedIsRefused`),
`NoneGoesEarlyUnconfirmed` (`KeptInWindow`) and `BackfillScoresInPlace`
(`BackfillOnlyFills`), with late ids or without. `IInv` has the two
invariants and: `Stopped` (a process that is down holds nothing), `JobInPlace` (a job's
step agrees with the disk and the row: after its first rename the original is retained,
or the row was done and the file is in `late`), `DoneIsReplaced` (a
done file's original has left the library, and its encode is in place, or displaced by a
late job), `ListIsDone` (what a deleter holds is done: done rows never leave that
state), `ListIsDue` (and the reaper's is expired, the operator's at the bar still, or
a late job worked on it), `FileFirst` (a row about to be deleted has lost its file
already, or its removal failed) and `BackfillUnscored` (what the backfill holds is
done, and without a score unless a late job gave it one).
`PunctualIdsKeepEncodes` shows that these exceptions come from late ids and nothing
else: `~LateDispatch => (Spec => []OneJobEach)`, where `OneJobEach` says that `late` is
empty, that no encode is in retention and that every done file has its encode in place
(`NeverLate` is the conjunct of `IInv` it rests on).

**`LibrarySyncProofs`** proves `TypeCorrect` (the unique path among it),
`NoTriggerIsLost` (`NoTriggerLost`), `OnlyUnlistedIsFlagged` (`FlagsOnlyUnlisted`)
and `CalmSyncLeavesRowsRight` (`CalmSyncIsRight`). That no two series share an
external id is part of the types, and `SyncSeriesKeeps` shows why: what a chunk inserts
has a tmdb id of its own, by the lookup, and a tvdb id of its own, or the chunk fails. The invariants beyond the types
are `ReadAsListed` (of a kind that stood still, what was read is what is listed, and
the pages still to read hold the rest), `DraftsWritten` (a draft no longer left is
seen and present, and at the path read if its kind stood still) and `CalmSyncIsRight`
itself.

TLC checked the inductive invariants of `TranscodeProofs`, `TranscodeQueueProofs` and
`TranscodeSwapProofs` before they were proved, on the instances of
`transcode_late`, `queue_loop` and `queue_prompt`, and for `TranscodeSwapProofs` also
on those of `transcode_rename` and `transcode_exdev`, each with the assumption of its
theorem; of the other modules the runs check the properties that make them up.

Every invariant, action property and refinement a passing run checks is thereby
stated by a theorem. Only model-checked: liveness (`TranscodingResolves`,
`StalledIsRetried`, `MovesOn`, `PendingIsAsked`, `ExpiredIsReaped`,
`ConvergesUnlessBlocked`), which needs ENABLED and is beyond this prover. That the
assumptions of the theorems are needed is shown by TLC, not proved.

## 5. Plan

Done: worker and swap; queue; approval; retention; pipeline and analysis; sync; and
a proof module for each.

Left, in order of worth:

1. The reporter's high-water mark, with ids assigned before commit.
2. The composition of `Pipeline` and `Approval`: an episode whose driver is lost
   keeps its season from being ready.
3. Safety lemmas the liveness properties rest on, as far as they are invariants: that
   what each waits for is never disabled for good.

## 6. Not modelled

* The status reporter: it writes no row. Its hazard (an id assigned before the
  commit of a transaction that commits later) is listed.
* The MQTT connection, HTTP, tokens, pages, redirects, and the queries that only
  feed pages and reports.
* The refresh sent to Radarr and Sonarr, which changes nothing here.
* Rows of seasons, episodes and movies, and the titles and ratings of series, which
  `LibrarySync` has with their external ids only; fields of the row no other component reads.
* Time, except as timers that fire; clock skew between host and database
  (`sync.rs:40`).
* A task that reads a row, and saves its analysis after the file was requeued and
  probed again with another result: the compare-and-swap accepts it, as it looks
  at the state only. `Pipeline` has the step; that the analysis is of the older
  probe is not told apart.
* Parsing of text, formatting, fixed command lines; configuration and wiring.
* A panic of the worker's task, which would leave its id in `inflight`
  (`orchestrator.rs:179`): nothing on its path panics.
