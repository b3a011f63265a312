------------------------------ MODULE Transcode ------------------------------
(***************************************************************************)
(* One transcode worker: TranscodeOrchestrator::process_file with the      *)
(* recovery, encode, gates, swap and commit it runs, over the media_files  *)
(* rows and the files on disk, with crashes between any two steps.         *)
(*                                                                         *)
(* The worker is the only writer of the disk, and Semaphore(1) makes it    *)
(* one job at a time (module TranscodeQueue checks that).  Everything      *)
(* before the transcoding state is collapsed into one row state, waiting.  *)
(***************************************************************************)
EXTENDS Naturals

CONSTANTS
    Files,         \* media_files rows
    MkvFiles,      \* files whose original is already named <stem>.mkv
    HevcFiles,     \* files whose original is already HEVC
    ExdevMoves,    \* the moves rename(2) may refuse with EXDEV
    QualityGate,   \* MIN_VMAF > 0
    LateDispatch,  \* an id may reach the worker after its row left transcoding
    MaxFaults      \* bound on crashes plus database errors

ASSUME TranscodeAssumption ==
    /\ MkvFiles \subseteq Files
    /\ HevcFiles \subseteq Files
    /\ ExdevMoves \subseteq {"retain", "install"}
    /\ QualityGate \in BOOLEAN
    /\ LateDispatch \in BOOLEAN
    /\ MaxFaults \in Nat

VARIABLES
    row,    \* the database row of each file
    disk,   \* what each path of each file holds
    job,    \* the running process_file, volatile
    taken,  \* files whose final path is the file_path of another row
    faults  \* crashes and database errors so far

vars == <<row, disk, job, taken, faults>>

-----------------------------------------------------------------------------
(* Paths.  "src" is the original name when it is not <stem>.mkv, "mkv" is  *)
(* <stem>.mkv, "retSrc" and "retMkv" are the names those two get in the    *)
(* retention directory, "tmp" is <id>.mkv in the temporary directory.      *)

Paths == {"src", "mkv"}
Retentions == {"retSrc", "retMkv"}
Slots == Paths \union Retentions \union {"tmp"}

Retained(p) == IF p = "src" THEN "retSrc" ELSE "retMkv"
Final == "mkv"

Contents == {"none", "original", "encode", "reencode", "partial"}
Scores == {"none", "low", "high"}
RowStates == {"waiting", "transcoding", "done", "skipped", "failed"}

Rows == [state : RowStates, path : Paths, vmaf : Scores,
         failedBefore : BOOLEAN, kept : SUBSET Retentions]

MovePcs == {"restore", "retain", "install", "rollback"}
JobPcs == MovePcs \union {"recover", "encode", "gates", "record", "commit", "skip", "fail"}
Stages == {"rename", "copying", "copied"}

Jobs == [pc : JobPcs, file : Files, path : Paths, vmaf : Scores,
         outcome : {"commit", "skip"}, stage : Stages]
NoJob == [pc |-> "idle"]

TypeOK ==
    /\ row \in [Files -> Rows]
    /\ disk \in [Files -> [Slots -> Contents]]
    /\ job \in Jobs \union {NoJob}
    /\ taken \subseteq Files
    /\ faults \in 0..MaxFaults

Init ==
    /\ row = [f \in Files |->
                [state |-> "waiting",
                 path |-> IF f \in MkvFiles THEN "mkv" ELSE "src",
                 vmaf |-> "none", failedBefore |-> FALSE, kept |-> {}]]
    /\ disk = [f \in Files |-> [s \in Slots |->
                IF s = (IF f \in MkvFiles THEN "mkv" ELSE "src")
                THEN "original" ELSE "none"]]
    /\ job = NoJob
    /\ taken = {}
    /\ faults = 0

-----------------------------------------------------------------------------
(* Helpers *)

Exists(f, s) == disk[f][s] # "none"

\* Whether ffprobe can report the file as HEVC of the expected duration.  It
\* reads the container header, so a truncated copy of an encode can pass; that
\* it can also fail on any file is a choice of the actions that validate.
MayValidate(f, s) ==
    \/ disk[f][s] \in {"encode", "reencode", "partial"}
    \/ disk[f][s] = "original" /\ f \in HevcFiles

Encoded(content) ==
    CASE content = "original" -> {"encode"}
      [] content \in {"encode", "reencode"} -> {"reencode"}
      [] content = "partial" -> {"partial"}
      [] OTHER -> {}

SetRow(f, r) == row' = [row EXCEPT ![f] = r]
Put(s, content) == disk' = [disk EXCEPT ![job.file][s] = content]
DropTemp == Put("tmp", "none")

Goto(pc) == job' = [job EXCEPT !.pc = pc, !.stage = "rename"]
At(pc) == job.pc = pc

DbError ==
    /\ faults < MaxFaults
    /\ faults' = faults + 1

-----------------------------------------------------------------------------
(* The pipeline before and around the worker *)

\* Discovered -> ... -> Transcoding: probe, analysis (which writes a fresh
\* spec, without a score) and the batch approval.
Accept(f) ==
    /\ row[f].state = "waiting"
    /\ Exists(f, row[f].path)
    /\ SetRow(f, [row[f] EXCEPT !.state = "transcoding", !.vmaf = "none"])
    /\ UNCHANGED <<disk, job, taken, faults>>

\* The analysis turns the file down and leaves an earlier spec alone, or the
\* operator does, after the analysis has written a fresh one.
TurnDown(f) ==
    /\ row[f].state = "waiting"
    /\ Exists(f, row[f].path)
    /\ \E score \in {row[f].vmaf, "none"} :
          SetRow(f, [row[f] EXCEPT !.state = "skipped", !.vmaf = score])
    /\ UNCHANGED <<disk, job, taken, faults>>

ProbeFails(f) ==
    /\ row[f].state = "waiting"
    /\ SetRow(f, [row[f] EXCEPT !.state = "failed"])
    /\ UNCHANGED <<disk, job, taken, faults>>

\* The operator's requeue: only rows with a transcode_failed event qualify.
RequeueFailed(f) ==
    /\ row[f].state = "failed"
    /\ row[f].failedBefore
    /\ SetRow(f, [row[f] EXCEPT !.state = "waiting"])
    /\ UNCHANGED <<disk, job, taken, faults>>

QualitySkips(scores) == {f \in Files : row[f].state = "skipped" /\ row[f].vmaf \in scores}

BackToTranscoding(S) ==
    /\ S # {}
    /\ row' = [f \in Files |->
                 IF f \in S THEN [row[f] EXCEPT !.state = "transcoding"] ELSE row[f]]
    /\ UNCHANGED <<disk, job, taken, faults>>

\* The operator's re-verify ignores the stored score; the start-up flag trusts it
\* and runs before the worker does.
RecheckQualitySkips == BackToTranscoding(QualitySkips({"low", "high"}))
RequeueQualitySkips == job = NoJob /\ BackToTranscoding(QualitySkips({"high"}))

\* The sync gives another row the path of this file's future encode, by an
\* insert or by a new path, or moves that row elsewhere.  (The row of a file
\* that vanished from the library keeps its path.)
OtherRowTakes(f) ==
    /\ f \notin taken /\ row[f].path # Final
    /\ taken' = taken \union {f}
    /\ UNCHANGED <<row, disk, job, faults>>

OtherRowLeaves(f) ==
    /\ f \in taken
    /\ taken' = taken \ {f}
    /\ UNCHANGED <<row, disk, job, faults>>

-----------------------------------------------------------------------------
(* process_file: read the row, then recover *)

\* find_media_file_by_id: the row's state is not looked at.
Start(f) ==
    /\ job = NoJob
    /\ job' = [pc |-> "recover", file |-> f, path |-> row[f].path,
               vmaf |-> "none", outcome |-> "commit", stage |-> "rename"]
    /\ UNCHANGED <<row, disk, taken, faults>>

Dispatch(f) ==
    /\ row[f].state = "transcoding" \/ LateDispatch
    /\ Start(f)

\* Mutant: the retention file of an earlier run is not looked for.
RecoverNothing_Unchecked ==
    /\ At("recover")
    /\ Goto("encode")
    /\ UNCHANGED <<row, disk, taken, faults>>

RecoverNothing ==
    /\ At("recover")
    /\ ~Exists(job.file, Retained(job.path))
    /\ Goto("encode")
    /\ UNCHANGED <<row, disk, taken, faults>>

\* Mutant: a retention file alone is taken for a completed swap.
RecoverCommit_Unvalidated ==
    /\ At("recover")
    /\ Exists(job.file, Retained(job.path))
    /\ Goto("commit")
    /\ UNCHANGED <<row, disk, taken, faults>>

RecoverCommit ==
    /\ At("recover")
    /\ Exists(job.file, Retained(job.path))
    /\ Exists(job.file, Final)
    /\ MayValidate(job.file, Final)
    /\ Goto("commit")
    /\ UNCHANGED <<row, disk, taken, faults>>

\* Mutant: a failed validation after the swap is recorded as a skip.
RecoverMarkFailed_AsSkip ==
    /\ At("recover")
    /\ Exists(job.file, Retained(job.path))
    /\ Exists(job.file, Final)
    /\ Goto("skip")
    /\ UNCHANGED <<row, disk, taken, faults>>

RecoverMarkFailed ==
    /\ At("recover")
    /\ Exists(job.file, Retained(job.path))
    /\ Exists(job.file, Final)
    /\ Goto("fail")
    /\ UNCHANGED <<row, disk, taken, faults>>

\* Mutant: the original is restored even when the encode was installed.
RecoverRestore_Always ==
    /\ At("recover")
    /\ Exists(job.file, Retained(job.path))
    /\ Goto("restore")
    /\ UNCHANGED <<row, disk, taken, faults>>

RecoverRestore ==
    /\ At("recover")
    /\ Exists(job.file, Retained(job.path))
    /\ ~Exists(job.file, Final)
    /\ Goto("restore")
    /\ UNCHANGED <<row, disk, taken, faults>>

-----------------------------------------------------------------------------
(* transcode_file: encode and gates.  ScopedTemp removes the temporary file *)
(* on every early return.                                                   *)

EncodeOk ==
    /\ At("encode")
    /\ \E out \in Encoded(disk[job.file][job.path]) : Put("tmp", out)
    /\ Goto("gates")
    /\ UNCHANGED <<row, taken, faults>>

FfmpegFails ==
    /\ At("encode")
    /\ DropTemp
    /\ Goto("fail")
    /\ UNCHANGED <<row, taken, faults>>

ValidationFails ==
    /\ At("gates")
    /\ DropTemp
    /\ Goto("fail")
    /\ UNCHANGED <<row, taken, faults>>

SizeGateSkips ==
    /\ At("gates")
    /\ MayValidate(job.file, "tmp")
    /\ DropTemp
    /\ Goto("skip")
    /\ UNCHANGED <<row, taken, faults>>

QualityGateSkips ==
    /\ At("gates")
    /\ QualityGate
    /\ MayValidate(job.file, "tmp")
    /\ DropTemp
    /\ job' = [job EXCEPT !.pc = "record", !.vmaf = "low", !.outcome = "skip"]
    /\ UNCHANGED <<row, taken, faults>>

GatesPass ==
    /\ At("gates")
    /\ MayValidate(job.file, "tmp")
    /\ \E score \in {"none", "high"} \union (IF QualityGate THEN {} ELSE {"low"}) :
          job' = [job EXCEPT !.pc = "retain", !.vmaf = score]
    /\ UNCHANGED <<row, disk, taken, faults>>

-----------------------------------------------------------------------------
(* Swapper::atomic_swap and rename_or_copy *)

MoveFrom == IF job.pc = "retain" THEN job.path
            ELSE IF job.pc = "install" THEN "tmp" ELSE Retained(job.path)
MoveTo == IF job.pc = "retain" THEN Retained(job.path)
          ELSE IF job.pc = "install" THEN Final ELSE job.path

AfterMove == CASE At("restore") -> "encode"
               [] At("retain") -> "install"
               [] At("install") -> IF job.vmaf = "none" THEN "commit" ELSE "record"
               [] At("rollback") -> "fail"

\* Restoring and rolling back go between the directories retaining goes between.
MayExdev == (IF At("install") THEN "install" ELSE "retain") \in ExdevMoves

\* atomic_swap refuses to overwrite a file other than the original.
DestinationTaken == /\ At("retain")
                    /\ job.path # Final
                    /\ Exists(job.file, Final)

DropTempAfterRollback(d) ==
    IF At("rollback") THEN [d EXCEPT ![job.file]["tmp"] = "none"] ELSE d

Rename ==
    /\ job.pc \in MovePcs /\ job.stage = "rename"
    /\ ~DestinationTaken
    /\ Exists(job.file, MoveFrom)
    /\ disk' = DropTempAfterRollback(
                 [disk EXCEPT ![job.file][MoveTo] = disk[job.file][MoveFrom],
                              ![job.file][MoveFrom] = "none"])
    /\ Goto(AfterMove)
    /\ UNCHANGED <<row, taken, faults>>

CopyStarts ==
    /\ job.pc \in MovePcs /\ job.stage = "rename"
    /\ MayExdev
    /\ ~DestinationTaken
    /\ Exists(job.file, MoveFrom)
    /\ Put(MoveTo, "partial")
    /\ job' = [job EXCEPT !.stage = "copying"]
    /\ UNCHANGED <<row, taken, faults>>

CopyEnds ==
    /\ job.pc \in MovePcs /\ job.stage = "copying"
    /\ Put(MoveTo, disk[job.file][MoveFrom])
    /\ job' = [job EXCEPT !.stage = "copied"]
    /\ UNCHANGED <<row, taken, faults>>

CopyRemovesSource ==
    /\ job.pc \in MovePcs /\ job.stage = "copied"
    /\ disk' = DropTempAfterRollback([disk EXCEPT ![job.file][MoveFrom] = "none"])
    /\ Goto(AfterMove)
    /\ UNCHANGED <<row, taken, faults>>

\* An I/O error at any stage of the move, or the refusal above.  A failed copy
\* leaves the truncated destination behind.
RestoreFails ==
    /\ At("restore")
    /\ Goto("fail")
    /\ UNCHANGED <<row, disk, taken, faults>>

RetainFails ==
    /\ At("retain")
    /\ DropTemp
    /\ Goto("fail")
    /\ UNCHANGED <<row, taken, faults>>

InstallFails ==
    /\ At("install")
    /\ Goto("rollback")
    /\ UNCHANGED <<row, disk, taken, faults>>

RollbackFails ==
    /\ At("rollback")
    /\ DropTemp
    /\ Goto("fail")
    /\ UNCHANGED <<row, taken, faults>>

-----------------------------------------------------------------------------
(* process_file: record the outcome.  Each is a compare-and-swap on         *)
(* transcoding; a stale row or a database error ends the job unrecorded.    *)

RecordVmaf ==
    /\ At("record")
    /\ SetRow(job.file, [row[job.file] EXCEPT !.vmaf = job.vmaf])
    /\ Goto(job.outcome)
    /\ UNCHANGED <<disk, taken, faults>>

RecordVmafFails ==
    /\ At("record")
    /\ DbError
    /\ Goto(job.outcome)
    /\ UNCHANGED <<row, disk, taken>>

CompareAndSwap(new) ==
    /\ job' = NoJob
    /\ IF row[job.file].state = "transcoding"
       THEN SetRow(job.file, new) ELSE UNCHANGED row
    /\ UNCHANGED <<disk, taken, faults>>

PathClashes == job.file \in taken /\ row[job.file].state = "transcoding"

\* Mutant: the path of the temporary file is committed.
CompleteTranscode_TempPath ==
    /\ At("commit")
    /\ ~PathClashes
    /\ CompareAndSwap([row[job.file] EXCEPT !.state = "done", !.path = "tmp",
                          !.kept = @ \union {Retained(job.path)}])

CompleteTranscode ==
    /\ At("commit")
    /\ ~PathClashes
    /\ CompareAndSwap([row[job.file] EXCEPT !.state = "done", !.path = Final,
                          !.kept = @ \union {Retained(job.path)}])

\* The UPDATE breaks the unique file_path and the transaction is rolled back.
CommitClashes ==
    /\ At("commit")
    /\ PathClashes
    /\ job' = NoJob
    /\ UNCHANGED <<row, disk, taken, faults>>

ApplySkipped ==
    /\ At("skip")
    /\ CompareAndSwap([row[job.file] EXCEPT !.state = "skipped"])

\* Mutant: a terminal error is treated as transient and not recorded.
ApplyFailed_Transient ==
    /\ At("fail")
    /\ job' = NoJob
    /\ UNCHANGED <<row, disk, taken, faults>>

ApplyFailed ==
    /\ At("fail")
    /\ CompareAndSwap([row[job.file] EXCEPT !.state = "failed", !.failedBefore = TRUE])

OutcomeLost ==
    /\ job.pc \in {"commit", "skip", "fail"}
    /\ DbError
    /\ job' = NoJob
    /\ UNCHANGED <<row, disk, taken>>

-----------------------------------------------------------------------------
\* The process dies and is restarted: the job is gone, rows and files stay.
\* A running ffmpeg leaves a truncated temporary file.
Crash ==
    /\ DbError
    /\ job # NoJob
    /\ IF At("encode") THEN Put("tmp", "partial") ELSE UNCHANGED disk
    /\ job' = NoJob
    /\ UNCHANGED <<row, taken>>

Pipeline ==
    \/ \E f \in Files : \/ Accept(f)
                        \/ TurnDown(f)
                        \/ ProbeFails(f)
                        \/ RequeueFailed(f)
                        \/ OtherRowTakes(f)
                        \/ OtherRowLeaves(f)
    \/ RecheckQualitySkips \/ RequeueQualitySkips

Recover == RecoverNothing \/ RecoverCommit \/ RecoverMarkFailed \/ RecoverRestore
Encode == EncodeOk \/ FfmpegFails \/ ValidationFails \/ SizeGateSkips
             \/ QualityGateSkips \/ GatesPass
Move == \/ Rename \/ CopyStarts \/ CopyEnds \/ CopyRemovesSource
        \/ RestoreFails \/ RetainFails \/ InstallFails \/ RollbackFails
Record == \/ RecordVmaf \/ RecordVmafFails
          \/ CompleteTranscode \/ CommitClashes
          \/ ApplySkipped \/ ApplyFailed \/ OutcomeLost

JobStep == Recover \/ Encode \/ Move \/ Record

Next ==
    \/ Pipeline
    \/ \E f \in Files : Dispatch(f)
    \/ JobStep
    \/ Crash

Spec == Init /\ [][Next]_vars

\* The run loop hands out the queued files in FIFO order and the runtime keeps
\* polling a task that can run: each step of a job, and each file's turn, comes.
Fairness == WF_vars(JobStep) /\ \A f \in Files : SF_vars(Dispatch(f))

FairSpec == Spec /\ Fairness

-----------------------------------------------------------------------------
(* Properties *)

Media == Paths \union Retentions

\* No sequence of encodes, failed moves, crashes, restarts and requeues
\* destroys an original: a complete copy is always at one of the file's media
\* or retention paths.  (swap.rs, recovery.rs; the reaper is not part of this
\* module.)
OriginalKept == \A f \in Files : \E s \in Media : disk[f][s] = "original"

\* A done row tells the truth about the disk: its path holds a whole encode of
\* the original, and its one retention row names the path of the original.
\* (complete_transcode commits what atomic_swap did, possibly in a later run.)
DoneIsSwapped ==
    \A f \in Files : row[f].state = "done" =>
        /\ row[f].path = Final
        /\ disk[f][Final] = "encode"
        /\ \E s \in Retentions : row[f].kept = {s} /\ disk[f][s] = "original"

\* Whatever reaches the worker, and however late, a done row keeps naming a
\* complete original: what the reaper will delete, and nothing else, is the way
\* back.  (A late job loses its compare-and-swap but has moved files by then.)
DoneKeepsOriginal ==
    \A f \in Files : row[f].state = "done" =>
        \E s \in Retentions : row[f].kept = {s} /\ disk[f][s] = "original"

\* An original is replaced at most once: nothing lossy is ever made of an
\* encode.  (recover_stuck_transcode runs before every encode.)
NeverReencoded == \A f \in Files : \A s \in Media : disk[f][s] # "reencode"

\* A job that ends in a skip has left the library as it found it: the original
\* is at the row's path.  (transcode_file returns Skipped only before the swap.)
SkippedByGateIsUntouched ==
    [][ \A f \in Files :
          row[f].state = "transcoding" /\ row'[f].state = "skipped"
            => disk[f][row[f].path] = "original" /\ disk' = disk ]_vars

\* The install is the point of no return: once the encode is in place and the
\* original retained, no later recovery, requeue or failure takes it back.
SwapIsNeverUndone ==
    [][ \A f \in Files : \A s \in Retentions :
          disk[f][s] = "original" /\ disk[f][Final] = "encode"
            => disk'[f][s] = "original" /\ disk'[f][Final] = "encode" ]_vars

\* No file stays in transcoding for ever, whatever fails or crashes on the way,
\* unless another row holds the path of its encode, at every attempt to commit.
\* (Every terminal outcome is recorded and the stale re-queue retries the rest;
\* a commit that breaks the unique file_path is retried like any lost one.)
TranscodingResolves ==
    \A f \in Files :
        \/ []<>(f \in taken)
        \/ row[f].state = "transcoding" ~> row[f].state # "transcoding"

-----------------------------------------------------------------------------
(* Refinement.  The library holds the encode from the moment both renames   *)
(* are done.                                                                *)

Replaced(f) == /\ disk[f][Final] = "encode"
               /\ \E s \in Retentions : disk[f][s] = "original"

AtomicSwap == INSTANCE AtomicSwap WITH
    phase <- [f \in Files |-> row[f].state],
    library <- [f \in Files |-> IF Replaced(f) THEN "encode" ELSE "original"]

\* Seen from the rows, the two renames, the recovery after a crash and the
\* database commit are one atomic replacement that is then committed.
ImplementsAtomicSwap == AtomicSwap!Spec
=============================================================================
