------------------------- MODULE TranscodeSwapProofs -------------------------
(***************************************************************************)
(* What the rows say of the disk: theorems about the swap and its record,  *)
(* each with what it assumes of the moves and of the dispatch.             *)
(***************************************************************************)
EXTENDS TranscodeProofs

USE DEF Paths, Retentions, Slots, Contents, Scores, RowStates, Stages, MovePcs, JobPcs

-----------------------------------------------------------------------------
(* Rows and the job that works on them, whatever moves fail and however    *)
(* late an id arrives.                                                     *)

\* Where the original of a file is before it is transcoded, and where it is
\* retained.
Home(f) == IF f \in MkvFiles THEN "mkv" ELSE "src"
HomeRetention(f) == Retained(Home(f))

\* A row names the original's path until it is done, and then the final path and
\* the one retention path of the original.
RowNames ==
    \A f \in Files :
        IF row[f].state = "done"
        THEN row[f].path = Final /\ row[f].kept = {HomeRetention(f)}
        ELSE row[f].path = Home(f) /\ row[f].kept = {}

JobPath == job # NoJob => job.path = row[job.file].path

\* Without late ids the row of the running job is in transcoding.
JobTranscoding == ~LateDispatch /\ job # NoJob => row[job.file].state = "transcoding"

RowInv == TypeOK /\ RowNames /\ JobPath /\ JobTranscoding

LEMMA HomeType ==
    \A f \in Files : /\ Home(f) \in Paths /\ HomeRetention(f) \in Retentions
                     /\ Home(f) \in Slots /\ HomeRetention(f) \in Slots
                     /\ Home(f) # HomeRetention(f) /\ HomeRetention(f) # Final
  BY DEF Home, HomeRetention, Retained, Final

\* A job is a record with a pc of its own; NoJob has none of them.
LEMMA JobOrNone ==
    ASSUME TypeOK
    PROVE  job # NoJob <=> job \in Jobs
  <1>1. NoJob \notin Jobs
    BY DEF NoJob, Jobs
  <1> QED
    BY <1>1 DEF TypeOK

\* What a step leaves of a row when it does not complete it.
KeepsNames(f) ==
    /\ row'[f].path = row[f].path /\ row'[f].kept = row[f].kept
    /\ row'[f].state = "done" <=> row[f].state = "done"

Completes ==
    /\ job \in Jobs /\ job.pc = "commit" /\ row[job.file].state = "transcoding"
    /\ row' = [row EXCEPT ![job.file] = [row[job.file] EXCEPT
                  !.state = "done", !.path = Final, !.kept = @ \union {Retained(job.path)}]]
    /\ job' = NoJob /\ UNCHANGED disk

LEMMA PipelineKeepsNames ==
    ASSUME TypeOK, Pipeline
    PROVE  /\ \A f \in Files : KeepsNames(f) /\ (row[f].state = "transcoding" => UNCHANGED row[f])
           /\ UNCHANGED <<disk, job>>
  <1>0. row \in [Files -> Rows] /\ \A f \in Files : row[f] \in Rows
    BY DEF TypeOK
  <1>1. ASSUME NEW g \in Files, Accept(g) \/ TurnDown(g) \/ ProbeFails(g) \/ RequeueFailed(g)
        PROVE  \A f \in Files : KeepsNames(f) /\ (row[f].state = "transcoding" => UNCHANGED row[f])
    <2>1. PICK r \in Rows : /\ SetRow(g, r) /\ row[g].state \in {"waiting", "failed"}
                            /\ r.path = row[g].path /\ r.kept = row[g].kept /\ r.state # "done"
      <3>1. CASE Accept(g)
        <4> DEFINE r == [row[g] EXCEPT !.state = "transcoding", !.vmaf = "none"]
        <4>1. r \in Rows /\ r.path = row[g].path /\ r.kept = row[g].kept /\ r.state # "done"
          BY <1>0 DEF Rows
        <4> QED
          BY <3>1, <4>1 DEF Accept
      <3>2. CASE TurnDown(g)
        <4>1. PICK score \in {row[g].vmaf, "none"} :
                 SetRow(g, [row[g] EXCEPT !.state = "skipped", !.vmaf = score])
          BY <3>2 DEF TurnDown
        <4> DEFINE r == [row[g] EXCEPT !.state = "skipped", !.vmaf = score]
        <4>2. r \in Rows /\ r.path = row[g].path /\ r.kept = row[g].kept /\ r.state # "done"
          BY <1>0 DEF Rows
        <4> QED
          BY <3>2, <4>1, <4>2 DEF TurnDown
      <3>3. CASE ProbeFails(g)
        <4> DEFINE r == [row[g] EXCEPT !.state = "failed"]
        <4>1. r \in Rows /\ r.path = row[g].path /\ r.kept = row[g].kept /\ r.state # "done"
          BY <1>0 DEF Rows
        <4> QED
          BY <3>3, <4>1 DEF ProbeFails
      <3>4. CASE RequeueFailed(g)
        <4> DEFINE r == [row[g] EXCEPT !.state = "waiting"]
        <4>1. r \in Rows /\ r.path = row[g].path /\ r.kept = row[g].kept /\ r.state # "done"
          BY <1>0 DEF Rows
        <4> QED
          BY <3>4, <4>1 DEF RequeueFailed
      <3> QED
        BY <1>1, <3>1, <3>2, <3>3, <3>4
    <2> QED
      BY <1>0, <2>1 DEF SetRow, KeepsNames
  <1>2. ASSUME RecheckQualitySkips \/ RequeueQualitySkips
        PROVE  \A f \in Files : KeepsNames(f) /\ (row[f].state = "transcoding" => UNCHANGED row[f])
    <2>1. PICK S : BackToTranscoding(S) /\ \A f \in S : row[f].state = "skipped"
      BY <1>2 DEF RecheckQualitySkips, RequeueQualitySkips, QualitySkips
    <2> QED
      BY <1>0, <2>1 DEF BackToTranscoding, KeepsNames, Rows
  <1>3. UNCHANGED <<disk, job>>
    BY DEF Pipeline, Accept, TurnDown, ProbeFails, RequeueFailed, RecheckQualitySkips,
           RequeueQualitySkips, BackToTranscoding, OtherRowTakes, OtherRowLeaves
  <1>4. ASSUME NEW g \in Files, OtherRowTakes(g) \/ OtherRowLeaves(g)
        PROVE  \A f \in Files : KeepsNames(f) /\ (row[f].state = "transcoding" => UNCHANGED row[f])
    BY <1>0, <1>4 DEF OtherRowTakes, OtherRowLeaves, KeepsNames, Rows
  <1> QED
    BY <1>1, <1>2, <1>3, <1>4 DEF Pipeline

\* The steps of a job that write no row.
LEMMA QuietSteps ==
    Recover \/ Encode \/ Move \/ RecordVmafFails \/ CommitClashes \/ OutcomeLost \/ Crash
        => UNCHANGED row
  BY DEF Recover, RecoverNothing, RecoverCommit, RecoverMarkFailed, RecoverRestore,
         Encode, EncodeOk, FfmpegFails, ValidationFails, SizeGateSkips, QualityGateSkips, GatesPass,
         Move, Rename, CopyStarts, CopyEnds, CopyRemovesSource, RestoreFails, RetainFails,
         InstallFails, RollbackFails, RecordVmafFails, CommitClashes, OutcomeLost, Crash

\* The steps that write the row of the job.
LEMMA RecordRows ==
    ASSUME TypeOK, Record
    PROVE  /\ job \in Jobs /\ UNCHANGED disk
           /\ Completes \/ \A f \in Files : KeepsNames(f)
           /\ RecordVmaf => row'[job.file].state = row[job.file].state
  <1>1. job \in Jobs /\ job.file \in Files
    BY JobIsRecord DEF TypeOK, Record, RecordVmaf, RecordVmafFails, CompleteTranscode,
                       CommitClashes, ApplySkipped, ApplyFailed, OutcomeLost, At, Jobs
  <1>2. UNCHANGED disk
    BY DEF Record, RecordVmaf, RecordVmafFails, CompleteTranscode, CommitClashes, ApplySkipped,
           ApplyFailed, OutcomeLost, CompareAndSwap
  <1>3. row \in [Files -> Rows] /\ row[job.file] \in Rows
    BY <1>1 DEF TypeOK
  <1>4. CASE RecordVmaf
    BY <1>1, <1>2, <1>3, <1>4 DEF RecordVmaf, SetRow, KeepsNames, Rows
  <1>5. CASE RecordVmafFails \/ CommitClashes \/ OutcomeLost
    BY <1>1, <1>2, <1>5, QuietSteps DEF KeepsNames, RecordVmafFails, OutcomeLost, RecordVmaf
  <1>6. CASE CompleteTranscode
    <2>1. ~RecordVmaf
      BY <1>6 DEF CompleteTranscode, RecordVmaf, At
    <2>2. CASE row[job.file].state = "transcoding"
      BY <1>1, <1>2, <1>6, <2>1, <2>2 DEF CompleteTranscode, CompareAndSwap, SetRow, Completes, At
    <2>3. CASE row[job.file].state # "transcoding"
      BY <1>1, <1>2, <1>6, <2>1, <2>3 DEF CompleteTranscode, CompareAndSwap, KeepsNames
    <2> QED
      BY <2>2, <2>3
  <1>7. CASE ApplySkipped \/ ApplyFailed
    <2>1. ~RecordVmaf
      BY <1>7 DEF ApplySkipped, ApplyFailed, RecordVmaf, At
    <2>2. PICK r \in Rows : /\ CompareAndSwap(r) /\ r.path = row[job.file].path
                            /\ r.kept = row[job.file].kept /\ r.state # "done"
      <3> DEFINE r == [row[job.file] EXCEPT !.state = "skipped"]
                 q == [row[job.file] EXCEPT !.state = "failed", !.failedBefore = TRUE]
      <3>1. /\ r \in Rows /\ r.path = row[job.file].path
            /\ r.kept = row[job.file].kept /\ r.state # "done"
        BY <1>3 DEF Rows
      <3>2. /\ q \in Rows /\ q.path = row[job.file].path
            /\ q.kept = row[job.file].kept /\ q.state # "done"
        BY <1>3 DEF Rows
      <3> QED
        BY <1>7, <3>1, <3>2 DEF ApplySkipped, ApplyFailed
    <2>3. CASE row[job.file].state = "transcoding"
      BY <1>1, <1>2, <1>3, <2>1, <2>2, <2>3 DEF CompareAndSwap, SetRow, KeepsNames
    <2>4. CASE row[job.file].state # "transcoding"
      BY <1>1, <1>2, <2>1, <2>2, <2>4 DEF CompareAndSwap, KeepsNames
    <2> QED
      BY <2>3, <2>4
  <1> QED
    BY <1>4, <1>5, <1>6, <1>7 DEF Record

\* A job keeps its file and its path until it ends.
LEMMA JobKeepsFile ==
    ASSUME TypeOK, JobStep
    PROVE  /\ job \in Jobs
           /\ job' # NoJob => job'.file = job.file /\ job'.path = job.path
  <1>1. job.pc \in JobPcs
    BY DEF JobStep, Recover, RecoverNothing, RecoverCommit, RecoverMarkFailed, RecoverRestore,
           Encode, EncodeOk, FfmpegFails, ValidationFails, SizeGateSkips, QualityGateSkips, GatesPass,
           Move, Rename, CopyStarts, CopyEnds, CopyRemovesSource, RestoreFails, RetainFails,
           InstallFails, RollbackFails, Record, RecordVmaf, RecordVmafFails, CompleteTranscode,
           CommitClashes, ApplySkipped, ApplyFailed, OutcomeLost, At
  <1>2. job \in Jobs
    BY <1>1, JobIsRecord DEF TypeOK
  <1>3. CASE Recover
    BY <1>2, <1>3 DEF Recover, RecoverNothing, RecoverCommit, RecoverMarkFailed, RecoverRestore,
                      Goto, Jobs
  <1>4. CASE Encode
    BY <1>2, <1>4 DEF Encode, EncodeOk, FfmpegFails, ValidationFails, SizeGateSkips,
                      QualityGateSkips, GatesPass, Goto, Jobs
  <1>5. CASE Move
    BY <1>2, <1>5 DEF Move, Rename, CopyStarts, CopyEnds, CopyRemovesSource, RestoreFails,
                      RetainFails, InstallFails, RollbackFails, Goto, Jobs
  <1>6. CASE Record
    BY <1>2, <1>6 DEF Record, RecordVmaf, RecordVmafFails, CompleteTranscode, CommitClashes,
                      ApplySkipped, ApplyFailed, OutcomeLost, CompareAndSwap, Goto, Jobs
  <1> QED
    BY <1>2, <1>3, <1>4, <1>5, <1>6 DEF JobStep

\* Every step keeps the names of every row, or completes the row of the job.
LEMMA NextKeepsNames ==
    ASSUME TypeOK, [Next]_vars
    PROVE  Completes \/ \A f \in Files : KeepsNames(f)
  <1>1. CASE UNCHANGED vars
    BY <1>1 DEF vars, KeepsNames
  <1>2. CASE Pipeline
    BY <1>2, PipelineKeepsNames
  <1>3. CASE \E f \in Files : Dispatch(f)
    BY <1>3 DEF Dispatch, Start, KeepsNames
  <1>4. CASE Recover \/ Encode \/ Move \/ Crash
    BY <1>4, QuietSteps DEF KeepsNames
  <1>5. CASE Record
    BY <1>5, RecordRows
  <1> QED
    BY <1>1, <1>2, <1>3, <1>4, <1>5 DEF Next, JobStep

\* The row of a job that goes on stays in transcoding, if it is.
LEMMA NextKeepsJob ==
    ASSUME TypeOK, [Next]_vars, job' # NoJob
    PROVE  \/ job = NoJob /\ UNCHANGED <<row, disk>> /\ \E f \in Files : Dispatch(f)
           \/ /\ job \in Jobs /\ job'.file = job.file /\ job'.path = job.path
              /\ row[job.file].state = "transcoding" => row'[job.file].state = "transcoding"
  <1>1. CASE UNCHANGED vars
    BY <1>1, JobOrNone DEF vars
  <1>2. CASE Pipeline
    BY <1>2, PipelineKeepsNames, JobOrNone DEF Jobs
  <1>3. CASE \E f \in Files : Dispatch(f)
    BY <1>3 DEF Dispatch, Start
  <1>4. CASE Recover \/ Encode \/ Move
    BY <1>4, QuietSteps, JobKeepsFile DEF JobStep
  <1>5. CASE Record
    <2>1. RecordVmaf \/ RecordVmafFails
      BY <1>5 DEF Record, CompleteTranscode, CommitClashes, ApplySkipped, ApplyFailed, OutcomeLost,
                  CompareAndSwap
    <2> QED
      BY <1>5, <2>1, QuietSteps, RecordRows, JobKeepsFile DEF JobStep
  <1>6. CASE Crash
    BY <1>6 DEF Crash
  <1> QED
    BY <1>1, <1>2, <1>3, <1>4, <1>5, <1>6 DEF Next, JobStep

LEMMA InitRowInv == Init => RowInv
  <1> SUFFICES ASSUME Init PROVE RowInv
    OBVIOUS
  <1>1. RowNames
    BY DEF Init, RowNames, Home
  <1>2. JobPath /\ JobTranscoding
    BY DEF Init, JobPath, JobTranscoding
  <1> QED
    BY <1>1, <1>2, InitType DEF RowInv

LEMMA NextRowInv == RowInv /\ [Next]_vars => RowInv'
  <1> SUFFICES ASSUME RowInv, [Next]_vars PROVE RowInv'
    OBVIOUS
  <1>1. TypeOK'
    BY NextType DEF RowInv
  <1>2. Completes \/ \A f \in Files : KeepsNames(f)
    BY NextKeepsNames DEF RowInv
  <1>3. row \in [Files -> Rows] /\ \A f \in Files : row[f] \in Rows
    BY DEF RowInv, TypeOK
  <1>4. CASE Completes
    <2>1. job \in Jobs /\ job.file \in Files /\ job # NoJob
      BY <1>4, JobOrNone DEF Completes, RowInv, Jobs
    <2>2. row[job.file].kept = {} /\ Retained(job.path) = HomeRetention(job.file)
      BY <1>4, <2>1 DEF Completes, RowInv, RowNames, JobPath, HomeRetention
    <2>3. /\ row'[job.file].state = "done" /\ row'[job.file].path = Final
          /\ row'[job.file].kept = {HomeRetention(job.file)}
      BY <1>3, <1>4, <2>1, <2>2 DEF Completes, Rows
    <2>4. \A f \in Files : f # job.file => row'[f] = row[f]
      BY <1>3, <1>4, <2>1 DEF Completes
    <2>5. RowNames'
      BY <2>3, <2>4 DEF RowInv, RowNames, Home, HomeRetention, Final, Retained
    <2>6. JobPath' /\ JobTranscoding'
      BY <1>4 DEF Completes, JobPath, JobTranscoding
    <2> QED
      BY <1>1, <2>5, <2>6 DEF RowInv
  <1>5. CASE \A f \in Files : KeepsNames(f)
    <2>1. RowNames'
      BY <1>5 DEF RowInv, RowNames, KeepsNames, Home, HomeRetention, Final, Retained
    <2>2. CASE job' = NoJob
      BY <1>1, <2>1, <2>2 DEF RowInv, JobPath, JobTranscoding
    <2>3. CASE job' # NoJob /\ job = NoJob
      <3>1. PICK f \in Files : Dispatch(f) /\ UNCHANGED row
        BY <2>3, NextKeepsJob, JobOrNone DEF RowInv
      <3>2. JobPath' /\ JobTranscoding'
        BY <3>1, TranscodeAssumption DEF Dispatch, Start, JobPath, JobTranscoding
      <3> QED
        BY <1>1, <2>1, <3>2 DEF RowInv
    <2>4. CASE job' # NoJob /\ job # NoJob
      <3>1. /\ job \in Jobs /\ job'.file = job.file /\ job'.path = job.path
            /\ row[job.file].state = "transcoding" => row'[job.file].state = "transcoding"
        BY <2>4, NextKeepsJob DEF RowInv
      <3>2. job.file \in Files
        BY <3>1 DEF Jobs
      <3>3. JobPath' /\ JobTranscoding'
        BY <1>5, <2>4, <3>1, <3>2 DEF RowInv, JobPath, JobTranscoding, KeepsNames
      <3> QED
        BY <1>1, <2>1, <3>3 DEF RowInv
    <2> QED
      BY <2>2, <2>3, <2>4
  <1> QED
    BY <1>2, <1>4, <1>5

-----------------------------------------------------------------------------
(* What a step does to the disk and to the position of the job.            *)

\* The steps that move no file.
Still ==
    \/ UNCHANGED vars \/ Pipeline \/ \E f \in Files : Dispatch(f)
    \/ Recover \/ Encode \/ Record \/ Crash
    \/ RestoreFails \/ RetainFails \/ InstallFails \/ RollbackFails

Moves == Rename \/ CopyStarts \/ CopyEnds \/ CopyRemovesSource

LEMMA StillOrMoves == [Next]_vars => Still \/ Moves
  BY DEF Next, JobStep, Move, Still, Moves

Passes(from, to) ==
    /\ job \in Jobs /\ job.pc = from /\ job'.pc = to
    /\ job'.file = job.file /\ job'.path = job.path

\* The positions a job takes without moving a file, and what it has seen then.
StillJob ==
    \/ job' = job /\ UNCHANGED disk
    \/ job' = NoJob
    \/ /\ job.pc \in JobPcs \ {"record", "skip"} /\ job'.pc = "fail"
       /\ job'.stage = "rename" /\ job'.outcome = job.outcome
    \/ job'.pc = "recover" /\ job'.stage = "rename" /\ job'.outcome = "commit"
    \/ /\ UNCHANGED disk /\ job'.stage = "rename" /\ job'.outcome = job.outcome
       /\ \/ Passes("recover", "encode") /\ ~Exists(job.file, Retained(job.path))
          \/ /\ Passes("recover", "restore")
             /\ Exists(job.file, Retained(job.path)) /\ ~Exists(job.file, Final)
          \/ /\ Passes("recover", "commit")
             /\ Exists(job.file, Retained(job.path)) /\ Exists(job.file, Final)
          \/ Passes("install", "rollback")
          \/ Passes("record", job.outcome)
    \/ /\ Passes("encode", "gates") /\ job'.stage = "rename" /\ job'.outcome = job.outcome
       /\ \E out \in Encoded(disk[job.file][job.path]) : Put("tmp", out)
    \/ /\ Passes("gates", "retain") /\ job'.stage = job.stage /\ job'.outcome = job.outcome
       /\ UNCHANGED disk
    \/ Passes("gates", "skip") /\ job'.stage = "rename" /\ DropTemp
    \/ Passes("gates", "record") /\ job'.outcome = "skip" /\ job'.stage = job.stage /\ DropTemp

LEMMA StillTakes == ASSUME TypeOK, Still PROVE StillJob
  <1>1. CASE UNCHANGED vars
    BY <1>1 DEF vars, StillJob
  <1>2. CASE Pipeline
    BY <1>2, PipelineKeepsNames DEF StillJob
  <1>3. CASE \E f \in Files : Dispatch(f)
    BY <1>3 DEF Dispatch, Start, StillJob
  <1>4. CASE Recover
    <2>1. job \in Jobs
      BY <1>4, JobKeepsFile DEF JobStep
    <2> QED
      BY <1>4, <2>1 DEF Recover, RecoverNothing, RecoverCommit, RecoverMarkFailed, RecoverRestore,
                        Goto, At, Jobs, Passes, StillJob
  <1>5. CASE Encode
    <2>1. job \in Jobs
      BY <1>5, JobKeepsFile DEF JobStep
    <2> QED
      BY <1>5, <2>1 DEF Encode, EncodeOk, FfmpegFails, ValidationFails, SizeGateSkips,
                        QualityGateSkips, GatesPass, Goto, At, Jobs, Passes, StillJob
  <1>6. CASE Record
    <2>1. job \in Jobs
      BY <1>6, JobKeepsFile DEF JobStep
    <2>2. CASE RecordVmaf \/ RecordVmafFails
      BY <2>1, <2>2 DEF RecordVmaf, RecordVmafFails, Goto, At, Jobs, Passes, StillJob
    <2>3. CASE CompleteTranscode \/ CommitClashes \/ ApplySkipped \/ ApplyFailed \/ OutcomeLost
      BY <2>3 DEF CompleteTranscode, CommitClashes, ApplySkipped, ApplyFailed, OutcomeLost,
                  CompareAndSwap, NoJob, StillJob
    <2> QED
      BY <1>6, <2>2, <2>3 DEF Record
  <1>7. CASE Crash
    BY <1>7 DEF Crash, NoJob, StillJob
  <1>8. CASE RestoreFails \/ RetainFails \/ InstallFails \/ RollbackFails
    <2>1. job \in Jobs
      BY <1>8, JobKeepsFile DEF JobStep, Move
    <2> QED
      BY <1>8, <2>1 DEF RestoreFails, RetainFails, InstallFails, RollbackFails,
                        Goto, At, Jobs, Passes, StillJob
  <1> QED
    BY <1>1, <1>2, <1>3, <1>4, <1>5, <1>6, <1>7, <1>8 DEF Still

\* Such a step writes the temporary file at most, and an encode there only from
\* the file at the job's path.
LEMMA StillDisk ==
    ASSUME TypeOK, Still, NEW f \in Files
    PROVE  /\ \A s \in Media : disk'[f][s] = disk[f][s]
           /\ \/ disk'[f]["tmp"] \in {disk[f]["tmp"], "none", "partial"}
              \/ EncodeOk /\ f = job.file /\ disk'[f]["tmp"] \in Encoded(disk[f][job.path])
  <1> DEFINE Goal == /\ \A s \in Media : disk'[f][s] = disk[f][s]
                     /\ \/ disk'[f]["tmp"] \in {disk[f]["tmp"], "none", "partial"}
                        \/ /\ EncodeOk /\ f = job.file
                           /\ disk'[f]["tmp"] \in Encoded(disk[f][job.path])
  <1>1. CASE UNCHANGED disk
    BY <1>1
  <1>2. ASSUME job \in Jobs, NEW c \in {"none", "partial"}, Put("tmp", c) PROVE Goal
    <2>1. \A g \in Files : \A t \in Slots :
             disk'[g][t] = IF g = job.file /\ t = "tmp" THEN c ELSE disk[g][t]
      BY <1>2, PutWrites
    <2> QED
      BY <2>1 DEF Media
  <1>3. ASSUME EncodeOk PROVE Goal
    <2>1. job \in Jobs
      BY <1>3, JobKeepsFile DEF JobStep, Encode
    <2>2. PICK c \in Encoded(disk[job.file][job.path]) : Put("tmp", c)
      BY <1>3 DEF EncodeOk
    <2>3. \A g \in Files : \A t \in Slots :
             disk'[g][t] = IF g = job.file /\ t = "tmp" THEN c ELSE disk[g][t]
      BY <2>1, <2>2, PutWrites
    <2> QED
      BY <1>3, <2>2, <2>3 DEF Media
  <1>4. \/ UNCHANGED disk \/ EncodeOk
        \/ job \in Jobs /\ \E c \in {"none", "partial"} : Put("tmp", c)
    <2>1. CASE Encode \/ RestoreFails \/ RetainFails \/ InstallFails \/ RollbackFails
      <3>1. job \in Jobs
        BY <2>1, JobKeepsFile DEF JobStep, Move
      <3> QED
        BY <2>1, <3>1 DEF Encode, FfmpegFails, ValidationFails, SizeGateSkips, QualityGateSkips,
             GatesPass, RestoreFails, RetainFails, InstallFails, RollbackFails, DropTemp
    <2>2. CASE Crash
      BY <2>2, JobOrNone DEF Crash
    <2>3. CASE UNCHANGED vars \/ Pipeline \/ (\E g \in Files : Dispatch(g)) \/ Recover \/ Record
      BY <2>3, PipelineKeepsNames, RecordRows DEF vars, Dispatch, Start, Recover, RecoverNothing,
           RecoverCommit, RecoverMarkFailed, RecoverRestore
    <2> QED
      BY <2>1, <2>2, <2>3 DEF Still
  <1> QED
    BY <1>1, <1>2, <1>3, <1>4

\* A move writes its destination, then empties its source; the last step of a
\* rollback drops the temporary file.
LEMMA MovesDisk ==
    ASSUME TypeOK, Moves
    PROVE  /\ job \in Jobs /\ job.pc \in MovePcs /\ row' = row
           /\ job'.file = job.file /\ job'.path = job.path /\ job'.outcome = job.outcome
           /\ MoveFrom \in Slots /\ MoveTo \in Slots /\ MoveFrom # MoveTo
           /\ \/ /\ Rename /\ job.stage = "rename" /\ job'.stage = "rename" /\ job'.pc = AfterMove
                 /\ Exists(job.file, MoveFrom)
                 /\ \A f \in Files : \A s \in Slots : disk'[f][s] =
                       IF f = job.file /\ (s = MoveFrom \/ (s = "tmp" /\ job.pc = "rollback"))
                       THEN "none"
                       ELSE IF f = job.file /\ s = MoveTo THEN disk[f][MoveFrom] ELSE disk[f][s]
              \/ /\ CopyStarts /\ job.stage = "rename" /\ job'.stage = "copying" /\ job'.pc = job.pc
                 /\ Exists(job.file, MoveFrom)
                 /\ \A f \in Files : \A s \in Slots : disk'[f][s] =
                       IF f = job.file /\ s = MoveTo THEN "partial" ELSE disk[f][s]
              \/ /\ CopyEnds /\ job.stage = "copying" /\ job'.stage = "copied" /\ job'.pc = job.pc
                 /\ \A f \in Files : \A s \in Slots : disk'[f][s] =
                       IF f = job.file /\ s = MoveTo THEN disk[f][MoveFrom] ELSE disk[f][s]
              \/ /\ CopyRemovesSource /\ job.stage = "copied" /\ job'.stage = "rename"
                 /\ job'.pc = AfterMove
                 /\ \A f \in Files : \A s \in Slots : disk'[f][s] =
                       IF f = job.file /\ (s = MoveFrom \/ (s = "tmp" /\ job.pc = "rollback"))
                       THEN "none" ELSE disk[f][s]
  <1>1. job.pc \in MovePcs /\ row' = row
    BY DEF Moves, Rename, CopyStarts, CopyEnds, CopyRemovesSource
  <1>2. /\ job \in Jobs /\ job.file \in Files /\ MoveFrom \in Slots /\ MoveTo \in Slots
        /\ MoveFrom # MoveTo /\ AfterMove \in JobPcs
    BY <1>1, MoveSlots DEF Jobs
  <1>3. MoveTo # "tmp"
    BY <1>1, <1>2, SlotsByPc, RetainedType DEF Jobs
  <1>4. disk \in [Files -> [Slots -> Contents]]
    BY DEF TypeOK
  <1>5. CASE Rename
    <2>1. \A f \in Files : \A s \in Slots : disk'[f][s] =
             IF f = job.file /\ (s = MoveFrom \/ (s = "tmp" /\ job.pc = "rollback"))
             THEN "none"
             ELSE IF f = job.file /\ s = MoveTo THEN disk[f][MoveFrom] ELSE disk[f][s]
      BY <1>2, <1>3, <1>4, <1>5 DEF Rename, DropTempAfterRollback, At
    <2> QED
      BY <1>1, <1>2, <1>5, <2>1 DEF Rename, Goto, Jobs
  <1>6. CASE CopyStarts
    <2>1. \A f \in Files : \A s \in Slots : disk'[f][s] =
             IF f = job.file /\ s = MoveTo THEN "partial" ELSE disk[f][s]
      BY <1>2, <1>6, PutWrites DEF CopyStarts
    <2> QED
      BY <1>1, <1>2, <1>6, <2>1 DEF CopyStarts, Jobs
  <1>7. CASE CopyEnds
    <2>1. \A f \in Files : \A s \in Slots : disk'[f][s] =
             IF f = job.file /\ s = MoveTo THEN disk[job.file][MoveFrom] ELSE disk[f][s]
      BY <1>2, <1>7, PutWrites DEF CopyEnds
    <2> QED
      BY <1>1, <1>2, <1>7, <2>1 DEF CopyEnds, Jobs
  <1>8. CASE CopyRemovesSource
    <2>1. \A f \in Files : \A s \in Slots : disk'[f][s] =
             IF f = job.file /\ (s = MoveFrom \/ (s = "tmp" /\ job.pc = "rollback"))
             THEN "none" ELSE disk[f][s]
      BY <1>2, <1>4, <1>8 DEF CopyRemovesSource, DropTempAfterRollback, At
    <2> QED
      BY <1>1, <1>2, <1>8, <2>1 DEF CopyRemovesSource, Goto, Jobs
  <1> QED
    BY <1>5, <1>6, <1>7, <1>8 DEF Moves

-----------------------------------------------------------------------------
(* Nothing is encoded twice, whichever moves are copies and wherever they  *)
(* stop, as long as only rows in transcoding are dispatched.               *)

\* The original's names never hold an encode, except the final path.
NoEncodeRetained ==
    \A f \in Files : \A s \in Retentions \union {"src"} : disk[f][s] # "encode"

NoReencode == \A f \in Files : \A s \in Slots : disk[f][s] # "reencode"

\* Where the final path is also the original's, an encode there has something in
\* retention beside it, which is what the recovery looks for.
EncodeHasRetention ==
    \A f \in MkvFiles : disk[f][Final] = "encode" => Exists(f, "retMkv")

\* What is about to be encoded, or was just copied back, is not an encode.
SourceIsNoEncode ==
    \/ job.pc \in {"encode", "gates", "retain"}
    \/ job.pc \in {"restore", "rollback"} /\ job.stage = "copied"
    => disk[job.file][job.path] # "encode"

\* Something is in retention from the end of the retaining copy to the end of
\* the install or of the rollback.
AwayHasRetention ==
    /\ \/ job.pc \in {"install", "rollback"}
       \/ job.pc = "retain" /\ job.stage = "copied"
       => Exists(job.file, Retained(job.path))
    /\ job.pc = "retain" /\ job.stage = "copying" => Exists(job.file, job.path)
    /\ job.pc \in {"encode", "gates"} => job.stage = "rename"

EncodeInv ==
    /\ RowInv
    /\ NoEncodeRetained
    /\ NoReencode
    /\ EncodeHasRetention
    /\ SourceIsNoEncode
    /\ AwayHasRetention

LEMMA InitEncodeInv == Init => EncodeInv
  <1> SUFFICES ASSUME Init PROVE EncodeInv
    OBVIOUS
  <1>1. NoEncodeRetained /\ NoReencode /\ EncodeHasRetention
    BY TranscodeAssumption DEF Init, NoEncodeRetained, NoReencode, EncodeHasRetention, Final
  <1>2. job.pc = "idle"
    BY DEF Init, NoJob
  <1>3. SourceIsNoEncode /\ AwayHasRetention
    BY <1>2 DEF SourceIsNoEncode, AwayHasRetention
  <1> QED
    BY <1>1, <1>3, InitRowInv DEF EncodeInv

\* The running job works on the names of the original.
LEMMA JobIsAtHome ==
    ASSUME ~LateDispatch, RowInv, job \in Jobs
    PROVE  /\ job.file \in Files /\ job.path = Home(job.file)
           /\ Retained(job.path) = HomeRetention(job.file)
           /\ row[job.file].state = "transcoding"
  BY JobOrNone DEF RowInv, JobTranscoding, JobPath, RowNames, HomeRetention, Jobs

LEMMA StillEncodeInv ==
    ASSUME ~LateDispatch, EncodeInv, Still
    PROVE  /\ NoEncodeRetained' /\ NoReencode' /\ EncodeHasRetention'
           /\ SourceIsNoEncode' /\ AwayHasRetention'
  <1>0. TypeOK /\ StillJob
    BY StillTakes DEF EncodeInv, RowInv
  <1>1. \A f \in Files : \A s \in Media : disk'[f][s] = disk[f][s]
    BY <1>0, StillDisk
  <1>2. NoEncodeRetained' /\ EncodeHasRetention'
    BY <1>1, TranscodeAssumption
       DEF EncodeInv, NoEncodeRetained, EncodeHasRetention, Exists, Media, Final
  <1>3. NoReencode'
    <2>1. \A f \in Files : disk'[f]["tmp"] # "reencode"
      <3> SUFFICES ASSUME NEW f \in Files PROVE disk'[f]["tmp"] # "reencode"
        OBVIOUS
      <3>1. CASE disk'[f]["tmp"] \in {disk[f]["tmp"], "none", "partial"}
        BY <3>1 DEF EncodeInv, NoReencode
      <3>2. CASE EncodeOk /\ f = job.file /\ disk'[f]["tmp"] \in Encoded(disk[f][job.path])
        <4>1. job \in Jobs /\ job.pc = "encode"
          BY <3>2, <1>0, JobKeepsFile DEF JobStep, Encode, EncodeOk, At
        <4>2. disk[f][job.path] \notin {"encode", "reencode"}
          BY <3>2, <4>1 DEF EncodeInv, SourceIsNoEncode, NoReencode, Jobs
        <4> QED
          BY <3>2, <4>2 DEF Encoded
      <3> QED
        BY <1>0, <3>1, <3>2, StillDisk
    <2> QED
      BY <1>1, <2>1 DEF EncodeInv, NoReencode, Media
  <1>4. SourceIsNoEncode' /\ AwayHasRetention'
    <2>1. CASE job' = job /\ UNCHANGED disk
      BY <2>1 DEF EncodeInv, SourceIsNoEncode, AwayHasRetention, Exists, Retained
    <2>2. CASE job'.pc \in {"idle", "fail", "recover", "commit", "skip", "record"}
      BY <2>2 DEF SourceIsNoEncode, AwayHasRetention
    <2>3. ASSUME Passes("recover", "encode"), ~Exists(job.file, Retained(job.path)),
                 job'.stage = "rename"
          PROVE  SourceIsNoEncode' /\ AwayHasRetention'
      <3>1. /\ job \in Jobs /\ job.file \in Files /\ job'.file = job.file /\ job'.path = job.path
            /\ job'.pc = "encode"
        BY <2>3 DEF Passes, Jobs
      <3>2. disk[job.file][job.path] # "encode"
        <4>1. CASE job.file \in MkvFiles
          BY <2>3, <3>1, <4>1, JobIsAtHome
             DEF EncodeInv, EncodeHasRetention, Home, HomeRetention, Retained, Final, Exists
        <4>2. CASE job.file \notin MkvFiles
          BY <3>1, <4>2, JobIsAtHome DEF EncodeInv, NoEncodeRetained, Home
        <4> QED
          BY <4>1, <4>2
      <3> QED
        BY <1>1, <2>3, <3>1, <3>2 DEF SourceIsNoEncode, AwayHasRetention, Media, Jobs
    <2>4. ASSUME Passes("recover", "restore"), job'.stage = "rename"
          PROVE  SourceIsNoEncode' /\ AwayHasRetention'
      BY <2>4 DEF Passes, SourceIsNoEncode, AwayHasRetention
    <2>5. ASSUME Passes("install", "rollback"), job'.stage = "rename", UNCHANGED disk
          PROVE  SourceIsNoEncode' /\ AwayHasRetention'
      BY <2>5 DEF Passes, EncodeInv, SourceIsNoEncode, AwayHasRetention, Exists, Retained
    <2>6. ASSUME Passes("encode", "gates") \/ Passes("gates", "retain"),
                 job'.stage = "rename" \/ job'.stage = job.stage
          PROVE  SourceIsNoEncode' /\ AwayHasRetention'
      <3>1. /\ job \in Jobs /\ job.file \in Files /\ job.path \in Media
            /\ job'.file = job.file /\ job'.path = job.path
            /\ job.pc \in {"encode", "gates"} /\ job'.pc \in {"gates", "retain"}
        BY <2>6 DEF Passes, Jobs, Media
      <3>2. job'.stage = "rename"
        BY <2>6, <3>1 DEF EncodeInv, AwayHasRetention
      <3>3. disk[job.file][job.path] # "encode"
        BY <3>1 DEF EncodeInv, SourceIsNoEncode
      <3> QED
        BY <1>1, <3>1, <3>2, <3>3 DEF SourceIsNoEncode, AwayHasRetention
    <2> QED
      BY <1>0, <2>1, <2>2, <2>3, <2>4, <2>5, <2>6 DEF StillJob, Passes, NoJob, Jobs
  <1> QED
    BY <1>2, <1>3, <1>4

LEMMA MovesEncodeInv ==
    ASSUME ~LateDispatch, EncodeInv, Moves
    PROVE  /\ NoEncodeRetained' /\ NoReencode' /\ EncodeHasRetention'
           /\ SourceIsNoEncode' /\ AwayHasRetention'
  <1> DEFINE f == job.file
             r == Retained(job.path)
  <1>0. /\ TypeOK /\ job \in Jobs /\ job.pc \in MovePcs /\ f \in Files /\ job.path = Home(f)
        /\ r = HomeRetention(f) /\ job'.file = f /\ job'.path = job.path
        /\ MoveFrom \in Slots /\ MoveTo \in Slots /\ MoveFrom # MoveTo
    BY MovesDisk, JobIsAtHome DEF EncodeInv, RowInv
  <1>1. /\ job.path \in Paths /\ r \in Retentions
        /\ f \in MkvFiles => job.path = "mkv" /\ r = "retMkv"
        /\ f \notin MkvFiles => job.path = "src" /\ r = "retSrc"
    BY <1>0 DEF Home, HomeRetention, Retained
  <1>2. NoReencode'
    BY <1>0, MovesDisk DEF EncodeInv, NoReencode
  <1>3. CASE job.pc \in {"restore", "rollback"}
    <2>1. MoveFrom = r /\ MoveTo = job.path
      BY <1>0, <1>3, SlotsByPc
    <2>2. disk[f][r] # "encode"
      BY <1>0, <1>1 DEF EncodeInv, NoEncodeRetained
    <2>3. NoEncodeRetained'
      BY <1>0, <1>1, <2>1, <2>2, MovesDisk DEF EncodeInv, NoEncodeRetained
    <2>4. EncodeHasRetention'
      <3> SUFFICES ASSUME NEW g \in MkvFiles, disk'[g]["mkv"] = "encode" PROVE disk'[g]["retMkv"] # "none"
        BY DEF EncodeHasRetention, Exists, Final
      <3>1. g \in Files
        BY TranscodeAssumption
      <3>2. CASE g # f
        BY <1>0, <3>1, <3>2, MovesDisk DEF EncodeInv, EncodeHasRetention, Exists, Final
      <3>3. CASE g = f
        BY <1>0, <1>1, <1>3, <2>1, <2>2, <3>1, <3>3, MovesDisk
           DEF EncodeInv, EncodeHasRetention, SourceIsNoEncode, Exists, Final
      <3> QED
        BY <3>2, <3>3
    <2>5. SourceIsNoEncode' /\ AwayHasRetention'
      <3>1. CASE Rename \/ CopyRemovesSource
        <4>1. job'.pc = AfterMove /\ AfterMove \in {"encode", "fail"} /\ job'.stage = "rename"
          BY <1>0, <1>3, <3>1, MovesDisk, SlotsByPc DEF Rename, CopyRemovesSource, Goto, Jobs
        <4>2. disk'[f][job.path] # "encode"
          <5>1. CASE Rename
            <6>1. job.stage = "rename"
              BY <5>1 DEF Rename
            <6> QED
              BY <1>0, <1>1, <1>3, <2>1, <2>2, <4>1, <6>1, MovesDisk
          <5>2. CASE CopyRemovesSource
            <6>1. job.stage = "copied" /\ disk[f][job.path] # "encode"
              BY <1>3, <5>2 DEF CopyRemovesSource, EncodeInv, SourceIsNoEncode
            <6> QED
              BY <1>0, <1>1, <1>3, <2>1, <4>1, <6>1, MovesDisk
          <5> QED
            BY <3>1, <5>1, <5>2
        <4> QED
          BY <1>0, <4>1, <4>2 DEF SourceIsNoEncode, AwayHasRetention
      <3>2. CASE CopyStarts \/ CopyEnds
        <4>1. job'.pc = job.pc /\ job.stage # "copied" /\ job'.stage # "rename"
          BY <1>0, <3>2 DEF CopyStarts, CopyEnds, Jobs
        <4>2. disk'[f][r] = disk[f][r]
          BY <1>0, <1>1, <2>1, <4>1, MovesDisk
        <4>3. job'.stage = "copied" => disk'[f][job.path] # "encode"
          BY <1>0, <1>1, <2>1, <2>2, <4>1, MovesDisk
        <4> QED
          BY <1>0, <1>1, <1>3, <4>1, <4>2, <4>3 DEF EncodeInv, SourceIsNoEncode, AwayHasRetention, Exists
      <3> QED
        BY <3>1, <3>2 DEF Moves
    <2> QED
      BY <1>2, <2>3, <2>4, <2>5
  <1>4. CASE job.pc = "retain"
    <2>1. MoveFrom = job.path /\ MoveTo = r /\ AfterMove = "install"
      BY <1>0, <1>4, SlotsByPc
    <2>2. disk[f][job.path] # "encode"
      BY <1>4 DEF EncodeInv, SourceIsNoEncode
    <2>3. NoEncodeRetained'
      BY <1>0, <1>1, <2>1, <2>2, MovesDisk DEF EncodeInv, NoEncodeRetained
    <2>4. EncodeHasRetention'
      <3> SUFFICES ASSUME NEW g \in MkvFiles, disk'[g]["mkv"] = "encode" PROVE disk'[g]["retMkv"] # "none"
        BY DEF EncodeHasRetention, Exists, Final
      <3>1. g \in Files
        BY TranscodeAssumption
      <3>2. CASE g # f
        BY <1>0, <3>1, <3>2, MovesDisk DEF EncodeInv, EncodeHasRetention, Exists, Final
      <3>3. CASE g = f
        BY <1>0, <1>1, <1>4, <2>1, <2>2, <3>1, <3>3, MovesDisk
      <3> QED
        BY <3>2, <3>3
    <2>5. SourceIsNoEncode' /\ AwayHasRetention'
      BY <1>0, <1>1, <1>4, <2>1, <2>2, MovesDisk
         DEF EncodeInv, SourceIsNoEncode, AwayHasRetention, Exists
    <2> QED
      BY <1>2, <2>3, <2>4, <2>5
  <1>5. CASE job.pc = "install"
    <2>1. MoveFrom = "tmp" /\ MoveTo = "mkv" /\ AfterMove \in {"commit", "record"}
      BY <1>0, <1>5, SlotsByPc
    <2>2. disk[f][r] # "none"
      BY <1>5 DEF EncodeInv, AwayHasRetention, Exists
    <2>3. NoEncodeRetained'
      BY <1>0, <1>1, <1>5, <2>1, MovesDisk DEF EncodeInv, NoEncodeRetained
    <2>4. EncodeHasRetention'
      <3> SUFFICES ASSUME NEW g \in MkvFiles, disk'[g]["mkv"] = "encode" PROVE disk'[g]["retMkv"] # "none"
        BY DEF EncodeHasRetention, Exists, Final
      <3>1. g \in Files
        BY TranscodeAssumption
      <3>2. CASE g # f
        BY <1>0, <3>1, <3>2, MovesDisk DEF EncodeInv, EncodeHasRetention, Exists, Final
      <3>3. CASE g = f
        BY <1>0, <1>1, <1>5, <2>1, <2>2, <3>1, <3>3, MovesDisk
      <3> QED
        BY <3>2, <3>3
    <2>5. SourceIsNoEncode' /\ AwayHasRetention'
      BY <1>0, <1>1, <1>5, <2>1, <2>2, MovesDisk
         DEF EncodeInv, SourceIsNoEncode, AwayHasRetention, Exists
    <2> QED
      BY <1>2, <2>3, <2>4, <2>5
  <1> QED
    BY <1>0, <1>3, <1>4, <1>5

\* A file that has been replaced is never encoded again, whatever crashes, failed
\* copies, rollbacks and requeues come between the swap and its commit, and
\* whichever moves have to copy.  (recover_stuck_transcode runs before every
\* encode; with ids that arrive late the code does encode an encode.)
THEOREM NothingIsReencoded == ~LateDispatch => (Spec => []NeverReencoded)
  <1> SUFFICES ASSUME ~LateDispatch PROVE Spec => []NeverReencoded
    OBVIOUS
  <1>1. EncodeInv /\ [Next]_vars => EncodeInv'
    BY NextRowInv, StillOrMoves, StillEncodeInv, MovesEncodeInv DEF EncodeInv
  <1>2. EncodeInv => NeverReencoded
    BY DEF EncodeInv, NoReencode, NeverReencoded, Media
  <1> QED
    BY <1>1, <1>2, InitEncodeInv, PTL DEF Spec

-----------------------------------------------------------------------------
(* On one filesystem, with only rows in transcoding dispatched, a file is  *)
(* always in one of three shapes.                                          *)

\* The original is at its path and nothing else is.
Before(f) ==
    /\ disk[f][Home(f)] = "original"
    /\ disk[f][HomeRetention(f)] = "none"
    /\ Home(f) # Final => disk[f][Final] = "none"

\* The original is in retention and the final path is free.
Between(f) ==
    /\ disk[f][HomeRetention(f)] = "original"
    /\ disk[f][Home(f)] = "none"
    /\ disk[f][Final] = "none"

\* The original is in retention and the encode in its place.
After(f) ==
    /\ disk[f][HomeRetention(f)] = "original"
    /\ disk[f][Final] = "encode"
    /\ Home(f) # Final => disk[f][Home(f)] = "none"

Shaped ==
    \A f \in Files :
        /\ Before(f) \/ Between(f) \/ After(f)
        /\ \A s \in Media \ {Home(f), HomeRetention(f), Final} : disk[f][s] = "none"

DoneIsAfter == \A f \in Files : row[f].state = "done" => After(f)

\* What the job has still to record.
Committing == job.pc = "commit" \/ (job.pc = "record" /\ job.outcome = "commit")
Skipping == job.pc = "skip" \/ (job.pc = "record" /\ job.outcome = "skip")

\* The position of the job is the shape of its file.
JobKnowsShape ==
    /\ job.pc \in {"encode", "gates", "retain"} \/ Skipping => Before(job.file)
    /\ job.pc \in {"restore", "install", "rollback"} => Between(job.file)
    /\ Committing => After(job.file)

\* Only the gates end a job with a skip.
OutcomeIsCommit == job.pc \in JobPcs \ {"record", "skip"} => job.outcome = "commit"

JobRenames == job.pc \in JobPcs => job.stage = "rename"

TempIsWhole == job.pc \in {"gates", "retain", "install"} => disk[job.file]["tmp"] = "encode"

SwapInv ==
    /\ RowInv
    /\ Shaped
    /\ DoneIsAfter
    /\ JobKnowsShape
    /\ OutcomeIsCommit
    /\ JobRenames
    /\ TempIsWhole

OneFilesystem == ExdevMoves = {} /\ ~LateDispatch

LEMMA InitSwapInv == Init => SwapInv
  <1> SUFFICES ASSUME Init PROVE SwapInv
    OBVIOUS
  <1>1. \A f \in Files : Before(f)
    BY DEF Init, Before, Home, HomeRetention, Retained, Final
  <1>2. Shaped
    BY <1>1 DEF Init, Shaped, Home, Media
  <1>3. DoneIsAfter
    BY DEF Init, DoneIsAfter
  <1>4. job = NoJob /\ job.pc = "idle"
    BY DEF Init, NoJob
  <1>5. JobKnowsShape /\ OutcomeIsCommit /\ JobRenames /\ TempIsWhole
    BY <1>4 DEF JobKnowsShape, OutcomeIsCommit, JobRenames, TempIsWhole, Committing, Skipping
  <1> QED
    BY <1>2, <1>3, <1>5, InitRowInv DEF SwapInv

\* The shapes exclude each other.
LEMMA ShapesDiffer ==
    ASSUME NEW f \in Files
    PROVE  /\ ~(Before(f) /\ Between(f)) /\ ~(Before(f) /\ After(f)) /\ ~(Between(f) /\ After(f))
  BY DEF Before, Between, After

\* A step that moves no file keeps the shape of every file.
LEMMA StillKeepsShape ==
    ASSUME TypeOK, Still, NEW f \in Files
    PROVE  /\ Before(f)' <=> Before(f)
           /\ Between(f)' <=> Between(f)
           /\ After(f)' <=> After(f)
  <1>1. /\ disk'[f][Home(f)] = disk[f][Home(f)]
        /\ disk'[f][HomeRetention(f)] = disk[f][HomeRetention(f)]
        /\ disk'[f][Final] = disk[f][Final]
    BY StillDisk, HomeType DEF Media, Final
  <1> QED
    BY <1>1 DEF Before, Between, After

LEMMA StillShaped ==
    ASSUME TypeOK, Shaped, Still
    PROVE  Shaped'
  <1> SUFFICES ASSUME NEW f \in Files
               PROVE  /\ Before(f)' \/ Between(f)' \/ After(f)'
                      /\ \A s \in Media \ {Home(f), HomeRetention(f), Final} : disk'[f][s] = "none"
    BY DEF Shaped
  <1>1. Before(f)' \/ Between(f)' \/ After(f)'
    BY StillKeepsShape DEF Shaped
  <1>2. \A s \in Media \ {Home(f), HomeRetention(f), Final} : disk'[f][s] = "none"
    BY StillDisk DEF Shaped
  <1> QED
    BY <1>1, <1>2

LEMMA NextOutcome == TypeOK /\ OutcomeIsCommit /\ [Next]_vars => OutcomeIsCommit'
  <1> SUFFICES ASSUME TypeOK, OutcomeIsCommit, [Next]_vars PROVE OutcomeIsCommit'
    OBVIOUS
  <1>1. CASE Still
    BY <1>1, StillTakes DEF OutcomeIsCommit, StillJob, Passes, NoJob, Jobs
  <1>2. CASE Moves
    BY <1>2, MovesDisk DEF OutcomeIsCommit
  <1> QED
    BY <1>1, <1>2, StillOrMoves

LEMMA StillSwapInv ==
    ASSUME ~LateDispatch, SwapInv, Still
    PROVE  JobKnowsShape' /\ JobRenames' /\ TempIsWhole'
  <1>0. TypeOK /\ StillJob
    BY StillTakes DEF SwapInv, RowInv
  <1>1. CASE job' = job /\ UNCHANGED disk
    BY <1>1 DEF SwapInv, JobKnowsShape, JobRenames, TempIsWhole, Committing, Skipping,
                Before, Between, After
  <1>2. CASE job' = NoJob \/ (job'.pc \in {"fail", "recover"} /\ job'.stage = "rename")
    BY <1>2 DEF JobKnowsShape, JobRenames, TempIsWhole, Committing, Skipping, NoJob
  <1> DEFINE f == job.file
  <1>3. ASSUME NEW from, NEW to, Passes(from, to)
        PROVE  /\ job \in Jobs /\ f \in Files /\ job'.file = f /\ job.path = Home(f)
               /\ Retained(job.path) = HomeRetention(f) /\ job.stage = "rename"
               /\ Before(f) \/ Between(f) \/ After(f)
               /\ Before(f)' <=> Before(f)
               /\ Between(f)' <=> Between(f)
               /\ After(f)' <=> After(f)
    <2>1. job \in Jobs /\ job'.file = f
      BY <1>3 DEF Passes
    <2>2. f \in Files /\ job.path = Home(f) /\ Retained(job.path) = HomeRetention(f)
      BY <2>1, JobIsAtHome DEF SwapInv
    <2>3. job.stage = "rename"
      BY <2>1 DEF SwapInv, JobRenames, Jobs
    <2> QED
      BY <1>0, <2>1, <2>2, <2>3, StillKeepsShape DEF SwapInv, Shaped
  <1>4. ASSUME UNCHANGED disk, job'.stage = "rename",
               \/ Passes("recover", "encode") /\ ~Exists(f, Retained(job.path))
               \/ /\ Passes("recover", "restore")
                  /\ Exists(f, Retained(job.path)) /\ ~Exists(f, Final)
               \/ /\ Passes("recover", "commit")
                  /\ Exists(f, Retained(job.path)) /\ Exists(f, Final)
        PROVE  JobKnowsShape' /\ JobRenames' /\ TempIsWhole'
    <2>1. Passes("recover", "encode") => Before(f)
      BY <1>3, <1>4 DEF Between, After, Exists, Passes
    <2>2. Passes("recover", "restore") => Between(f)
      BY <1>3, <1>4 DEF Before, After, Exists, Passes
    <2>3. Passes("recover", "commit") => After(f)
      BY <1>3, <1>4 DEF Before, Between, Exists, Passes
    <2>4. JobKnowsShape'
      BY <1>3, <1>4, <2>1, <2>2, <2>3 DEF JobKnowsShape, Committing, Skipping, Passes
    <2> QED
      BY <1>4, <2>4 DEF JobRenames, TempIsWhole, Passes
  <1>5. ASSUME UNCHANGED disk, job'.stage = "rename", Passes("install", "rollback")
        PROVE  JobKnowsShape' /\ JobRenames' /\ TempIsWhole'
    <2>1. JobKnowsShape'
      BY <1>3, <1>5 DEF SwapInv, JobKnowsShape, Committing, Skipping, Passes
    <2> QED
      BY <1>5, <2>1 DEF JobRenames, TempIsWhole, Passes
  <1>6. ASSUME UNCHANGED disk, job'.stage = "rename", Passes("record", job.outcome)
        PROVE  JobKnowsShape' /\ JobRenames' /\ TempIsWhole'
    <2>1. job'.pc = job.outcome /\ job.pc = "record" /\ job.outcome \in {"commit", "skip"}
      BY <1>6 DEF Passes, Jobs
    <2>2. JobKnowsShape'
      BY <1>3, <1>6, <2>1 DEF SwapInv, JobKnowsShape, Committing, Skipping
    <2> QED
      BY <1>6, <2>1, <2>2 DEF JobRenames, TempIsWhole
  <1>7. ASSUME Passes("encode", "gates"), job'.stage = "rename",
               NEW out \in Encoded(disk[f][job.path]), Put("tmp", out)
        PROVE  JobKnowsShape' /\ JobRenames' /\ TempIsWhole'
    <2>1. JobKnowsShape'
      BY <1>3, <1>7 DEF SwapInv, JobKnowsShape, Committing, Skipping, Passes
    <2>2. disk[f][job.path] = "original"
      BY <1>3, <1>7 DEF SwapInv, JobKnowsShape, Before, Passes
    <2>3. out = "encode"
      BY <1>7, <2>2 DEF Encoded
    <2>4. disk'[f]["tmp"] = "encode"
      BY <1>0, <1>3, <1>7, <2>3, PutWrites
    <2> QED
      BY <1>3, <1>7, <2>1, <2>4 DEF JobRenames, TempIsWhole
  <1>8. ASSUME Passes("gates", "retain"), job'.stage = job.stage, UNCHANGED disk
        PROVE  JobKnowsShape' /\ JobRenames' /\ TempIsWhole'
    <2>1. JobKnowsShape'
      BY <1>3, <1>8 DEF SwapInv, JobKnowsShape, Committing, Skipping, Passes
    <2> QED
      BY <1>3, <1>8, <2>1 DEF SwapInv, JobRenames, TempIsWhole, Passes
  <1>9. ASSUME \/ Passes("gates", "skip") /\ job'.stage = "rename"
               \/ Passes("gates", "record") /\ job'.outcome = "skip" /\ job'.stage = job.stage
        PROVE  JobKnowsShape' /\ JobRenames' /\ TempIsWhole'
    <2>1. JobKnowsShape'
      BY <1>3, <1>9 DEF SwapInv, JobKnowsShape, Committing, Skipping, Passes
    <2> QED
      BY <1>3, <1>9, <2>1 DEF JobRenames, TempIsWhole, Passes
  <1> QED
    BY <1>0, <1>1, <1>2, <1>4, <1>5, <1>6, <1>7, <1>8, <1>9 DEF StillJob

\* A rename takes the file of the job from one shape to the next, and leaves every
\* other file as it is.
LEMMA MovesSwap ==
    ASSUME OneFilesystem, SwapInv, Moves
    PROVE  /\ Rename /\ row' = row /\ job \in Jobs /\ job.file \in Files
           /\ job'.file = job.file /\ job'.stage = "rename" /\ job'.outcome = job.outcome
           /\ row[job.file].state = "transcoding"
           /\ \A g \in Files \ {job.file} : \A s \in Slots : disk'[g][s] = disk[g][s]
           /\ \A s \in Media \ {Home(job.file), HomeRetention(job.file), Final} :
                 disk'[job.file][s] = disk[job.file][s]
           /\ \/ job.pc = "restore" /\ job'.pc = "encode" /\ Between(job.file) /\ Before(job.file)'
              \/ /\ job.pc = "retain" /\ job'.pc = "install" /\ Before(job.file)
                 /\ Between(job.file)' /\ disk'[job.file]["tmp"] = disk[job.file]["tmp"]
              \/ /\ job.pc = "install" /\ job'.pc \in {"commit", "record"}
                 /\ Between(job.file) /\ After(job.file)'
              \/ job.pc = "rollback" /\ job'.pc = "fail" /\ Between(job.file) /\ Before(job.file)'
  <1> DEFINE f == job.file
             r == Retained(job.path)
  <1>0. /\ TypeOK /\ job \in Jobs /\ job.pc \in MovePcs /\ row' = row
        /\ f \in Files /\ job.path = Home(f) /\ r = HomeRetention(f)
        /\ row[f].state = "transcoding"
        /\ job'.file = f /\ job'.path = job.path /\ job'.outcome = job.outcome
        /\ MoveFrom \in Slots /\ MoveTo \in Slots /\ MoveFrom # MoveTo
    BY MovesDisk, JobIsAtHome DEF SwapInv, RowInv, OneFilesystem
  <1>1. Home(f) \in Paths /\ r \in Retentions /\ Final = "mkv"
    BY <1>0, HomeType DEF Final
  <1>2. Rename /\ job.stage = "rename"
    <2>1. job.stage = "rename"
      BY <1>0 DEF SwapInv, JobRenames
    <2>2. ~CopyStarts
      BY DEF OneFilesystem, CopyStarts, MayExdev
    <2> QED
      BY <2>1, <2>2 DEF Moves, CopyEnds, CopyRemovesSource
  <1>3. /\ job'.stage = "rename" /\ job'.pc = AfterMove /\ disk[f][MoveFrom] # "none"
        /\ \A g \in Files : \A s \in Slots : disk'[g][s] =
              IF g = f /\ (s = MoveFrom \/ (s = "tmp" /\ job.pc = "rollback"))
              THEN "none"
              ELSE IF g = f /\ s = MoveTo THEN disk[g][MoveFrom] ELSE disk[g][s]
    <2>1. job'.stage = "rename"
      BY <1>0, <1>2 DEF Rename, Goto, Jobs
    <2> QED
      BY <1>0, <1>2, <2>1, MovesDisk DEF Exists
  <1>4. \A g \in Files \ {f} : \A s \in Slots : disk'[g][s] = disk[g][s]
    BY <1>3
  <1>5. \A s \in Media \ {Home(f), HomeRetention(f), Final} : disk'[f][s] = disk[f][s]
    BY <1>0, <1>1, <1>3, SlotsByPc DEF Media
  <1>6. CASE job.pc \in {"restore", "rollback"}
    <2>1. MoveFrom = HomeRetention(f) /\ MoveTo = Home(f) /\ AfterMove \in {"encode", "fail"}
          /\ (job.pc = "restore" => AfterMove = "encode") /\ (job.pc = "rollback" => AfterMove = "fail")
      BY <1>0, <1>6, SlotsByPc
    <2>2. Between(f)
      BY <1>6 DEF SwapInv, JobKnowsShape
    <2>3. disk'[f][Home(f)] = "original" /\ disk'[f][HomeRetention(f)] = "none"
      BY <1>0, <1>1, <1>3, <2>1, <2>2 DEF Between
    <2>4. Home(f) # Final => disk'[f][Final] = "none"
      BY <1>0, <1>1, <1>3, <2>1, <2>2 DEF Between
    <2> QED
      BY <1>0, <1>2, <1>3, <1>4, <1>5, <1>6, <2>1, <2>2, <2>3, <2>4 DEF Before
  <1>7. CASE job.pc = "retain"
    <2>1. MoveFrom = Home(f) /\ MoveTo = HomeRetention(f) /\ AfterMove = "install"
      BY <1>0, <1>7, SlotsByPc
    <2>2. Before(f)
      BY <1>7 DEF SwapInv, JobKnowsShape
    <2>3. disk'[f][HomeRetention(f)] = "original" /\ disk'[f][Home(f)] = "none"
      BY <1>0, <1>1, <1>3, <2>1, <2>2 DEF Before
    <2>4. disk'[f][Final] = "none" /\ disk'[f]["tmp"] = disk[f]["tmp"]
      BY <1>0, <1>1, <1>3, <1>7, <2>1, <2>2, HomeType DEF Before
    <2> QED
      BY <1>0, <1>2, <1>3, <1>4, <1>5, <1>7, <2>1, <2>2, <2>3, <2>4 DEF Between
  <1>8. CASE job.pc = "install"
    <2>1. MoveFrom = "tmp" /\ MoveTo = Final /\ AfterMove \in {"commit", "record"}
      BY <1>0, <1>1, <1>8, SlotsByPc
    <2>2. Between(f) /\ disk[f]["tmp"] = "encode"
      BY <1>8 DEF SwapInv, JobKnowsShape, TempIsWhole
    <2>3. disk'[f][Final] = "encode" /\ disk'[f][HomeRetention(f)] = "original"
      BY <1>0, <1>1, <1>3, <1>8, <2>1, <2>2, HomeType DEF Between
    <2>4. Home(f) # Final => disk'[f][Home(f)] = "none"
      BY <1>0, <1>1, <1>3, <1>8, <2>1, <2>2, HomeType DEF Between
    <2> QED
      BY <1>0, <1>2, <1>3, <1>4, <1>5, <1>8, <2>1, <2>2, <2>3, <2>4 DEF After
  <1> QED
    BY <1>0, <1>6, <1>7, <1>8

LEMMA NextSwapInv == OneFilesystem => (SwapInv /\ [Next]_vars => SwapInv')
  <1> SUFFICES ASSUME OneFilesystem, SwapInv, [Next]_vars PROVE SwapInv'
    OBVIOUS
  <1>0. TypeOK /\ ~LateDispatch
    BY DEF SwapInv, RowInv, OneFilesystem
  <1>1. RowInv' /\ OutcomeIsCommit'
    BY <1>0, NextRowInv, NextOutcome DEF SwapInv
  <1>2. Completes \/ \A f \in Files : KeepsNames(f)
    BY <1>0, NextKeepsNames
  <1>3. CASE Still
    <2>1. Shaped' /\ JobKnowsShape' /\ JobRenames' /\ TempIsWhole'
      BY <1>0, <1>3, StillShaped, StillSwapInv DEF SwapInv
    <2>2. DoneIsAfter'
      <3> SUFFICES ASSUME NEW f \in Files, row'[f].state = "done" PROVE After(f)'
        BY DEF DoneIsAfter
      <3>1. CASE KeepsNames(f)
        BY <1>0, <1>3, <3>1, StillKeepsShape DEF SwapInv, DoneIsAfter, KeepsNames
      <3>2. CASE Completes /\ f = job.file
        <4>1. After(f)
          BY <3>2 DEF SwapInv, JobKnowsShape, Committing, Completes
        <4> QED
          BY <1>0, <1>3, <4>1, StillKeepsShape
      <3>3. CASE Completes /\ f # job.file
        <4>1. row'[f] = row[f]
          BY <1>0, <3>3 DEF Completes, TypeOK, Jobs
        <4> QED
          BY <1>0, <1>3, <4>1, StillKeepsShape DEF SwapInv, DoneIsAfter
      <3> QED
        BY <1>2, <3>1, <3>2, <3>3
    <2> QED
      BY <1>1, <2>1, <2>2 DEF SwapInv
  <1>4. CASE Moves
    <2> DEFINE f == job.file
    <2>1. \A g \in Files \ {f} : /\ Before(g)' <=> Before(g)
                                 /\ Between(g)' <=> Between(g)
                                 /\ After(g)' <=> After(g)
      <3> SUFFICES ASSUME NEW g \in Files \ {f}
                   PROVE  /\ Before(g)' <=> Before(g)
                          /\ Between(g)' <=> Between(g)
                          /\ After(g)' <=> After(g)
        OBVIOUS
      <3>1. /\ disk'[g][Home(g)] = disk[g][Home(g)]
            /\ disk'[g][HomeRetention(g)] = disk[g][HomeRetention(g)]
            /\ disk'[g][Final] = disk[g][Final]
        BY <1>4, MovesSwap, HomeType DEF Final
      <3> QED
        BY <3>1 DEF Before, Between, After
    <2>2. Before(f)' \/ Between(f)' \/ After(f)'
      BY <1>4, MovesSwap
    <2>3. Shaped'
      <3> SUFFICES ASSUME NEW g \in Files
                   PROVE  /\ Before(g)' \/ Between(g)' \/ After(g)'
                          /\ \A s \in Media \ {Home(g), HomeRetention(g), Final} :
                                disk'[g][s] = "none"
        BY DEF Shaped
      <3>1. Before(g)' \/ Between(g)' \/ After(g)'
        <4>1. CASE g = f
          BY <1>4, <2>2, <4>1, MovesSwap DEF Before, Between, After, Home, HomeRetention
        <4>2. CASE g # f
          BY <2>1, <4>2 DEF SwapInv, Shaped
        <4> QED
          BY <4>1, <4>2
      <3>2. \A s \in Media \ {Home(g), HomeRetention(g), Final} : disk'[g][s] = disk[g][s]
        BY <1>4, MovesSwap DEF Media
      <3> QED
        BY <3>1, <3>2 DEF SwapInv, Shaped
    <2>4. DoneIsAfter'
      BY <1>4, <2>1, MovesSwap DEF SwapInv, DoneIsAfter
    <2>5. JobKnowsShape'
      BY <1>4, MovesSwap DEF SwapInv, OutcomeIsCommit, JobKnowsShape, Committing, Skipping
    <2>6. JobRenames'
      BY <1>4, MovesSwap DEF JobRenames
    <2>7. TempIsWhole'
      BY <1>4, MovesSwap DEF SwapInv, TempIsWhole
    <2> QED
      BY <1>1, <2>3, <2>4, <2>5, <2>6, <2>7 DEF SwapInv
  <1> QED
    BY <1>3, <1>4, StillOrMoves

LEMMA SwapInvariant == OneFilesystem => (Spec => []SwapInv)
  <1> SUFFICES ASSUME OneFilesystem PROVE Spec => []SwapInv
    OBVIOUS
  <1>1. SwapInv /\ [Next]_vars => SwapInv'
    BY NextSwapInv
  <1> QED
    BY <1>1, InitSwapInv, PTL DEF Spec

\* On one filesystem a done row tells the truth about the disk: a whole encode at
\* its path, the original where its one retention row says.  (A copied install can
\* leave half an encode there, and a late id can encode the encode.)
THEOREM DoneRowsAreSwapped == OneFilesystem => (Spec => []DoneIsSwapped)
  <1> SUFFICES ASSUME OneFilesystem PROVE Spec => []DoneIsSwapped
    OBVIOUS
  <1>1. SwapInv => DoneIsSwapped
    <2> SUFFICES ASSUME SwapInv, NEW f \in Files, row[f].state = "done"
                 PROVE  /\ row[f].path = Final
                        /\ disk[f][Final] = "encode"
                        /\ \E s \in Retentions : row[f].kept = {s} /\ disk[f][s] = "original"
      BY DEF DoneIsSwapped
    <2>1. row[f].path = Final /\ row[f].kept = {HomeRetention(f)}
      BY DEF SwapInv, RowInv, RowNames
    <2>2. disk[f][Final] = "encode" /\ disk[f][HomeRetention(f)] = "original"
      BY DEF SwapInv, DoneIsAfter, After
    <2> QED
      BY <2>1, <2>2, HomeType
  <1>2. Spec => []SwapInv
    BY SwapInvariant
  <1> QED
    BY <1>1, <1>2, PTL

\* An encode in place with the original in retention is the shape After.
LEMMA ReplacedIsAfter ==
    ASSUME SwapInv, NEW f \in Files
    PROVE  Replaced(f) <=> After(f)
  <1>1. Before(f) \/ Between(f) \/ After(f)
    BY DEF SwapInv, Shaped
  <1>2. After(f) => Replaced(f)
    BY HomeType DEF After, Replaced
  <1>3. Before(f) \/ Between(f) => ~Replaced(f)
    BY DEF Before, Between, Replaced
  <1> QED
    BY <1>1, <1>2, <1>3

\* No step leaves the shape After.
LEMMA AfterIsKept ==
    ASSUME OneFilesystem, SwapInv, [Next]_vars, NEW f \in Files, After(f)
    PROVE  UNCHANGED <<disk[f]["src"], disk[f]["mkv"], disk[f]["retSrc"], disk[f]["retMkv"]>>
  <1>0. TypeOK
    BY DEF SwapInv, RowInv
  <1>1. CASE Still
    BY <1>0, <1>1, StillDisk DEF Media
  <1>2. CASE Moves
    <2>1. f # job.file
      BY <1>2, MovesSwap, ShapesDiffer
    <2> QED
      BY <1>2, <2>1, MovesSwap
  <1> QED
    BY <1>1, <1>2, StillOrMoves

\* On one filesystem the install is the point of no return: once the encode is in
\* place and the original retained, no recovery, failure, rollback or requeue
\* takes it back.
THEOREM InstallIsFinal == OneFilesystem => (Spec => SwapIsNeverUndone)
  <1> SUFFICES ASSUME OneFilesystem PROVE Spec => SwapIsNeverUndone
    OBVIOUS
  <1> DEFINE Kept == \A f \in Files : \A s \in Retentions :
                        disk[f][s] = "original" /\ disk[f][Final] = "encode"
                          => disk'[f][s] = "original" /\ disk'[f][Final] = "encode"
  <1>1. SwapInv /\ [Next]_vars => Kept
    <2> SUFFICES ASSUME SwapInv, [Next]_vars, NEW f \in Files, NEW s \in Retentions,
                        disk[f][s] = "original", disk[f][Final] = "encode"
                 PROVE  disk'[f][s] = "original" /\ disk'[f][Final] = "encode"
      OBVIOUS
    <2>1. After(f)
      BY ReplacedIsAfter DEF Replaced
    <2> QED
      BY <2>1, AfterIsKept DEF Final
  <1>2. Spec => []SwapInv
    BY SwapInvariant
  <1>3. Spec => [][Kept]_vars
    BY <1>1, <1>2, PTL DEF Spec
  <1> QED
    BY <1>3 DEF SwapIsNeverUndone

-----------------------------------------------------------------------------
(* The refinement: on one filesystem the worker implements AtomicSwap.     *)

\* The two variables of AtomicSwap under the refinement mapping.
Phase == [f \in Files |-> row[f].state]
Library == [f \in Files |-> IF Replaced(f) THEN "encode" ELSE "original"]

LEMMA PhaseBecomes ==
    ASSUME NEW g \in Files, NEW p, row'[g].state = p,
           \A f \in Files \ {g} : row'[f].state = row[f].state
    PROVE  Phase' = [Phase EXCEPT ![g] = p]
  BY DEF Phase

LEMMA LibraryStays ==
    ASSUME \A f \in Files : Replaced(f)' <=> Replaced(f)
    PROVE  Library' = Library
  BY DEF Library

LEMMA StillKeepsLibrary == ASSUME TypeOK, Still PROVE Library' = Library
  <1>1. \A f \in Files : Replaced(f)' <=> Replaced(f)
    BY StillDisk DEF Replaced, Media, Final
  <1> QED
    BY <1>1, LibraryStays

\* A move of the running job is a stutter, or the replacement when it installs.
LEMMA MovesRefine ==
    ASSUME OneFilesystem, SwapInv, Moves
    PROVE  [AtomicSwap!Next]_(AtomicSwap!vars)
  <1> DEFINE f == job.file
  <1>1. /\ f \in Files /\ row' = row /\ row[f].state = "transcoding" /\ job'.file = f
        /\ \A g \in Files \ {f} : \A s \in Slots : disk'[g][s] = disk[g][s]
    BY MovesSwap
  <1>2. Phase' = Phase
    BY <1>1 DEF Phase
  <1>3. \A g \in Files \ {f} : Replaced(g)' <=> Replaced(g)
    BY <1>1 DEF Replaced, Final
  <1>4. CASE Between(f) /\ After(f)'
    <2>1. ~Replaced(f)
      BY <1>4 DEF Between, Replaced
    <2>2. disk'[f][Final] = "encode" /\ disk'[f][HomeRetention(f)] = "original"
      BY <1>1, <1>4 DEF After, Home, HomeRetention
    <2>3. \E s \in Retentions : disk'[f][s] = "original"
      BY <1>1, <2>2, HomeType
    <2>4. Library' = [Library EXCEPT ![f] = "encode"]
      BY <1>1, <1>3, <2>2, <2>3 DEF Library, Replaced, Final
    <2>5. Phase[f] = "transcoding" /\ Library[f] = "original"
      BY <1>1, <2>1 DEF Phase, Library
    <2>6. AtomicSwap!Replace(f)
      BY <1>2, <2>4, <2>5 DEF AtomicSwap!Replace, Phase, Library
    <2> QED
      BY <1>1, <2>6 DEF AtomicSwap!Next
  <1>5. CASE \/ Between(f) /\ Before(f)'
             \/ Before(f) /\ Between(f)'
    <2>1. disk[f][Final] # "encode"
      BY <1>5 DEF Before, Between
    <2>2. disk'[f][Final] # "encode"
      BY <1>1, <1>5 DEF Before, Between, Home, Final
    <2>3. Library' = Library
      BY <1>1, <1>3, <2>1, <2>2 DEF Library, Replaced, Final
    <2> QED
      BY <1>2, <2>3 DEF AtomicSwap!vars, Phase, Library
  <1> QED
    BY <1>4, <1>5, MovesSwap

LEMMA PipelineRefines ==
    ASSUME OneFilesystem, SwapInv, Pipeline
    PROVE  [AtomicSwap!Next]_(AtomicSwap!vars)
  <1>0. TypeOK /\ row \in [Files -> Rows] /\ \A f \in Files : row[f] \in Rows
    BY DEF SwapInv, RowInv, TypeOK
  <1>1. Library' = Library
    BY <1>0, StillKeepsLibrary DEF Still
  <1>2. ASSUME NEW f \in Files, Accept(f) PROVE AtomicSwap!Decide(f)
    <2>1. [row[f] EXCEPT !.state = "transcoding", !.vmaf = "none"].state = "transcoding"
      BY <1>0 DEF Rows
    <2>2. Phase' = [Phase EXCEPT ![f] = "transcoding"]
      BY <1>0, <1>2, <2>1, PhaseBecomes DEF Accept, SetRow
    <2> QED
      BY <1>1, <1>2, <2>2 DEF Accept, AtomicSwap!Decide, AtomicSwap!Become, Phase, Library
  <1>3. ASSUME NEW f \in Files, TurnDown(f) PROVE AtomicSwap!Decide(f)
    <2>1. PICK score \in {row[f].vmaf, "none"} :
             SetRow(f, [row[f] EXCEPT !.state = "skipped", !.vmaf = score])
      BY <1>3 DEF TurnDown
    <2>2. [row[f] EXCEPT !.state = "skipped", !.vmaf = score].state = "skipped"
      BY <1>0 DEF Rows
    <2>3. Phase' = [Phase EXCEPT ![f] = "skipped"]
      BY <1>0, <2>1, <2>2, PhaseBecomes DEF SetRow
    <2> QED
      BY <1>1, <1>3, <2>3 DEF TurnDown, AtomicSwap!Decide, AtomicSwap!Become, Phase, Library
  <1>4. ASSUME NEW f \in Files, ProbeFails(f) PROVE AtomicSwap!Decide(f)
    <2>1. [row[f] EXCEPT !.state = "failed"].state = "failed"
      BY <1>0 DEF Rows
    <2>2. Phase' = [Phase EXCEPT ![f] = "failed"]
      BY <1>0, <1>4, <2>1, PhaseBecomes DEF ProbeFails, SetRow
    <2> QED
      BY <1>1, <1>4, <2>2 DEF ProbeFails, AtomicSwap!Decide, AtomicSwap!Become, Phase, Library
  <1>5. ASSUME NEW f \in Files, RequeueFailed(f) PROVE AtomicSwap!Retry(f)
    <2>1. [row[f] EXCEPT !.state = "waiting"].state = "waiting"
      BY <1>0 DEF Rows
    <2>2. Phase' = [Phase EXCEPT ![f] = "waiting"]
      BY <1>0, <1>5, <2>1, PhaseBecomes DEF RequeueFailed, SetRow
    <2> QED
      BY <1>1, <1>5, <2>2 DEF RequeueFailed, AtomicSwap!Retry, AtomicSwap!Become, Phase, Library
  <1>6. ASSUME RecheckQualitySkips \/ RequeueQualitySkips PROVE AtomicSwap!Reconsider
    <2>1. PICK S \in SUBSET {f \in Files : row[f].state = "skipped"} : BackToTranscoding(S)
      BY <1>6 DEF RecheckQualitySkips, RequeueQualitySkips, QualitySkips
    <2>2. S \in SUBSET {f \in Files : Phase[f] = "skipped"}
      BY DEF Phase
    <2>3. \A f \in Files : row'[f].state = IF f \in S THEN "transcoding" ELSE row[f].state
      BY <1>0, <2>1 DEF BackToTranscoding, Rows
    <2>4. Phase' = [f \in Files |-> IF f \in S THEN "transcoding" ELSE Phase[f]]
      BY <2>3 DEF Phase
    <2> QED
      BY <1>1, <2>2, <2>4 DEF AtomicSwap!Reconsider, Phase, Library
  <1>7. ASSUME NEW f \in Files, OtherRowTakes(f) \/ OtherRowLeaves(f)
        PROVE  UNCHANGED AtomicSwap!vars
    <2>1. Phase' = Phase
      BY <1>7 DEF OtherRowTakes, OtherRowLeaves, Phase
    <2> QED
      BY <1>1, <2>1 DEF AtomicSwap!vars, Phase, Library
  <1> QED
    BY <1>2, <1>3, <1>4, <1>5, <1>6, <1>7 DEF Pipeline, AtomicSwap!Next

\* The one write of the row that ends a job, by the shape the job has seen.
LEMMA RecordRefines ==
    ASSUME OneFilesystem, SwapInv, Record
    PROVE  [AtomicSwap!Next]_(AtomicSwap!vars)
  <1>0. TypeOK /\ row \in [Files -> Rows] /\ \A g \in Files : row[g] \in Rows
    BY DEF SwapInv, RowInv, TypeOK
  <1>1. Library' = Library
    BY <1>0, StillKeepsLibrary DEF Still
  <1>2. PICK f \in Files : job \in Jobs /\ f = job.file /\ row[f].state = "transcoding"
    BY <1>0, RecordRows, JobIsAtHome DEF SwapInv, OneFilesystem
  <1>3. CASE RecordVmaf \/ RecordVmafFails \/ CommitClashes \/ OutcomeLost
    <2>1. \A g \in Files : row'[g].state = row[g].state
      BY <1>0, <1>2, <1>3 DEF RecordVmaf, RecordVmafFails, CommitClashes, OutcomeLost, SetRow, Rows
    <2>2. Phase' = Phase
      BY <2>1 DEF Phase
    <2> QED
      BY <1>1, <2>2 DEF AtomicSwap!vars, Phase, Library
  <1>4. ASSUME CompleteTranscode PROVE AtomicSwap!Complete(f)
    <2> DEFINE r == [row[f] EXCEPT !.state = "done", !.path = Final,
                                   !.kept = @ \union {Retained(job.path)}]
    <2>1. r.state = "done"
      BY <1>0, <1>2 DEF Rows
    <2>2. row' = [row EXCEPT ![f] = r]
      BY <1>2, <1>4 DEF CompleteTranscode, CompareAndSwap, SetRow
    <2>3. Phase' = [Phase EXCEPT ![f] = "done"]
      BY <1>0, <1>2, <2>1, <2>2, PhaseBecomes
    <2>4. Library[f] = "encode"
      BY <1>2, <1>4, ReplacedIsAfter
         DEF SwapInv, JobKnowsShape, Committing, CompleteTranscode, At, Library
    <2> QED
      BY <1>1, <1>2, <2>3, <2>4 DEF AtomicSwap!Complete, AtomicSwap!Become, Phase, Library
  <1>5. ASSUME ApplySkipped PROVE AtomicSwap!Decline(f)
    <2> DEFINE r == [row[f] EXCEPT !.state = "skipped"]
    <2>1. r.state = "skipped"
      BY <1>0, <1>2 DEF Rows
    <2>2. row' = [row EXCEPT ![f] = r]
      BY <1>2, <1>5 DEF ApplySkipped, CompareAndSwap, SetRow
    <2>3. Phase' = [Phase EXCEPT ![f] = "skipped"]
      BY <1>0, <1>2, <2>1, <2>2, PhaseBecomes
    <2>4. Library[f] = "original"
      BY <1>2, <1>5, ReplacedIsAfter, ShapesDiffer
         DEF SwapInv, JobKnowsShape, Skipping, ApplySkipped, At, Library
    <2> QED
      BY <1>1, <1>2, <2>3, <2>4 DEF AtomicSwap!Decline, AtomicSwap!Become, Phase, Library
  <1>6. ASSUME ApplyFailed PROVE AtomicSwap!Abort(f)
    <2> DEFINE r == [row[f] EXCEPT !.state = "failed", !.failedBefore = TRUE]
    <2>1. r.state = "failed"
      BY <1>0, <1>2 DEF Rows
    <2>2. row' = [row EXCEPT ![f] = r]
      BY <1>2, <1>6 DEF ApplyFailed, CompareAndSwap, SetRow
    <2>3. Phase' = [Phase EXCEPT ![f] = "failed"]
      BY <1>0, <1>2, <2>1, <2>2, PhaseBecomes
    <2> QED
      BY <1>1, <1>2, <2>3 DEF AtomicSwap!Abort, AtomicSwap!Become, Phase, Library
  <1>7. CASE CompleteTranscode \/ ApplySkipped \/ ApplyFailed
    BY <1>2, <1>4, <1>5, <1>6, <1>7 DEF AtomicSwap!Next
  <1> QED
    BY <1>3, <1>7 DEF Record

LEMMA NextRefines ==
    OneFilesystem => (SwapInv /\ [Next]_vars => [AtomicSwap!Next]_(AtomicSwap!vars))
  <1> SUFFICES ASSUME OneFilesystem, SwapInv, [Next]_vars
               PROVE  [AtomicSwap!Next]_(AtomicSwap!vars)
    OBVIOUS
  <1>1. CASE Moves
    BY <1>1, MovesRefine
  <1>2. CASE Pipeline
    BY <1>2, PipelineRefines
  <1>3. CASE Record
    BY <1>3, RecordRefines
  <1>4. CASE Still /\ UNCHANGED row
    <2>1. Phase' = Phase
      BY <1>4 DEF Phase
    <2>2. Library' = Library
      BY <1>4, StillKeepsLibrary DEF SwapInv, RowInv
    <2> QED
      BY <2>1, <2>2 DEF AtomicSwap!vars, Phase, Library
  <1>5. Still => Pipeline \/ Record \/ UNCHANGED row
    BY QuietSteps DEF Still, vars, Dispatch, Start, Move
  <1> QED
    BY <1>1, <1>2, <1>3, <1>4, <1>5, StillOrMoves

\* On one filesystem, and with only rows in transcoding dispatched, the encode,
\* the two renames, the rollback, the recovery after a crash and the commits are
\* together one atomic replacement, done once and recorded afterwards.
THEOREM WorkerImplementsAtomicSwap == OneFilesystem => (Spec => ImplementsAtomicSwap)
  <1> SUFFICES ASSUME OneFilesystem PROVE Spec => AtomicSwap!Spec
    BY DEF ImplementsAtomicSwap
  <1>1. Init => AtomicSwap!Init
    <2> SUFFICES ASSUME Init PROVE AtomicSwap!Init
      OBVIOUS
    <2>1. \A f \in Files : ~Replaced(f)
      BY DEF Init, Replaced, Final
    <2>2. \A f \in Files : row[f].state = "waiting"
      BY DEF Init
    <2> QED
      BY <2>1, <2>2 DEF AtomicSwap!Init
  <1>2. SwapInv /\ [Next]_vars => [AtomicSwap!Next]_(AtomicSwap!vars)
    BY NextRefines
  <1>3. Spec => []SwapInv
    BY SwapInvariant
  <1> QED
    BY <1>1, <1>2, <1>3, PTL DEF Spec, AtomicSwap!Spec

-----------------------------------------------------------------------------
(* When only the install may be a copy: what a row and a skip say of the   *)
(* original, also when ids arrive late.                                    *)

AtHome(f) == disk[f][Home(f)] = "original" /\ disk[f][HomeRetention(f)] = "none"
InRetention(f) == disk[f][HomeRetention(f)] = "original"

OpenIsPlaced == \A f \in Files : row[f].state # "done" => AtHome(f) \/ InRetention(f)

\* Where the original's path is also the final one, the file there keeps a late
\* job from restoring the original over it.
DoneIsKept ==
    \A f \in Files : row[f].state = "done" =>
        InRetention(f) /\ (f \in MkvFiles => Exists(f, Final))

\* From the retaining rename on, and until it is recorded, the original is in
\* retention; what is to be committed is at the final path.
OpenJobKeeps ==
    job \in Jobs /\ row[job.file].state # "done" =>
        /\ job.pc \in {"install", "rollback"} \/ Committing => InRetention(job.file)
        /\ Committing => Exists(job.file, Final)

SkipHasNoRetention == Skipping => disk[job.file][Retained(job.path)] = "none"

\* A copied install has its source until it is complete.
CopyHasSource ==
    job.pc = "install" =>
        /\ job.stage \in {"copying", "copied"} => Exists(job.file, "tmp")
        /\ job.stage = "copied" => Exists(job.file, Final)

\* A late job on a done row whose path never changed gets no further than the
\* recovery.
DoneMkvIsLeft ==
    job \in Jobs /\ row[job.file].state = "done" /\ job.file \in MkvFiles =>
        job.pc \in {"recover", "commit", "fail"}

KeptInv ==
    /\ IInv
    /\ RowInv
    /\ OutcomeIsCommit
    /\ OpenIsPlaced
    /\ DoneIsKept
    /\ OpenJobKeeps
    /\ SkipHasNoRetention
    /\ CopyHasSource
    /\ DoneMkvIsLeft

LEMMA InitKeptInv == Init => KeptInv
  <1> SUFFICES ASSUME Init PROVE KeptInv
    OBVIOUS
  <1>1. OpenIsPlaced /\ DoneIsKept
    BY DEF Init, OpenIsPlaced, DoneIsKept, AtHome, Home, HomeRetention, Retained
  <1>2. job = NoJob /\ job.pc = "idle" /\ job \notin Jobs
    BY InitType, JobOrNone DEF Init, NoJob
  <1>3. OutcomeIsCommit /\ OpenJobKeeps /\ SkipHasNoRetention /\ CopyHasSource /\ DoneMkvIsLeft
    BY <1>2 DEF OutcomeIsCommit, OpenJobKeeps, SkipHasNoRetention, CopyHasSource, DoneMkvIsLeft,
                Committing, Skipping
  <1> QED
    BY <1>1, <1>3, InitIInv, InitRowInv DEF KeptInv

\* A job on a row that is not done works on the names of the original; on a done
\* row it works on the final path.
LEMMA JobNames ==
    ASSUME RowInv, job \in Jobs
    PROVE  /\ job.file \in Files
           /\ row[job.file].state # "done" =>
                 job.path = Home(job.file) /\ Retained(job.path) = HomeRetention(job.file)
           /\ row[job.file].state = "done" => job.path = "mkv" /\ Retained(job.path) = "retMkv"
  BY JobOrNone DEF RowInv, JobPath, RowNames, HomeRetention, Retained, Final, Jobs

LEMMA StillPlaces ==
    ASSUME KeptInv, Still
    PROVE  OpenIsPlaced' /\ DoneIsKept'
  <1>0. TypeOK /\ [Next]_vars
    BY DEF KeptInv, RowInv, Still, Next, JobStep, Move
  <1>1. \A f \in Files : /\ AtHome(f)' <=> AtHome(f)
                         /\ InRetention(f)' <=> InRetention(f)
                         /\ Exists(f, Final)' <=> Exists(f, Final)
    <2> SUFFICES ASSUME NEW f \in Files
                 PROVE  /\ AtHome(f)' <=> AtHome(f)
                        /\ InRetention(f)' <=> InRetention(f)
                        /\ Exists(f, Final)' <=> Exists(f, Final)
      OBVIOUS
    <2>1. /\ disk'[f][Home(f)] = disk[f][Home(f)]
          /\ disk'[f][HomeRetention(f)] = disk[f][HomeRetention(f)]
          /\ disk'[f][Final] = disk[f][Final]
      BY <1>0, StillDisk, HomeType DEF Media, Final
    <2> QED
      BY <2>1 DEF AtHome, InRetention, Exists
  <1>2. CASE \A f \in Files : KeepsNames(f)
    BY <1>1, <1>2 DEF KeptInv, OpenIsPlaced, DoneIsKept, KeepsNames
  <1>3. CASE Completes
    <2>1. job.file \in Files /\ \A f \in Files \ {job.file} : row'[f] = row[f]
      BY <1>0, <1>3 DEF Completes, TypeOK, Jobs
    <2>2. row'[job.file].state = "done"
      BY <1>0, <1>3, <2>1 DEF Completes, TypeOK, Rows
    <2>3. InRetention(job.file) /\ Exists(job.file, Final)
      BY <1>3 DEF KeptInv, OpenJobKeeps, Committing, Completes
    <2> QED
      BY <1>1, <2>1, <2>2, <2>3 DEF KeptInv, OpenIsPlaced, DoneIsKept
  <1> QED
    BY <1>0, <1>2, <1>3, NextKeepsNames

LEMMA StillKeptJob ==
    ASSUME KeptInv, Still
    PROVE  OpenJobKeeps' /\ SkipHasNoRetention' /\ CopyHasSource' /\ DoneMkvIsLeft'
  <1> DEFINE Goal == OpenJobKeeps' /\ SkipHasNoRetention' /\ CopyHasSource' /\ DoneMkvIsLeft'
             f == job.file
  <1>0. TypeOK /\ [Next]_vars /\ StillJob
    BY StillTakes DEF KeptInv, RowInv, Still, Next, JobStep, Move
  <1>1. CASE job' = NoJob
    <2>1. job' \notin Jobs /\ job'.pc = "idle"
      BY <1>1 DEF NoJob, Jobs
    <2> QED
      BY <2>1 DEF OpenJobKeeps, SkipHasNoRetention, CopyHasSource, DoneMkvIsLeft,
                  Committing, Skipping
  <1>2. CASE job'.pc = "fail" \/ job'.pc = "recover"
    BY <1>2 DEF OpenJobKeeps, SkipHasNoRetention, CopyHasSource, DoneMkvIsLeft,
                Committing, Skipping
  <1>3. job' # NoJob => \A g \in Files : KeepsNames(g)
    BY <1>0, NextKeepsNames DEF Completes
  <1>4. CASE job' = job /\ UNCHANGED disk /\ job' # NoJob
    <2>1. job \in Jobs /\ f \in Files /\ KeepsNames(f)
      BY <1>0, <1>3, <1>4, JobOrNone DEF Jobs
    <2> QED
      BY <1>4, <2>1 DEF KeptInv, OpenJobKeeps, SkipHasNoRetention, CopyHasSource, DoneMkvIsLeft,
              Committing, Skipping, KeepsNames, InRetention, Exists, Retained
  <1>5. ASSUME NEW from, NEW to, Passes(from, to), job' # NoJob
        PROVE  /\ job \in Jobs /\ f \in Files /\ job.pc = from /\ job'.pc = to
               /\ job'.file = f /\ job'.path = job.path
               /\ row'[f].state = "done" <=> row[f].state = "done"
               /\ row[f].state # "done" =>
                     job.path = Home(f) /\ Retained(job.path) = HomeRetention(f)
               /\ row[f].state = "done" => job.path = "mkv" /\ Retained(job.path) = "retMkv"
               /\ \A s \in Media : disk'[f][s] = disk[f][s]
    BY <1>0, <1>3, <1>5, JobNames, StillDisk DEF KeptInv, Passes, KeepsNames
  <1>6. ASSUME UNCHANGED disk, job' # NoJob,
               \/ Passes("recover", "encode") /\ ~Exists(f, Retained(job.path))
               \/ /\ Passes("recover", "restore")
                  /\ Exists(f, Retained(job.path)) /\ ~Exists(f, Final)
        PROVE  Goal
    <2>1. row[f].state = "done" => f \notin MkvFiles
      BY <1>5, <1>6 DEF KeptInv, DoneIsKept, InRetention, Home, HomeRetention, Retained, Exists
    <2> QED
      BY <1>5, <1>6, <2>1 DEF OpenJobKeeps, SkipHasNoRetention, CopyHasSource, DoneMkvIsLeft,
              Committing, Skipping
  <1>7. ASSUME UNCHANGED disk, job' # NoJob, Passes("recover", "commit"),
               Exists(f, Retained(job.path)), Exists(f, Final)
        PROVE  Goal
    <2>1. row[f].state # "done" => InRetention(f)
      BY <1>5, <1>7 DEF KeptInv, OpenIsPlaced, AtHome, Exists
    <2> QED
      BY <1>5, <1>7, <2>1 DEF OpenJobKeeps, SkipHasNoRetention, CopyHasSource, DoneMkvIsLeft,
              Committing, Skipping, InRetention, Exists
  <1>8. ASSUME UNCHANGED disk, job' # NoJob, job'.outcome = job.outcome,
               Passes("install", "rollback") \/ Passes("record", job.outcome)
        PROVE  Goal
    <2>1. job.outcome \in {"commit", "skip"}
      BY <1>8 DEF Passes, Jobs
    <2> QED
      BY <1>5, <1>8, <2>1 DEF KeptInv, OpenJobKeeps, SkipHasNoRetention, CopyHasSource,
              DoneMkvIsLeft, Committing, Skipping, InRetention, Exists
  <1>9. ASSUME job' # NoJob, Passes("encode", "gates") \/ Passes("gates", "retain")
        PROVE  Goal
    BY <1>5, <1>9 DEF KeptInv, OpenJobKeeps, SkipHasNoRetention, CopyHasSource, DoneMkvIsLeft,
            Committing, Skipping
  <1>10. ASSUME job' # NoJob, \/ Passes("gates", "skip")
                              \/ Passes("gates", "record") /\ job'.outcome = "skip"
         PROVE  Goal
    <2>1. disk[f][Retained(job.path)] = "none" /\ Retained(job.path) \in Media
      BY <1>5, <1>10, RetainedType DEF KeptInv, IInv, RetentionIsFree, Media, Jobs
    <2>2. disk'[f][Retained(job.path)] = "none"
      BY <1>5, <1>10, <2>1
    <2> QED
      BY <1>5, <1>10, <2>2 DEF KeptInv, OpenJobKeeps, SkipHasNoRetention, CopyHasSource,
              DoneMkvIsLeft, Committing, Skipping, Retained
  <1> QED
    BY <1>0, <1>1, <1>2, <1>4, <1>6, <1>7, <1>8, <1>9, <1>10 DEF StillJob

LEMMA MovesKept ==
    ASSUME "retain" \notin ExdevMoves, KeptInv, Moves
    PROVE  /\ OpenIsPlaced' /\ DoneIsKept'
           /\ OpenJobKeeps' /\ SkipHasNoRetention' /\ CopyHasSource' /\ DoneMkvIsLeft'
  <1> DEFINE f == job.file
             r == Retained(job.path)
  <1>0. /\ TypeOK /\ job \in Jobs /\ job.pc \in MovePcs /\ row' = row
        /\ f \in Files /\ job'.file = f /\ job'.path = job.path /\ job'.outcome = job.outcome
        /\ MoveFrom \in Slots /\ MoveTo \in Slots /\ MoveFrom # MoveTo
        /\ job.path \in Paths /\ r \in Retentions
    BY MovesDisk, RetainedType DEF KeptInv, RowInv, Jobs
  <1>1. job.outcome = "commit"
    BY <1>0 DEF KeptInv, OutcomeIsCommit
  <1>2. job.pc # "install" => Rename
    BY DEF KeptInv, IInv, OnlyInstallCopies, Moves, Rename, CopyStarts, CopyEnds,
           CopyRemovesSource, MayExdev, At
  <1>3. Rename => /\ job'.pc = AfterMove /\ job'.stage = "rename" /\ disk[f][MoveFrom] # "none"
                  /\ \A g \in Files : \A s \in Slots : disk'[g][s] =
                        IF g = f /\ (s = MoveFrom \/ (s = "tmp" /\ job.pc = "rollback"))
                        THEN "none"
                        ELSE IF g = f /\ s = MoveTo THEN disk[g][MoveFrom] ELSE disk[g][s]
    <2> SUFFICES ASSUME Rename
                 PROVE  /\ job'.pc = AfterMove /\ job'.stage = "rename"
                        /\ disk[f][MoveFrom] # "none"
                        /\ \A g \in Files : \A s \in Slots : disk'[g][s] =
                              IF g = f /\ (s = MoveFrom \/ (s = "tmp" /\ job.pc = "rollback"))
                              THEN "none"
                              ELSE IF g = f /\ s = MoveTo THEN disk[g][MoveFrom] ELSE disk[g][s]
      OBVIOUS
    <2>1. job.stage = "rename" /\ job'.stage = "rename"
      BY <1>0 DEF Rename, Goto, Jobs
    <2> QED
      BY <1>0, <2>1, MovesDisk DEF Exists
  <1>4. \A g \in Files \ {f} : \A s \in Slots : disk'[g][s] = disk[g][s]
    BY <1>0, MovesDisk
  <1>5. ASSUME NEW g \in Files \ {f}
        PROVE  /\ AtHome(g)' <=> AtHome(g)
               /\ InRetention(g)' <=> InRetention(g)
               /\ Exists(g, Final)' <=> Exists(g, Final)
    <2>1. /\ disk'[g][Home(g)] = disk[g][Home(g)]
          /\ disk'[g][HomeRetention(g)] = disk[g][HomeRetention(g)]
          /\ disk'[g][Final] = disk[g][Final]
      BY <1>4, HomeType DEF Final
    <2> QED
      BY <2>1 DEF AtHome, InRetention, Exists
  <1>6. /\ row[f].state # "done" => AtHome(f)' \/ InRetention(f)'
        /\ row[f].state = "done" => InRetention(f)' /\ (f \in MkvFiles => Exists(f, Final)')
        => OpenIsPlaced' /\ DoneIsKept'
    <2> SUFFICES ASSUME row[f].state # "done" => AtHome(f)' \/ InRetention(f)',
                        row[f].state = "done" =>
                           InRetention(f)' /\ (f \in MkvFiles => Exists(f, Final)'),
                        NEW g \in Files
                 PROVE  /\ row'[g].state # "done" => AtHome(g)' \/ InRetention(g)'
                        /\ row'[g].state = "done" =>
                              InRetention(g)' /\ (g \in MkvFiles => Exists(g, Final)')
      BY DEF OpenIsPlaced, DoneIsKept
    <2>1. CASE g = f
      BY <1>0, <2>1 DEF AtHome, InRetention, Exists, Home, HomeRetention
    <2>2. CASE g # f
      BY <1>0, <1>5, <2>2 DEF KeptInv, OpenIsPlaced, DoneIsKept
    <2> QED
      BY <2>1, <2>2
  <1>7. ~Skipping'
    BY <1>0, <1>1, MovesDisk, SlotsByPc DEF Skipping
  <1>8. SkipHasNoRetention'
    BY <1>7 DEF SkipHasNoRetention
  <1>9. CopyHasSource'
    <2>1. CASE job.pc = "install"
      <3>1. MoveFrom = "tmp" /\ MoveTo = "mkv" /\ AfterMove # "install"
        BY <1>0, <2>1, SlotsByPc
      <3>2. job.stage = "copying" => disk[f]["tmp"] # "none"
        BY <2>1 DEF KeptInv, CopyHasSource, Exists
      <3> QED
        BY <1>0, <2>1, <3>1, <3>2, MovesDisk DEF CopyHasSource, Exists, Final
    <2>2. CASE job.pc # "install"
      BY <1>2, <1>3, <2>2 DEF CopyHasSource
    <2> QED
      BY <2>1, <2>2
  <1>10. CASE row[f].state = "done"
    <2>1. f \notin MkvFiles /\ Home(f) = "src" /\ HomeRetention(f) = "retSrc"
      BY <1>0, <1>10 DEF KeptInv, DoneMkvIsLeft, Home, HomeRetention, Retained
    <2>2. job.path = "mkv" /\ r = "retMkv"
      BY <1>0, <1>10, JobNames DEF KeptInv
    <2>3. MoveFrom # "retSrc" /\ MoveTo # "retSrc"
      BY <1>0, <2>2, SlotsByPc
    <2>4. disk'[f]["retSrc"] = disk[f]["retSrc"]
      BY <1>0, <2>3, MovesDisk
    <2>5. InRetention(f)'
      BY <1>0, <1>10, <2>1, <2>4 DEF KeptInv, DoneIsKept, InRetention, Home, HomeRetention
    <2>6. OpenJobKeeps' /\ DoneMkvIsLeft'
      BY <1>0, <1>10, <2>1 DEF OpenJobKeeps, DoneMkvIsLeft
    <2> QED
      BY <1>6, <1>8, <1>9, <1>10, <2>1, <2>5, <2>6
  <1>11. CASE row[f].state # "done"
    <2>1. /\ job.path = Home(f) /\ r = HomeRetention(f)
          /\ Home(f) \in Slots /\ r \in Slots /\ r # Home(f) /\ r # "mkv" /\ r # "tmp"
          /\ Home(f) # "tmp"
      BY <1>0, <1>11, JobNames DEF KeptInv
    <2>2. DoneMkvIsLeft'
      BY <1>0, <1>11 DEF DoneMkvIsLeft
    <2>3. CASE job.pc \in {"restore", "rollback"}
      <3>1. /\ MoveFrom = r /\ MoveTo = Home(f) /\ job'.pc \in {"encode", "fail"}
            /\ disk[f][r] # "none"
        BY <1>0, <1>2, <1>3, <2>1, <2>3, SlotsByPc
      <3>2. disk[f][r] = "original"
        BY <1>0, <1>11, <2>1, <3>1 DEF KeptInv, OpenIsPlaced, AtHome, InRetention
      <3>3. disk'[f][Home(f)] = "original" /\ disk'[f][r] = "none"
        BY <1>0, <1>2, <1>3, <2>1, <2>3, <3>1, <3>2
      <3>4. AtHome(f)'
        BY <1>0, <2>1, <3>3 DEF AtHome, Home, HomeRetention
      <3>5. OpenJobKeeps'
        BY <3>1 DEF OpenJobKeeps, Committing
      <3> QED
        BY <1>6, <1>8, <1>9, <1>11, <2>2, <3>4, <3>5
    <2>4. CASE job.pc = "retain"
      <3>1. MoveFrom = Home(f) /\ MoveTo = r /\ job'.pc = "install"
        BY <1>0, <1>2, <1>3, <2>1, <2>4, SlotsByPc
      <3>2. disk[f][Home(f)] = "original"
        BY <1>0, <1>11, <2>1, <2>4
           DEF KeptInv, IInv, RetentionIsFree, OpenIsPlaced, AtHome, InRetention
      <3>3. disk'[f][r] = "original"
        BY <1>0, <1>2, <1>3, <2>1, <2>4, <3>1, <3>2
      <3>4. InRetention(f)'
        BY <1>0, <2>1, <3>3 DEF InRetention, Home, HomeRetention
      <3>5. OpenJobKeeps'
        BY <1>0, <3>1, <3>4 DEF OpenJobKeeps, Committing, InRetention
      <3> QED
        BY <1>6, <1>8, <1>9, <1>11, <2>2, <3>4, <3>5
    <2>5. CASE job.pc = "install"
      <3>1. MoveFrom = "tmp" /\ MoveTo = "mkv"
        BY <1>0, <2>5, SlotsByPc
      <3>2. disk[f][r] = "original"
        BY <1>0, <1>11, <2>1, <2>5 DEF KeptInv, OpenJobKeeps, InRetention
      <3>3. disk'[f][r] = "original"
        BY <1>0, <2>1, <3>1, <3>2, MovesDisk
      <3>4. InRetention(f)'
        BY <1>0, <2>1, <3>3 DEF InRetention, Home, HomeRetention
      <3>5. job'.pc # "install" => disk'[f]["mkv"] # "none"
        <4>1. job.stage = "copied" => disk[f]["mkv"] # "none"
          BY <2>5 DEF KeptInv, CopyHasSource, Exists, Final
        <4> QED
          BY <1>0, <2>5, <3>1, <4>1, MovesDisk DEF Exists
      <3>6. OpenJobKeeps'
        BY <1>0, <3>4, <3>5 DEF OpenJobKeeps, Committing, InRetention, Exists, Final
      <3> QED
        BY <1>6, <1>8, <1>9, <1>11, <2>2, <3>4, <3>6
    <2> QED
      BY <1>0, <2>3, <2>4, <2>5
  <1> QED
    BY <1>10, <1>11

LEMMA NextKeptInv == "retain" \notin ExdevMoves => (KeptInv /\ [Next]_vars => KeptInv')
  <1> SUFFICES ASSUME "retain" \notin ExdevMoves, KeptInv, [Next]_vars PROVE KeptInv'
    OBVIOUS
  <1>1. IInv' /\ RowInv' /\ OutcomeIsCommit'
    BY NextIInv, NextRowInv, NextOutcome DEF KeptInv, RowInv
  <1> QED
    BY <1>1, StillOrMoves, StillPlaces, StillKeptJob, MovesKept DEF KeptInv

LEMMA KeptInvariant == "retain" \notin ExdevMoves => (Spec => []KeptInv)
  <1> SUFFICES ASSUME "retain" \notin ExdevMoves PROVE Spec => []KeptInv
    OBVIOUS
  <1>1. KeptInv /\ [Next]_vars => KeptInv'
    BY NextKeptInv
  <1> QED
    BY <1>1, InitKeptInv, PTL DEF Spec

\* When the retention directory is on the filesystem of the media, a done row names
\* a complete original for ever, though the encode is copied into place and ids
\* arrive as late as they like: a late job loses its compare-and-swap, and the
\* files it moves are never that original.
THEOREM DoneRowsKeepTheirOriginal ==
    "retain" \notin ExdevMoves => (Spec => []DoneKeepsOriginal)
  <1> SUFFICES ASSUME "retain" \notin ExdevMoves PROVE Spec => []DoneKeepsOriginal
    OBVIOUS
  <1>1. KeptInv => DoneKeepsOriginal
    BY HomeType DEF KeptInv, RowInv, RowNames, DoneIsKept, InRetention, DoneKeepsOriginal
  <1>2. Spec => []KeptInv
    BY KeptInvariant
  <1> QED
    BY <1>1, <1>2, PTL

\* Only the record of a skip takes a row from transcoding to skipped.
LEMMA SkipIsRecorded ==
    ASSUME RowInv, [Next]_vars, NEW f \in Files,
           row[f].state = "transcoding", row'[f].state = "skipped"
    PROVE  job \in Jobs /\ f = job.file /\ job.pc = "skip" /\ disk' = disk
  <1>0. row \in [Files -> Rows] /\ \A g \in Files : row[g] \in Rows
    BY DEF RowInv, TypeOK
  <1>1. row' # row
    OBVIOUS
  <1>2. ~Pipeline
    BY PipelineKeepsNames DEF RowInv
  <1>3. Record
    BY <1>1, <1>2, QuietSteps DEF Next, JobStep, Dispatch, Start, vars
  <1>4. job \in Jobs /\ job.file \in Files /\ disk' = disk
    BY <1>3, RecordRows DEF RowInv, Jobs
  <1>5. ~RecordVmaf /\ ~RecordVmafFails /\ ~CommitClashes /\ ~OutcomeLost
    <2>1. ~RecordVmaf
      <3> SUFFICES ASSUME RecordVmaf PROVE FALSE
        OBVIOUS
      <3>1. row'[job.file].state = row[job.file].state
        BY <1>3, RecordRows DEF RowInv
      <3>2. f # job.file => row'[f] = row[f]
        BY <1>0, <1>4 DEF RecordVmaf, SetRow
      <3> QED
        BY <3>1, <3>2
    <2> QED
      BY <1>1, <2>1 DEF RecordVmafFails, CommitClashes, OutcomeLost
  <1>6. PICK new : row' = [row EXCEPT ![job.file] = new]
    BY <1>1, <1>3, <1>5 DEF Record, CompleteTranscode, ApplySkipped, ApplyFailed, CompareAndSwap, SetRow
  <1>7. f = job.file
    BY <1>0, <1>6
  <1>8. ~CompleteTranscode
    <2> SUFFICES ASSUME CompleteTranscode PROVE FALSE
      OBVIOUS
    <2> DEFINE r == [row[job.file] EXCEPT !.state = "done", !.path = Final,
                                          !.kept = @ \union {Retained(job.path)}]
    <2>1. row' = [row EXCEPT ![job.file] = r]
      BY <1>7 DEF CompleteTranscode, CompareAndSwap, SetRow
    <2>2. r.state = "done"
      BY <1>0, <1>4 DEF Rows
    <2> QED
      BY <1>0, <1>4, <1>7, <2>1, <2>2
  <1>9. ~ApplyFailed
    <2> SUFFICES ASSUME ApplyFailed PROVE FALSE
      OBVIOUS
    <2> DEFINE r == [row[job.file] EXCEPT !.state = "failed", !.failedBefore = TRUE]
    <2>1. row' = [row EXCEPT ![job.file] = r]
      BY <1>7 DEF ApplyFailed, CompareAndSwap, SetRow
    <2>2. r.state = "failed"
      BY <1>0, <1>4 DEF Rows
    <2> QED
      BY <1>0, <1>4, <1>7, <2>1, <2>2
  <1> QED
    BY <1>3, <1>4, <1>5, <1>7, <1>8, <1>9 DEF Record, ApplySkipped, At

\* Under the same assumption a job that ends in a skip leaves the library as it
\* found it, the original at the row's path, also when it was dispatched late.
THEOREM GateSkipsLeaveTheOriginal ==
    "retain" \notin ExdevMoves => (Spec => SkippedByGateIsUntouched)
  <1> SUFFICES ASSUME "retain" \notin ExdevMoves PROVE Spec => SkippedByGateIsUntouched
    OBVIOUS
  <1> DEFINE Untouched == \A f \in Files :
                row[f].state = "transcoding" /\ row'[f].state = "skipped"
                  => disk[f][row[f].path] = "original" /\ disk' = disk
  <1>1. KeptInv /\ [Next]_vars => Untouched
    <2> SUFFICES ASSUME KeptInv, [Next]_vars, NEW f \in Files,
                        row[f].state = "transcoding", row'[f].state = "skipped"
                 PROVE  disk[f][row[f].path] = "original" /\ disk' = disk
      OBVIOUS
    <2>1. job \in Jobs /\ f = job.file /\ job.pc = "skip" /\ disk' = disk
      BY SkipIsRecorded DEF KeptInv
    <2>2. disk[f][HomeRetention(f)] = "none"
      BY <2>1, JobNames DEF KeptInv, SkipHasNoRetention, Skipping
    <2>3. row[f].path = Home(f) /\ AtHome(f)
      BY <2>2 DEF KeptInv, RowInv, RowNames, OpenIsPlaced, InRetention
    <2> QED
      BY <2>1, <2>3 DEF AtHome
  <1>2. Spec => []KeptInv
    BY KeptInvariant
  <1>3. Spec => [][Untouched]_vars
    BY <1>1, <1>2, PTL DEF Spec
  <1> QED
    BY <1>3 DEF SkippedByGateIsUntouched
=============================================================================
