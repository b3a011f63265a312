--------------------------- MODULE TranscodeProofs ---------------------------
(***************************************************************************)
(* Theorems about one transcode worker, for every set of files and every   *)
(* bound on the faults.                                                    *)
(***************************************************************************)
EXTENDS Transcode, TLAPS

USE DEF Paths, Retentions, Slots, Contents, Scores, RowStates, Stages, MovePcs, JobPcs

-----------------------------------------------------------------------------
(* Type correctness *)

LEMMA RetainedType == \A p \in Paths : Retained(p) \in Retentions
  BY DEF Retained

LEMMA JobIsRecord == ASSUME job \in Jobs \union {NoJob}, job.pc \in JobPcs
                     PROVE  job \in Jobs
  BY DEF Jobs, NoJob

\* The slots a move goes between.
LEMMA MoveSlots ==
    ASSUME TypeOK, job.pc \in MovePcs
    PROVE  /\ job \in Jobs
           /\ MoveFrom \in Slots /\ MoveTo \in Slots /\ Final \in Slots
           /\ MoveFrom # MoveTo
           /\ AfterMove \in JobPcs
  <1>1. job \in Jobs
    BY JobIsRecord DEF TypeOK
  <1>2. job.path \in Paths /\ Retained(job.path) \in Retentions
    BY <1>1, RetainedType DEF Jobs
  <1>3. MoveFrom \in Slots /\ MoveTo \in Slots /\ Final \in Slots /\ MoveFrom # MoveTo
    BY <1>2 DEF MoveFrom, MoveTo, Final
  <1>4. AfterMove \in JobPcs
    BY DEF AfterMove, At
  <1> QED
    BY <1>1, <1>3, <1>4

LEMMA PutType ==
    ASSUME TypeOK, job \in Jobs, NEW s \in Slots, NEW c \in Contents, Put(s, c)
    PROVE  disk' \in [Files -> [Slots -> Contents]]
  BY DEF TypeOK, Put, Jobs

LEMMA SetRowType ==
    ASSUME TypeOK, NEW f \in Files, NEW r \in Rows, SetRow(f, r)
    PROVE  row' \in [Files -> Rows]
  BY DEF TypeOK, SetRow

LEMMA DropTempType ==
    ASSUME TypeOK, job \in Jobs, DropTemp
    PROVE  disk' \in [Files -> [Slots -> Contents]]
  <1>1. Put("tmp", "none")
    BY DEF DropTemp
  <1> QED
    BY <1>1, PutType

LEMMA GotoType ==
    ASSUME job \in Jobs, NEW pc \in JobPcs, Goto(pc)
    PROVE  job' \in Jobs
  BY DEF Goto, Jobs

LEMMA FaultType ==
    ASSUME TypeOK, DbError
    PROVE  faults' \in 0..MaxFaults
  BY TranscodeAssumption DEF TypeOK, DbError

LEMMA CompareAndSwapType ==
    ASSUME TypeOK, job \in Jobs, NEW new \in Rows, CompareAndSwap(new)
    PROVE  TypeOK'
  BY DEF TypeOK, CompareAndSwap, SetRow, Jobs

LEMMA InitType == Init => TypeOK
  <1> SUFFICES ASSUME Init PROVE TypeOK
    OBVIOUS
  <1>1. row \in [Files -> Rows]
    BY DEF Init, Rows
  <1>2. disk \in [Files -> [Slots -> Contents]]
    BY DEF Init
  <1>3. faults \in 0..MaxFaults
    BY TranscodeAssumption DEF Init
  <1> QED
    BY <1>1, <1>2, <1>3 DEF Init, TypeOK

\* The steps outside the worker write one column of one row.
LEMMA PipelineType == TypeOK /\ Pipeline => TypeOK'
  <1> SUFFICES ASSUME TypeOK, Pipeline PROVE row' \in [Files -> Rows]
    BY DEF TypeOK, Pipeline, Accept, TurnDown, ProbeFails, RequeueFailed, RecheckQualitySkips,
           RequeueQualitySkips, BackToTranscoding, OtherRowTakes, OtherRowLeaves
  <1>0. \A f \in Files : row[f] \in Rows
    BY DEF TypeOK
  <1>1. ASSUME NEW f \in Files, Accept(f) PROVE row' \in [Files -> Rows]
    <2>1. [row[f] EXCEPT !.state = "transcoding", !.vmaf = "none"] \in Rows
      BY <1>0 DEF Rows
    <2> QED
      BY <1>1, <2>1, SetRowType DEF Accept
  <1>2. ASSUME NEW f \in Files, TurnDown(f) PROVE row' \in [Files -> Rows]
    <2>1. \A score \in {row[f].vmaf, "none"} :
             [row[f] EXCEPT !.state = "skipped", !.vmaf = score] \in Rows
      BY <1>0 DEF Rows
    <2> QED
      BY <1>2, <2>1, SetRowType DEF TurnDown
  <1>3. ASSUME NEW f \in Files, ProbeFails(f) PROVE row' \in [Files -> Rows]
    <2>1. [row[f] EXCEPT !.state = "failed"] \in Rows
      BY <1>0 DEF Rows
    <2> QED
      BY <1>3, <2>1, SetRowType DEF ProbeFails
  <1>4. ASSUME NEW f \in Files, RequeueFailed(f) PROVE row' \in [Files -> Rows]
    <2>1. [row[f] EXCEPT !.state = "waiting"] \in Rows
      BY <1>0 DEF Rows
    <2> QED
      BY <1>4, <2>1, SetRowType DEF RequeueFailed
  <1>5. ASSUME RecheckQualitySkips \/ RequeueQualitySkips PROVE row' \in [Files -> Rows]
    <2>1. \A f \in Files : [row[f] EXCEPT !.state = "transcoding"] \in Rows
      BY <1>0 DEF Rows
    <2>2. PICK S : BackToTranscoding(S)
      BY <1>5 DEF RecheckQualitySkips, RequeueQualitySkips
    <2> QED
      BY <1>0, <2>1, <2>2 DEF BackToTranscoding
  <1>6. ASSUME NEW f \in Files, OtherRowTakes(f) \/ OtherRowLeaves(f) PROVE row' \in [Files -> Rows]
    BY <1>6 DEF TypeOK, OtherRowTakes, OtherRowLeaves
  <1> QED
    BY <1>1, <1>2, <1>3, <1>4, <1>5, <1>6 DEF Pipeline

LEMMA DispatchType == ASSUME TypeOK, NEW f \in Files, Dispatch(f) PROVE TypeOK'
  BY DEF TypeOK, Dispatch, Start, Jobs, Rows

LEMMA RecoverType == TypeOK /\ Recover => TypeOK'
  <1> SUFFICES ASSUME TypeOK, Recover PROVE TypeOK'
    OBVIOUS
  <1>1. job \in Jobs
    BY JobIsRecord DEF TypeOK, Recover, RecoverNothing, RecoverCommit, RecoverMarkFailed,
                       RecoverRestore, At
  <1>2. job' \in Jobs
    BY <1>1, GotoType DEF Recover, RecoverNothing, RecoverCommit, RecoverMarkFailed, RecoverRestore
  <1> QED
    BY <1>2 DEF TypeOK, Recover, RecoverNothing, RecoverCommit, RecoverMarkFailed, RecoverRestore

LEMMA EncodeType == TypeOK /\ Encode => TypeOK'
  <1> SUFFICES ASSUME TypeOK, Encode PROVE TypeOK'
    OBVIOUS
  <1>1. job \in Jobs
    BY JobIsRecord DEF TypeOK, Encode, EncodeOk, FfmpegFails, ValidationFails, SizeGateSkips,
                       QualityGateSkips, GatesPass, At
  <1>2. CASE EncodeOk
    <2>1. PICK out \in Encoded(disk[job.file][job.path]) : Put("tmp", out)
      BY <1>2 DEF EncodeOk
    <2>2. out \in Contents
      BY <2>1 DEF Encoded
    <2>3. disk' \in [Files -> [Slots -> Contents]]
      BY <1>1, <2>1, <2>2, PutType
    <2>4. job' \in Jobs
      BY <1>1, <1>2, GotoType DEF EncodeOk
    <2> QED
      BY <1>2, <2>3, <2>4 DEF EncodeOk, TypeOK
  <1>3. CASE FfmpegFails
    BY <1>1, <1>3, DropTempType, GotoType DEF FfmpegFails, TypeOK
  <1>4. CASE ValidationFails
    BY <1>1, <1>4, DropTempType, GotoType DEF ValidationFails, TypeOK
  <1>5. CASE SizeGateSkips
    BY <1>1, <1>5, DropTempType, GotoType DEF SizeGateSkips, TypeOK
  <1>6. CASE QualityGateSkips
    <2>1. job' \in Jobs
      BY <1>1, <1>6 DEF QualityGateSkips, Jobs
    <2> QED
      BY <1>1, <1>6, <2>1, DropTempType DEF QualityGateSkips, TypeOK
  <1>7. CASE GatesPass
    <2>1. job' \in Jobs
      BY <1>1, <1>7 DEF GatesPass, Jobs
    <2> QED
      BY <1>7, <2>1 DEF GatesPass, TypeOK
  <1> QED
    BY <1>2, <1>3, <1>4, <1>5, <1>6, <1>7 DEF Encode

\* A failed move drops the temporary file at most.
LEMMA FailedMoveType ==
    TypeOK /\ (RestoreFails \/ RetainFails \/ InstallFails \/ RollbackFails) => TypeOK'
  <1> SUFFICES ASSUME TypeOK, RestoreFails \/ RetainFails \/ InstallFails \/ RollbackFails
               PROVE  TypeOK'
    OBVIOUS
  <1>1. job \in Jobs
    BY JobIsRecord DEF TypeOK, RestoreFails, RetainFails, InstallFails, RollbackFails, At
  <1>2. job' \in Jobs
    BY <1>1, GotoType DEF RestoreFails, RetainFails, InstallFails, RollbackFails
  <1>3. disk' \in [Files -> [Slots -> Contents]]
    BY <1>1, DropTempType DEF TypeOK, RestoreFails, RetainFails, InstallFails, RollbackFails
  <1> QED
    BY <1>2, <1>3 DEF TypeOK, RestoreFails, RetainFails, InstallFails, RollbackFails

LEMMA MoveType == TypeOK /\ Move => TypeOK'
  <1> SUFFICES ASSUME TypeOK, Move PROVE TypeOK'
    OBVIOUS
  <1>1. CASE Rename
    <2>1. job.pc \in MovePcs
      BY <1>1 DEF Rename
    <2>2. job' \in Jobs
      BY <1>1, <2>1, MoveSlots, GotoType DEF Rename
    <2>3. disk[job.file][MoveFrom] \in Contents
      BY <2>1, MoveSlots DEF TypeOK, Jobs
    <2>4. disk' \in [Files -> [Slots -> Contents]]
      BY <1>1, <2>1, <2>3, MoveSlots DEF Rename, DropTempAfterRollback, TypeOK, Jobs
    <2> QED
      BY <1>1, <2>2, <2>4 DEF Rename, TypeOK
  <1>2. CASE CopyStarts
    <2>1. job.pc \in MovePcs
      BY <1>2 DEF CopyStarts
    <2>2. job' \in Jobs
      BY <1>2, <2>1, MoveSlots DEF CopyStarts, Jobs
    <2>3. disk' \in [Files -> [Slots -> Contents]]
      BY <1>2, <2>1, MoveSlots, PutType DEF CopyStarts
    <2> QED
      BY <1>2, <2>2, <2>3 DEF CopyStarts, TypeOK
  <1>3. CASE CopyEnds
    <2>1. job.pc \in MovePcs
      BY <1>3 DEF CopyEnds
    <2>2. job' \in Jobs
      BY <1>3, <2>1, MoveSlots DEF CopyEnds, Jobs
    <2>3. disk[job.file][MoveFrom] \in Contents
      BY <2>1, MoveSlots DEF TypeOK, Jobs
    <2>4. disk' \in [Files -> [Slots -> Contents]]
      BY <1>3, <2>1, <2>3, MoveSlots, PutType DEF CopyEnds
    <2> QED
      BY <1>3, <2>2, <2>4 DEF CopyEnds, TypeOK
  <1>4. CASE CopyRemovesSource
    <2>1. job.pc \in MovePcs
      BY <1>4 DEF CopyRemovesSource
    <2>2. job' \in Jobs
      BY <1>4, <2>1, MoveSlots, GotoType DEF CopyRemovesSource
    <2>3. disk' \in [Files -> [Slots -> Contents]]
      BY <1>4, <2>1, MoveSlots DEF CopyRemovesSource, DropTempAfterRollback, TypeOK, Jobs
    <2> QED
      BY <1>4, <2>2, <2>3 DEF CopyRemovesSource, TypeOK
  <1> QED
    BY <1>1, <1>2, <1>3, <1>4, FailedMoveType DEF Move

LEMMA RecordType == TypeOK /\ Record => TypeOK'
  <1> SUFFICES ASSUME TypeOK, Record PROVE TypeOK'
    OBVIOUS
  <1>1. job \in Jobs
    BY JobIsRecord DEF TypeOK, Record, RecordVmaf, RecordVmafFails, CompleteTranscode,
                       CommitClashes,
                       ApplySkipped, ApplyFailed, OutcomeLost, At
  <1>2. job.file \in Files /\ job.vmaf \in Scores /\ job.outcome \in JobPcs
        /\ Retained(job.path) \in Retentions
    BY <1>1, RetainedType DEF Jobs
  <1>3. row[job.file] \in Rows
    BY <1>2 DEF TypeOK
  <1>4. CASE RecordVmaf
    <2>1. [row[job.file] EXCEPT !.vmaf = job.vmaf] \in Rows
      BY <1>2, <1>3 DEF Rows
    <2>2. row' \in [Files -> Rows]
      BY <1>2, <1>4, <2>1, SetRowType DEF RecordVmaf
    <2>3. job' \in Jobs
      BY <1>1, <1>2, <1>4, GotoType DEF RecordVmaf
    <2> QED
      BY <1>4, <2>2, <2>3 DEF RecordVmaf, TypeOK
  <1>5. CASE RecordVmafFails
    BY <1>1, <1>2, <1>5, GotoType, FaultType DEF RecordVmafFails, TypeOK
  <1>6. CASE CompleteTranscode
    <2>1. [row[job.file] EXCEPT !.state = "done", !.path = Final,
              !.kept = @ \union {Retained(job.path)}] \in Rows
      BY <1>2, <1>3 DEF Rows, Final
    <2> QED
      BY <1>1, <1>6, <2>1, CompareAndSwapType DEF CompleteTranscode
  <1>7. CASE ApplySkipped
    <2>1. [row[job.file] EXCEPT !.state = "skipped"] \in Rows
      BY <1>3 DEF Rows
    <2> QED
      BY <1>1, <1>7, <2>1, CompareAndSwapType DEF ApplySkipped
  <1>8. CASE ApplyFailed
    <2>1. [row[job.file] EXCEPT !.state = "failed", !.failedBefore = TRUE] \in Rows
      BY <1>3 DEF Rows
    <2> QED
      BY <1>1, <1>8, <2>1, CompareAndSwapType DEF ApplyFailed
  <1>9. CASE OutcomeLost
    BY <1>9, FaultType DEF OutcomeLost, TypeOK
  <1>10. CASE CommitClashes
    BY <1>10 DEF CommitClashes, TypeOK
  <1> QED
    BY <1>4, <1>5, <1>6, <1>7, <1>8, <1>9, <1>10 DEF Record

LEMMA CrashType == TypeOK /\ Crash => TypeOK'
  <1> SUFFICES ASSUME TypeOK, Crash PROVE TypeOK'
    OBVIOUS
  <1>1. job \in Jobs
    BY DEF TypeOK, Crash
  <1>2. disk' \in [Files -> [Slots -> Contents]]
    BY <1>1, PutType DEF Crash, TypeOK
  <1> QED
    BY <1>2, FaultType DEF Crash, TypeOK

LEMMA NextType == TypeOK /\ [Next]_vars => TypeOK'
  <1> SUFFICES ASSUME TypeOK, [Next]_vars PROVE TypeOK'
    OBVIOUS
  <1>1. CASE UNCHANGED vars
    BY <1>1 DEF TypeOK, vars
  <1> QED
    BY <1>1, PipelineType, DispatchType, RecoverType, EncodeType, MoveType, RecordType,
       CrashType DEF Next, JobStep

\* Every reachable state has its type: the rows, the files and the job never
\* leave the values the code gives them.
THEOREM TypeCorrect == Spec => []TypeOK
  <1> QED
    BY InitType, NextType, PTL DEF Spec

-----------------------------------------------------------------------------
(* The original is never lost, when the retention directory is on the      *)
(* filesystem of the media: the move into it and back is then a rename(2). *)

\* A file is at its original path or in retention under that path's name.
NeverTwice == \A f \in Files : disk[f]["src"] = "none" \/ disk[f]["retSrc"] = "none"

TempIsNotOriginal == \A f \in Files : disk[f]["tmp"] # "original"

\* An encode starts only after recovery has emptied the retention path.
RetentionIsFree ==
    job.pc \in {"encode", "gates", "retain"} => disk[job.file][Retained(job.path)] = "none"

\* Recovery restores only when the final path is free.
FinalIsFree == job.pc = "restore" => disk[job.file][Final] = "none"

\* Between the two renames neither the original path nor the final path holds
\* the original.
OriginalIsAway ==
    job.pc \in {"install", "rollback"} =>
        disk[job.file][job.path] # "original" /\ disk[job.file][Final] # "original"

\* Only the install may have to copy.
OnlyInstallCopies ==
    job.pc \in MovePcs \union {"encode", "gates"} /\ job.stage # "rename" => job.pc = "install"

IInv ==
    /\ TypeOK
    /\ OriginalKept
    /\ NeverTwice
    /\ TempIsNotOriginal
    /\ RetentionIsFree
    /\ FinalIsFree
    /\ OriginalIsAway
    /\ OnlyInstallCopies

LEMMA InitIInv == Init => IInv
  <1> SUFFICES ASSUME Init PROVE IInv
    OBVIOUS
  <1>1. OriginalKept
    <2> SUFFICES ASSUME NEW f \in Files PROVE \E s \in Media : disk[f][s] = "original"
      BY DEF OriginalKept
    <2>1. CASE f \in MkvFiles
      <3>1. disk[f]["mkv"] = "original"
        BY <2>1 DEF Init
      <3> QED
        BY <3>1 DEF Media
    <2>2. CASE f \notin MkvFiles
      <3>1. disk[f]["src"] = "original"
        BY <2>2 DEF Init
      <3> QED
        BY <3>1 DEF Media
    <2> QED
      BY <2>1, <2>2
  <1>2. NeverTwice /\ TempIsNotOriginal
    BY DEF Init, NeverTwice, TempIsNotOriginal
  <1>3. job.pc = "idle"
    BY DEF Init, NoJob
  <1>4. RetentionIsFree /\ FinalIsFree /\ OriginalIsAway /\ OnlyInstallCopies
    BY <1>3 DEF RetentionIsFree, FinalIsFree, OriginalIsAway, OnlyInstallCopies
  <1> QED
    BY InitType, <1>1, <1>2, <1>4 DEF IInv

LEMMA PutWrites ==
    ASSUME TypeOK, job \in Jobs, NEW s \in Slots, NEW c, Put(s, c)
    PROVE  \A f \in Files : \A t \in Slots :
              disk'[f][t] = IF f = job.file /\ t = s THEN c ELSE disk[f][t]
  BY DEF TypeOK, Put, Jobs

\* What a step that writes nothing but the temporary file keeps.
LEMMA TempOnly ==
    ASSUME IInv, \/ UNCHANGED disk
                 \/ job \in Jobs /\ \E c \in Contents \ {"original"} : Put("tmp", c)
    PROVE  /\ OriginalKept' /\ NeverTwice' /\ TempIsNotOriginal'
           /\ \A f \in Files : \A s \in Media : disk'[f][s] = disk[f][s]
  <1>1. \A f \in Files : \A s \in Media : disk'[f][s] = disk[f][s]
    <2>1. CASE UNCHANGED disk
      BY <2>1
    <2>2. ASSUME job \in Jobs, NEW c \in Contents, Put("tmp", c)
          PROVE  \A f \in Files : \A s \in Media : disk'[f][s] = disk[f][s]
      BY <2>2, PutWrites DEF IInv, Media
    <2> QED
      BY <2>1, <2>2
  <1>2. TempIsNotOriginal'
    <2>1. CASE UNCHANGED disk
      BY <2>1 DEF IInv, TempIsNotOriginal
    <2>2. ASSUME job \in Jobs, NEW c \in Contents \ {"original"}, Put("tmp", c)
          PROVE  TempIsNotOriginal'
      BY <2>2, PutWrites DEF IInv, TempIsNotOriginal
    <2> QED
      BY <2>1, <2>2
  <1>3. OriginalKept'
    BY <1>1 DEF IInv, OriginalKept
  <1>4. NeverTwice'
    BY <1>1 DEF IInv, NeverTwice, Media
  <1> QED
    BY <1>1, <1>2, <1>3, <1>4

\* A job that is away from the disk leaves nothing to say of its position.
LEMMA IdleJob ==
    ASSUME job'.pc \notin MovePcs \union {"encode", "gates"}
    PROVE  RetentionIsFree' /\ FinalIsFree' /\ OriginalIsAway' /\ OnlyInstallCopies'
  BY DEF RetentionIsFree, FinalIsFree, OriginalIsAway, OnlyInstallCopies

LEMMA GotoKeeps ==
    ASSUME job \in Jobs, NEW pc \in JobPcs, Goto(pc)
    PROVE  /\ job'.pc = pc /\ job'.stage = "rename"
           /\ job'.file = job.file /\ job'.path = job.path
  BY DEF Goto, Jobs

LEMMA PipelineIInv == IInv /\ Pipeline => IInv'
  <1> SUFFICES ASSUME IInv, Pipeline PROVE IInv'
    OBVIOUS
  <1>1. UNCHANGED <<disk, job>>
    BY DEF Pipeline, Accept, TurnDown, ProbeFails, RequeueFailed, RecheckQualitySkips,
           RequeueQualitySkips, BackToTranscoding, OtherRowTakes, OtherRowLeaves
  <1>2. RetentionIsFree' /\ FinalIsFree' /\ OriginalIsAway' /\ OnlyInstallCopies'
    BY <1>1 DEF IInv, RetentionIsFree, FinalIsFree, OriginalIsAway, OnlyInstallCopies
  <1> QED
    BY <1>1, <1>2, TempOnly, PipelineType DEF IInv

LEMMA DispatchIInv == ASSUME IInv, NEW f \in Files, Dispatch(f) PROVE IInv'
  <1>1. UNCHANGED disk /\ job'.pc = "recover"
    BY DEF Dispatch, Start
  <1> QED
    BY <1>1, TempOnly, IdleJob, DispatchType DEF IInv

LEMMA RecoverIInv == IInv /\ Recover => IInv'
  <1> SUFFICES ASSUME IInv, Recover PROVE IInv'
    OBVIOUS
  <1>1. job \in Jobs
    BY JobIsRecord DEF IInv, TypeOK, Recover, RecoverNothing, RecoverCommit, RecoverMarkFailed,
                       RecoverRestore, At
  <1>2. OriginalKept' /\ NeverTwice' /\ TempIsNotOriginal' /\ UNCHANGED disk
    BY TempOnly DEF Recover, RecoverNothing, RecoverCommit, RecoverMarkFailed, RecoverRestore
  <1>3. CASE RecoverNothing
    <2>1. job'.pc = "encode" /\ job'.stage = "rename"
          /\ job'.file = job.file /\ job'.path = job.path
      BY <1>1, <1>3, GotoKeeps DEF RecoverNothing
    <2>2. disk[job.file][Retained(job.path)] = "none"
      BY <1>3 DEF RecoverNothing, Exists
    <2>3. RetentionIsFree'
      BY <1>2, <2>1, <2>2 DEF RetentionIsFree, Retained
    <2>4. FinalIsFree' /\ OriginalIsAway' /\ OnlyInstallCopies'
      BY <2>1 DEF FinalIsFree, OriginalIsAway, OnlyInstallCopies
    <2> QED
      BY <1>2, <2>3, <2>4, RecoverType DEF IInv
  <1>4. CASE RecoverCommit \/ RecoverMarkFailed
    <2>1. job'.pc \in {"commit", "fail"}
      BY <1>1, <1>4, GotoKeeps DEF RecoverCommit, RecoverMarkFailed
    <2> QED
      BY <1>2, <2>1, IdleJob, RecoverType DEF IInv
  <1>5. CASE RecoverRestore
    <2>1. job'.pc = "restore" /\ job'.stage = "rename" /\ job'.file = job.file
      BY <1>1, <1>5, GotoKeeps DEF RecoverRestore
    <2>2. FinalIsFree'
      BY <1>2, <1>5, <2>1 DEF RecoverRestore, Exists, FinalIsFree, Final
    <2>3. RetentionIsFree' /\ OriginalIsAway' /\ OnlyInstallCopies'
      BY <2>1 DEF RetentionIsFree, OriginalIsAway, OnlyInstallCopies
    <2> QED
      BY <1>2, <2>2, <2>3, RecoverType DEF IInv
  <1> QED
    BY <1>3, <1>4, <1>5 DEF Recover

LEMMA EncodeIInv == IInv /\ Encode => IInv'
  <1> SUFFICES ASSUME IInv, Encode PROVE IInv'
    OBVIOUS
  <1>1. job \in Jobs
    BY JobIsRecord DEF IInv, TypeOK, Encode, EncodeOk, FfmpegFails, ValidationFails,
                       SizeGateSkips, QualityGateSkips, GatesPass, At
  <1>2. \/ UNCHANGED disk
        \/ \E c \in Contents \ {"original"} : Put("tmp", c)
    <2>1. Encoded(disk[job.file][job.path]) \subseteq Contents \ {"original"}
      BY DEF Encoded
    <2> QED
      BY <2>1 DEF Encode, EncodeOk, FfmpegFails, ValidationFails, SizeGateSkips,
                  QualityGateSkips, GatesPass, DropTemp
  <1>3. /\ OriginalKept' /\ NeverTwice' /\ TempIsNotOriginal'
        /\ \A f \in Files : \A s \in Media : disk'[f][s] = disk[f][s]
    BY <1>1, <1>2, TempOnly
  <1>4. CASE EncodeOk
    <2>1. /\ job'.pc = "gates" /\ job'.stage = "rename" /\ job.pc = "encode"
          /\ job'.file = job.file /\ job'.path = job.path
      BY <1>1, <1>4, GotoKeeps DEF EncodeOk, At
    <2>2. RetentionIsFree'
      BY <1>1, <1>3, <2>1 DEF IInv, RetentionIsFree, Jobs, Media, Retained
    <2>3. FinalIsFree' /\ OriginalIsAway' /\ OnlyInstallCopies'
      BY <2>1 DEF FinalIsFree, OriginalIsAway, OnlyInstallCopies
    <2> QED
      BY <1>3, <2>2, <2>3, EncodeType DEF IInv
  <1>5. CASE GatesPass
    <2>1. /\ job'.pc = "retain" /\ job'.stage = job.stage /\ job.pc = "gates"
          /\ job'.file = job.file /\ job'.path = job.path
      BY <1>1, <1>5 DEF GatesPass, At, Jobs
    <2>2. RetentionIsFree'
      BY <1>1, <1>3, <2>1 DEF IInv, RetentionIsFree, Jobs, Media, Retained
    <2>3. FinalIsFree' /\ OriginalIsAway' /\ OnlyInstallCopies'
      BY <2>1 DEF IInv, FinalIsFree, OriginalIsAway, OnlyInstallCopies
    <2> QED
      BY <1>3, <2>2, <2>3, EncodeType DEF IInv
  <1>6. CASE FfmpegFails \/ ValidationFails \/ SizeGateSkips \/ QualityGateSkips
    <2>1. job'.pc \in {"fail", "skip", "record"}
      BY <1>1, <1>6, GotoKeeps DEF FfmpegFails, ValidationFails, SizeGateSkips,
                                   QualityGateSkips, Jobs
    <2> QED
      BY <1>3, <2>1, IdleJob, EncodeType DEF IInv
  <1> QED
    BY <1>4, <1>5, <1>6 DEF Encode

\* The slots of a move, by the step of the swap it belongs to.
LEMMA SlotsByPc ==
    ASSUME job \in Jobs
    PROVE  /\ job.pc = "restore" => /\ MoveFrom = Retained(job.path) /\ MoveTo = job.path
                                    /\ AfterMove = "encode"
           /\ job.pc = "retain" => /\ MoveFrom = job.path /\ MoveTo = Retained(job.path)
                                   /\ AfterMove = "install"
           /\ job.pc = "install" => /\ MoveFrom = "tmp" /\ MoveTo = "mkv"
                                    /\ AfterMove \in {"commit", "record"}
           /\ job.pc = "rollback" => /\ MoveFrom = Retained(job.path) /\ MoveTo = job.path
                                     /\ AfterMove = "fail"
  BY DEF MoveFrom, MoveTo, AfterMove, At, Final

\* The destination of a move never holds an original that would be lost.
LEMMA DestinationIsSafe ==
    ASSUME IInv, job \in Jobs, job.pc \in MovePcs, Exists(job.file, MoveFrom)
    PROVE  disk[job.file][MoveTo] # "original"
  <1>1. job.file \in Files /\ job.path \in Paths
    BY DEF Jobs
  <1>2. CASE job.pc = "restore"
    <2>1. disk[job.file][Final] = "none"
      BY <1>2 DEF IInv, FinalIsFree
    <2>2. disk[job.file][Retained(job.path)] # "none"
      BY <1>2, SlotsByPc DEF Exists
    <2>3. job.path = "src" => disk[job.file]["src"] = "none"
      BY <1>1, <2>2 DEF IInv, NeverTwice, Retained
    <2> QED
      BY <1>1, <1>2, <2>1, <2>3, SlotsByPc DEF Final
  <1>3. CASE job.pc = "retain"
    BY <1>3, SlotsByPc DEF IInv, RetentionIsFree
  <1>4. CASE job.pc = "install"
    BY <1>4, SlotsByPc DEF IInv, OriginalIsAway, Final
  <1>5. CASE job.pc = "rollback"
    BY <1>5, SlotsByPc DEF IInv, OriginalIsAway
  <1> QED
    BY <1>2, <1>3, <1>4, <1>5

\* A move carries whatever it moves to a place that held no original.
LEMMA RenameDisk ==
    ASSUME IInv, job \in Jobs, Rename
    PROVE  /\ OriginalKept' /\ NeverTwice' /\ TempIsNotOriginal'
           /\ disk'[job.file][MoveFrom] = "none"
           /\ \A s \in Media \ {MoveFrom, MoveTo} : disk'[job.file][s] = disk[job.file][s]
  <1> DEFINE f == job.file
  <1>1. /\ f \in Files /\ job.path \in Paths /\ job.pc \in MovePcs
        /\ Retained(job.path) \in Retentions
    BY RetainedType DEF Jobs, Rename
  <1>2. MoveFrom \in Slots /\ MoveTo \in Media /\ MoveFrom # MoveTo
    BY <1>1, MoveSlots, SlotsByPc DEF IInv, Media
  <1>3. disk[f][MoveTo] # "original"
    BY <1>1, DestinationIsSafe DEF Rename
  <1>4. \A g \in Files : \A s \in Media :
           disk'[g][s] = IF g = f /\ s = MoveTo THEN disk[f][MoveFrom]
                         ELSE IF g = f /\ s = MoveFrom THEN "none" ELSE disk[g][s]
    <2>1. disk \in [Files -> [Slots -> Contents]]
      BY DEF IInv, TypeOK
    <2> QED
      BY <1>1, <1>2, <2>1 DEF Rename, DropTempAfterRollback, Media
  <1>5. \A g \in Files :
           disk'[g]["tmp"] = IF g = f /\ (MoveFrom = "tmp" \/ At("rollback"))
                             THEN "none" ELSE disk[g]["tmp"]
    <2>1. disk \in [Files -> [Slots -> Contents]]
      BY DEF IInv, TypeOK
    <2> QED
      BY <1>1, <1>2, <2>1 DEF Rename, DropTempAfterRollback, Media
  <1>6. TempIsNotOriginal'
    BY <1>5 DEF IInv, TempIsNotOriginal
  <1>7. OriginalKept'
    <2> SUFFICES ASSUME NEW g \in Files PROVE \E s \in Media : disk'[g][s] = "original"
      BY DEF OriginalKept
    <2>1. PICK s \in Media : disk[g][s] = "original"
      BY DEF IInv, OriginalKept
    <2>2. CASE g = f /\ s = MoveFrom
      BY <1>2, <1>4, <2>1, <2>2
    <2>3. CASE ~(g = f /\ s = MoveFrom)
      <3>1. disk'[g][s] = "original"
        BY <1>3, <1>4, <2>1, <2>3
      <3> QED
        BY <3>1
    <2> QED
      BY <2>2, <2>3
  <1>8. NeverTwice'
    <2> SUFFICES ASSUME NEW g \in Files PROVE disk'[g]["src"] = "none" \/ disk'[g]["retSrc"] = "none"
      BY DEF NeverTwice
    <2>1. disk[g]["src"] = "none" \/ disk[g]["retSrc"] = "none"
      BY DEF IInv, NeverTwice
    <2>2. CASE job.pc = "install"
      BY <1>4, <2>1, <2>2, SlotsByPc DEF Media
    <2>3. CASE job.pc # "install"
      BY <1>1, <1>4, <2>1, <2>3, SlotsByPc DEF Media, Retained
    <2> QED
      BY <2>2, <2>3
  <1>9. disk'[f][MoveFrom] = "none"
    BY <1>1, <1>2, <1>4, <1>5 DEF Media
  <1> QED
    BY <1>1, <1>4, <1>6, <1>7, <1>8, <1>9

LEMMA RenameIInv == IInv /\ Rename => IInv'
  <1> SUFFICES ASSUME IInv, Rename PROVE IInv'
    OBVIOUS
  <1>1. job \in Jobs /\ job.pc \in MovePcs /\ job.file \in Files /\ job.path \in Paths
    BY JobIsRecord DEF IInv, TypeOK, Rename, Jobs
  <1>2. /\ OriginalKept' /\ NeverTwice' /\ TempIsNotOriginal'
        /\ disk'[job.file][MoveFrom] = "none"
        /\ \A s \in Media \ {MoveFrom, MoveTo} : disk'[job.file][s] = disk[job.file][s]
    BY <1>1, RenameDisk
  <1>3. TypeOK'
    BY MoveType DEF IInv, Move
  <1>4. /\ job'.pc = AfterMove /\ job'.stage = "rename"
        /\ job'.file = job.file /\ job'.path = job.path
    BY <1>1, MoveSlots, GotoKeeps DEF IInv, Rename
  <1>5. CASE job.pc = "restore"
    <2>1. job'.pc = "encode" /\ disk'[job.file][Retained(job.path)] = "none"
      BY <1>1, <1>2, <1>4, <1>5, SlotsByPc
    <2>2. RetentionIsFree'
      BY <1>4, <2>1 DEF RetentionIsFree, Retained
    <2>3. FinalIsFree' /\ OriginalIsAway' /\ OnlyInstallCopies'
      BY <1>4, <2>1 DEF FinalIsFree, OriginalIsAway, OnlyInstallCopies
    <2> QED
      BY <1>2, <1>3, <2>2, <2>3 DEF IInv
  <1>6. CASE job.pc = "retain"
    <2>1. job'.pc = "install" /\ disk'[job.file][job.path] = "none"
      BY <1>1, <1>2, <1>4, <1>6, SlotsByPc
    <2>2. disk'[job.file][Final] = "none"
      <3>1. CASE job.path = Final
        BY <2>1, <3>1
      <3>2. CASE job.path # Final
        <4>1. disk[job.file][Final] = "none"
          BY <1>6, <3>2 DEF Rename, DestinationTaken, Exists, At
        <4> QED
          BY <1>1, <1>2, <1>6, <3>2, <4>1, SlotsByPc DEF Media, Retained, Final
      <3> QED
        BY <3>1, <3>2
    <2>3. OriginalIsAway'
      BY <1>4, <2>1, <2>2 DEF OriginalIsAway, Final
    <2>4. RetentionIsFree' /\ FinalIsFree' /\ OnlyInstallCopies'
      BY <1>4, <2>1 DEF RetentionIsFree, FinalIsFree, OnlyInstallCopies
    <2> QED
      BY <1>2, <1>3, <2>3, <2>4 DEF IInv
  <1>7. CASE job.pc \in {"install", "rollback"}
    <2>1. job'.pc \in {"commit", "record", "fail"}
      BY <1>1, <1>4, <1>7, SlotsByPc
    <2> QED
      BY <1>2, <1>3, <2>1, IdleJob DEF IInv
  <1> QED
    BY <1>1, <1>5, <1>6, <1>7

\* Copies are made for the install only, and what they write over and read is
\* not the original.
LEMMA CopyIInv ==
    ASSUME "retain" \notin ExdevMoves, IInv, CopyStarts \/ CopyEnds \/ CopyRemovesSource
    PROVE  IInv'
  <1>1. job \in Jobs /\ job.file \in Files /\ job.path \in Paths
    BY JobIsRecord DEF IInv, TypeOK, CopyStarts, CopyEnds, CopyRemovesSource, Jobs
  <1>2. job.pc = "install"
    BY DEF IInv, OnlyInstallCopies, CopyStarts, CopyEnds, CopyRemovesSource, MayExdev, At
  <1>3. MoveFrom = "tmp" /\ MoveTo = "mkv"
    BY <1>1, <1>2, SlotsByPc
  <1>4. disk[job.file][job.path] # "original" /\ disk[job.file]["mkv"] # "original"
    BY <1>2 DEF IInv, OriginalIsAway, Final
  <1>5. disk[job.file]["tmp"] # "original"
    BY <1>1 DEF IInv, TempIsNotOriginal
  <1>6. TypeOK'
    BY MoveType DEF IInv, Move
  <1>7. CASE CopyStarts \/ CopyEnds
    <2>1. PICK c : c # "original" /\ Put("mkv", c)
      BY <1>3, <1>5, <1>7 DEF CopyStarts, CopyEnds
    <2>2. \A f \in Files : \A t \in Slots :
             disk'[f][t] = IF f = job.file /\ t = "mkv" THEN c ELSE disk[f][t]
      BY <1>1, <2>1, PutWrites DEF IInv
    <2>3. OriginalKept'
      <3> SUFFICES ASSUME NEW f \in Files PROVE \E s \in Media : disk'[f][s] = "original"
        BY DEF OriginalKept
      <3>1. PICK s \in Media : disk[f][s] = "original"
        BY DEF IInv, OriginalKept
      <3>2. disk'[f][s] = "original"
        BY <1>4, <2>2, <3>1 DEF Media
      <3> QED
        BY <3>2
    <2>4. NeverTwice' /\ TempIsNotOriginal'
      BY <2>2 DEF IInv, NeverTwice, TempIsNotOriginal
    <2>5. job'.pc = "install" /\ job'.file = job.file /\ job'.path = job.path
      BY <1>1, <1>2, <1>7 DEF CopyStarts, CopyEnds, Jobs
    <2>6. OriginalIsAway'
      BY <1>1, <1>4, <2>1, <2>2, <2>5 DEF OriginalIsAway, Final
    <2>7. RetentionIsFree' /\ FinalIsFree' /\ OnlyInstallCopies'
      BY <2>5 DEF RetentionIsFree, FinalIsFree, OnlyInstallCopies
    <2> QED
      BY <1>6, <2>3, <2>4, <2>6, <2>7 DEF IInv
  <1>8. CASE CopyRemovesSource
    <2>1. Put("tmp", "none")
      BY <1>2, <1>3, <1>8 DEF CopyRemovesSource, DropTempAfterRollback, At, Put
    <2>2. OriginalKept' /\ NeverTwice' /\ TempIsNotOriginal'
      BY <1>1, <2>1, TempOnly
    <2>3. job'.pc \in {"commit", "record"}
      BY <1>1, <1>2, <1>8, SlotsByPc, GotoKeeps DEF CopyRemovesSource
    <2> QED
      BY <1>6, <2>2, <2>3, IdleJob DEF IInv
  <1> QED
    BY <1>7, <1>8

\* A failed move leaves what it has written; only the temporary file goes.
LEMMA FailedMoveIInv ==
    IInv /\ (RestoreFails \/ RetainFails \/ InstallFails \/ RollbackFails) => IInv'
  <1> SUFFICES ASSUME IInv, RestoreFails \/ RetainFails \/ InstallFails \/ RollbackFails
               PROVE  IInv'
    OBVIOUS
  <1>1. job \in Jobs /\ job.file \in Files /\ job.path \in Paths
    BY JobIsRecord DEF IInv, TypeOK, RestoreFails, RetainFails, InstallFails, RollbackFails,
                       At, Jobs
  <1>2. /\ OriginalKept' /\ NeverTwice' /\ TempIsNotOriginal'
        /\ \A f \in Files : \A s \in Media : disk'[f][s] = disk[f][s]
    BY <1>1, TempOnly DEF RestoreFails, RetainFails, InstallFails, RollbackFails, DropTemp
  <1>3. TypeOK'
    BY FailedMoveType DEF IInv
  <1>4. CASE RestoreFails \/ RetainFails \/ RollbackFails
    <2>1. job'.pc = "fail"
      BY <1>1, <1>4, GotoKeeps DEF RestoreFails, RetainFails, RollbackFails
    <2> QED
      BY <1>2, <1>3, <2>1, IdleJob DEF IInv
  <1>5. CASE InstallFails
    <2>1. /\ job.pc = "install" /\ job'.pc = "rollback" /\ job'.stage = "rename"
          /\ job'.file = job.file /\ job'.path = job.path
      BY <1>1, <1>5, GotoKeeps DEF InstallFails, At
    <2>2. OriginalIsAway'
      BY <1>1, <1>2, <2>1 DEF IInv, OriginalIsAway, Final, Media
    <2>3. RetentionIsFree' /\ FinalIsFree' /\ OnlyInstallCopies'
      BY <2>1 DEF RetentionIsFree, FinalIsFree, OnlyInstallCopies
    <2> QED
      BY <1>2, <1>3, <2>2, <2>3 DEF IInv
  <1> QED
    BY <1>4, <1>5

LEMMA RecordIInv == IInv /\ Record => IInv'
  <1> SUFFICES ASSUME IInv, Record PROVE IInv'
    OBVIOUS
  <1>1. job \in Jobs /\ job.outcome \in {"commit", "skip"}
    BY JobIsRecord DEF IInv, TypeOK, Record, RecordVmaf, RecordVmafFails, CompleteTranscode, CommitClashes,
                       ApplySkipped, ApplyFailed, OutcomeLost, At, Jobs
  <1>2. UNCHANGED disk
    BY DEF Record, RecordVmaf, RecordVmafFails, CompleteTranscode, CommitClashes, ApplySkipped,
           ApplyFailed, OutcomeLost, CompareAndSwap
  <1>3. job'.pc \in {"idle", "commit", "skip"}
    <2>1. CASE RecordVmaf \/ RecordVmafFails
      BY <1>1, <2>1, GotoKeeps DEF RecordVmaf, RecordVmafFails
    <2>2. CASE CompleteTranscode \/ CommitClashes \/ ApplySkipped \/ ApplyFailed \/ OutcomeLost
      BY <2>2 DEF CompleteTranscode, CommitClashes, ApplySkipped, ApplyFailed, OutcomeLost, CompareAndSwap, NoJob
    <2> QED
      BY <2>1, <2>2 DEF Record
  <1> QED
    BY <1>2, <1>3, TempOnly, IdleJob, RecordType DEF IInv

LEMMA CrashIInv == IInv /\ Crash => IInv'
  <1> SUFFICES ASSUME IInv, Crash PROVE IInv'
    OBVIOUS
  <1>1. job \in Jobs /\ job'.pc = "idle"
    BY DEF IInv, TypeOK, Crash, NoJob
  <1>2. \/ UNCHANGED disk
        \/ \E c \in Contents \ {"original"} : Put("tmp", c)
    BY DEF Crash
  <1> QED
    BY <1>1, <1>2, TempOnly, IdleJob, CrashType DEF IInv

LEMMA NextIInv == "retain" \notin ExdevMoves => (IInv /\ [Next]_vars => IInv')
  <1> SUFFICES ASSUME "retain" \notin ExdevMoves, IInv, [Next]_vars PROVE IInv'
    OBVIOUS
  <1>1. CASE UNCHANGED vars
    BY <1>1 DEF vars, IInv, TypeOK, OriginalKept, NeverTwice, TempIsNotOriginal, RetentionIsFree,
                FinalIsFree, OriginalIsAway, OnlyInstallCopies, Retained
  <1>2. CASE Move
    BY <1>2, RenameIInv, CopyIInv, FailedMoveIInv DEF Move
  <1> QED
    BY <1>1, <1>2, PipelineIInv, DispatchIInv, RecoverIInv, EncodeIInv, RecordIInv, CrashIInv
       DEF Next, JobStep

\* When the retention directory and the media are on one filesystem, no sequence
\* of encodes, failures, crashes, recoveries, requeues and late dispatches loses
\* the original of any file.  (swap.rs, recovery.rs.)
THEOREM OriginalNeverLost == "retain" \notin ExdevMoves => (Spec => []OriginalKept)
  <1> SUFFICES ASSUME "retain" \notin ExdevMoves PROVE Spec => []OriginalKept
    OBVIOUS
  <1>1. IInv /\ [Next]_vars => IInv'
    BY NextIInv
  <1>2. IInv => OriginalKept
    BY DEF IInv
  <1> QED
    BY <1>1, <1>2, InitIInv, PTL DEF Spec
=============================================================================
