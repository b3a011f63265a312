------------------------------ MODULE Retention ------------------------------
(***************************************************************************)
(* What becomes of the originals: the worker moves one to retention and    *)
(* inserts its row, the reaper deletes it when its window is over, the     *)
(* operator deletes early the originals whose encode is confirmed by a     *)
(* VMAF score.  Scores come from the worker, of this encode or of one      *)
(* before it, or from the backfill.  Crashes and restarts with another     *)
(* MIN_VMAF included, and ids that reach the worker after their row has    *)
(* left transcoding.                                                       *)
(*                                                                         *)
(* The swap is its two renames; copies across filesystems and damaged      *)
(* files are in module Transcode.                                          *)
(***************************************************************************)
EXTENDS Naturals, FiniteSets

CONSTANTS
    Files,
    MkvFiles,    \* files whose original is already named <stem>.mkv
    LateDispatch, \* an id may reach the worker after its row left transcoding
    Bars,        \* values of MIN_VMAF over the restarts; 0 is "observe only"
    Marks,       \* VMAF scores
    MaxEncodes,  \* bound on the encodes, of all files
    MaxFaults    \* bound on crashes, restarts and database errors

Deleters == {"reaper", "operator"}

ASSUME RetentionAssumption ==
    /\ IsFiniteSet(Files)
    /\ MkvFiles \subseteq Files
    /\ LateDispatch \in BOOLEAN
    /\ Bars \subseteq Nat /\ Bars # {}
    /\ Marks \subseteq Nat
    /\ MaxEncodes \in Nat
    /\ MaxFaults \in Nat

VARIABLES
    row,       \* workflow_state of each file
    score,     \* transcode_spec.vmaf, with the encode it was measured on
    table,     \* files with a row in retention_files
    expired,   \* files whose original moved longer than retention_days ago
    original,  \* where the original is
    encodes,   \* encodes made so far; an encode is named by its number
    installed, \* the encode at the final path, 0 if none
    displaced, \* the encode a late job moved to retention, 0 if none
    job,       \* the worker's step on each file
    measured,  \* the score the worker holds
    list,      \* rows each deleter read and has not handled
    removing,  \* the row each deleter is to delete next
    backfill,  \* files the backfill read and has not measured
    filled,    \* the score the backfill holds
    bar,       \* MIN_VMAF
    up,        \* the process runs
    faults

\* Ghosts, for the properties.
VARIABLES
    late,    \* files whose done row a late job worked on: it displaced the
             \* encode or stored a score
    refused  \* files one of whose removals failed

data == <<row, score, table, expired>>
disk == <<original, encodes, installed, displaced>>
worker == <<job, measured>>
cleanup == <<list, removing>>
filling == <<backfill, filled>>
ghosts == <<late, refused>>
vars == <<data, disk, worker, cleanup, filling, bar, up, faults, ghosts>>

Score == [of : 1..MaxEncodes, value : Marks]

Steps == {"none", "restored", "encoded", "measured", "retained", "rejected", "swapped"}

TypeOK ==
    /\ row \in [Files -> {"transcoding", "skipped", "failed", "done"}]
    /\ score \in [Files -> SUBSET Score]
    /\ table \subseteq Files
    /\ expired \subseteq Files
    /\ original \in [Files -> {"library", "retained", "gone"}]
    /\ encodes \in 0..MaxEncodes
    /\ installed \in [Files -> 0..MaxEncodes]
    /\ displaced \in [Files -> 0..MaxEncodes]
    /\ job \in [Files -> Steps]
    /\ measured \in [Files -> SUBSET Score]
    /\ list \in [Deleters -> SUBSET Files]
    /\ removing \in [Deleters -> SUBSET Files]
    /\ backfill \subseteq Files
    /\ filled \in [Files -> SUBSET Score]
    /\ bar \in Bars
    /\ up \in BOOLEAN
    /\ faults \in 0..MaxFaults
    /\ late \subseteq Files
    /\ refused \subseteq Files

Init ==
    /\ row = [f \in Files |-> "transcoding"]
    /\ score = [f \in Files |-> {}]
    /\ table = {} /\ expired = {}
    /\ original = [f \in Files |-> "library"]
    /\ encodes = 0
    /\ installed = [f \in Files |-> 0]
    /\ displaced = [f \in Files |-> 0]
    /\ job = [f \in Files |-> "none"]
    /\ measured = [f \in Files |-> {}]
    /\ list = [d \in Deleters |-> {}]
    /\ removing = [d \in Deleters |-> {}]
    /\ backfill = {}
    /\ filled = [f \in Files |-> {}]
    /\ bar \in Bars
    /\ up = TRUE
    /\ faults = 0
    /\ late = {} /\ refused = {}

Fault == faults < MaxFaults /\ faults' = faults + 1
\* A query that may fail.
Maybe(ok) == IF ok THEN UNCHANGED faults ELSE Fault

Reaches(f, b) == \E s \in score[f] : s.value >= b

-----------------------------------------------------------------------------
(* The worker, one file at a time.  It reads the path of the row and not    *)
(* its state: the path of a done row is that of the encode, so a late job   *)
(* makes an encode of the encode.                                           *)

At(f, step) == up /\ job[f] = step
IsDone(f) == row[f] = "done"

Starts(f) ==
    /\ up /\ \A g \in Files : job[g] = "none"
    /\ row[f] = "transcoding" \/ LateDispatch

\* retention_path.exists(), for the name the row has now.
SlotTaken(f) ==
    \/ displaced[f] # 0
    \/ original[f] = "retained" /\ (IsDone(f) => f \in MkvFiles)

HasSource(f) == IF IsDone(f) THEN installed[f] # 0 ELSE original[f] = "library"

\* find_media_file_by_id, no retained file, ffmpeg and its validation.
Encode(f) ==
    /\ (Starts(f) /\ ~SlotTaken(f)) \/ At(f, "restored")
    /\ HasSource(f)
    /\ encodes < MaxEncodes
    /\ encodes' = encodes + 1
    /\ job' = [job EXCEPT ![f] = "encoded"]
    /\ UNCHANGED <<data, original, installed, displaced, measured, cleanup, filling, bar, up, faults, ghosts>>

\* Every outcome is a compare-and-swap on transcoding.
Outcome(f, state) ==
    /\ \E ok \in BOOLEAN :
        /\ Maybe(ok)
        /\ row' = IF ok /\ row[f] = "transcoding" THEN [row EXCEPT ![f] = state] ELSE row
    /\ job' = [job EXCEPT ![f] = "none"]
    /\ measured' = [measured EXCEPT ![f] = {}]
    /\ UNCHANGED <<score, table, expired, encodes, cleanup, filling, bar, up, ghosts>>

\* A terminal error of the recovery, the encode or the first rename.
Fail(f) ==
    /\ Starts(f) \/ \E step \in {"restored", "encoded", "measured"} : At(f, step)
    /\ Outcome(f, "failed")
    /\ UNCHANGED <<original, installed, displaced>>

\* The stored score, if any, stays as it was.
SizeGateSkips(f) ==
    /\ At(f, "encoded")
    /\ Outcome(f, "skipped")
    /\ UNCHANGED <<original, installed, displaced>>

\* compute_vmaf: a failure proceeds without a score.
Scores(n) == {{}} \union {{[of |-> n, value |-> m]} : m \in Marks}

Measure(f) ==
    /\ At(f, "encoded")
    /\ \E s \in Scores(encodes) : measured' = [measured EXCEPT ![f] = s]
    /\ job' = [job EXCEPT ![f] = "measured"]
    /\ UNCHANGED <<data, disk, cleanup, filling, bar, up, faults, ghosts>>

BelowBar(f) == bar > 0 /\ \E s \in measured[f] : s.value < bar

QualityGateSkips(f) ==
    /\ At(f, "measured") /\ BelowBar(f)
    /\ job' = [job EXCEPT ![f] = "rejected"]
    /\ UNCHANGED <<data, disk, measured, cleanup, filling, bar, up, faults, ghosts>>

\* atomic_swap: what is at the row's path goes to retention ...
Retain(f) ==
    /\ At(f, "measured") /\ ~BelowBar(f)
    /\ IF IsDone(f)
       THEN /\ displaced' = [displaced EXCEPT ![f] = installed[f]]
            /\ installed' = [installed EXCEPT ![f] = 0]
            /\ late' = late \union {f}
            /\ UNCHANGED original
       ELSE /\ original' = [original EXCEPT ![f] = "retained"]
            /\ UNCHANGED <<installed, displaced, late>>
    /\ UNCHANGED refused
    /\ job' = [job EXCEPT ![f] = "retained"]
    /\ UNCHANGED <<data, encodes, measured, cleanup, filling, bar, up, faults>>

\* ... and the new encode takes its place.
Install(f) ==
    /\ At(f, "retained")
    /\ installed' = [installed EXCEPT ![f] = encodes]
    /\ job' = [job EXCEPT ![f] = "swapped"]
    /\ UNCHANGED <<data, original, encodes, displaced, measured, cleanup, filling, bar, up, faults, ghosts>>

\* From retention back to the row's path, by the rollback and by recovery.  The
\* displaced encode of a done row may have been deleted meanwhile.
PutBack(f) ==
    IF displaced[f] # 0
    THEN /\ installed' = [installed EXCEPT ![f] = displaced[f]]
         /\ displaced' = [displaced EXCEPT ![f] = 0]
         /\ UNCHANGED original
    ELSE /\ original' = IF IsDone(f) THEN original ELSE [original EXCEPT ![f] = "library"]
         /\ UNCHANGED <<installed, displaced>>

\* The rollback's own result is ignored.
InstallFails(f) ==
    /\ At(f, "retained")
    /\ PutBack(f) \/ UNCHANGED <<original, installed, displaced>>
    /\ Outcome(f, "failed")

\* record_vmaf, before the outcome and whatever the row's state; a failure is
\* only logged.
RecordVmaf(f) ==
    /\ up /\ job[f] \in {"rejected", "swapped"} /\ measured[f] # {}
    /\ \E ok \in BOOLEAN :
        /\ Maybe(ok)
        /\ score' = IF ok THEN [score EXCEPT ![f] = measured[f]] ELSE score
        /\ late' = IF ok /\ IsDone(f) THEN late \union {f} ELSE late
    /\ measured' = [measured EXCEPT ![f] = {}]
    /\ UNCHANGED <<row, table, expired, disk, job, cleanup, filling, bar, up, refused>>

ApplySkipped(f) ==
    /\ At(f, "rejected") /\ measured[f] = {}
    /\ Outcome(f, "skipped")
    /\ UNCHANGED <<original, installed, displaced>>

\* Mutant: complete_transcode keeps the file open for another round.
CompleteTranscode_LeavesState(f) ==
    /\ At(f, "swapped") /\ measured[f] = {}
    /\ table' = table \union {f}
    /\ job' = [job EXCEPT ![f] = "none"]
    /\ UNCHANGED <<row, score, expired, disk, measured, cleanup, filling, bar, up, faults, ghosts>>

\* One transaction: the state, the path, the event and the retention row.
CompleteTranscode(f) ==
    /\ At(f, "swapped") /\ measured[f] = {}
    /\ \E ok \in BOOLEAN :
        /\ Maybe(ok)
        /\ IF ok /\ row[f] = "transcoding"
           THEN row' = [row EXCEPT ![f] = "done"] /\ table' = table \union {f}
           ELSE UNCHANGED <<row, table>>
    /\ job' = [job EXCEPT ![f] = "none"]
    /\ UNCHANGED <<score, expired, disk, measured, cleanup, filling, bar, up, ghosts>>

\* The swap was done and its commit lost, or it was not this job's to do:
\* committed without a score.
RecoverCommit(f) ==
    /\ Starts(f) /\ SlotTaken(f) /\ installed[f] # 0
    /\ job' = [job EXCEPT ![f] = "swapped"]
    /\ UNCHANGED <<data, disk, measured, cleanup, filling, bar, up, faults, ghosts>>

\* Only the first rename was done.
RecoverRestore(f) ==
    /\ Starts(f) /\ SlotTaken(f) /\ installed[f] = 0
    /\ PutBack(f)
    /\ job' = [job EXCEPT ![f] = "restored"]
    /\ UNCHANGED <<data, encodes, measured, cleanup, filling, bar, up, faults, ghosts>>

-----------------------------------------------------------------------------
(* Ways back to the worker *)

\* Mutant: nobody approves what was requeued.
Requeue_Half(f) ==
    /\ up /\ row[f] = "failed"
    /\ row' = [row EXCEPT ![f] = "discovered"]
    /\ UNCHANGED <<score, table, expired, disk, worker, cleanup, filling, bar, up, faults, ghosts>>

\* What the probe of a file that is not done finds.
AtPath(f) == original[f] = "library" \/ (f \in MkvFiles /\ installed[f] # 0)

\* A failed file requeued, analysed and approved again: save_analysis_result
\* replaces transcode_spec, score included.
Requeue(f) ==
    /\ up /\ row[f] = "failed" /\ AtPath(f)
    /\ row' = [row EXCEPT ![f] = "transcoding"]
    /\ score' = [score EXCEPT ![f] = {}]
    /\ UNCHANGED <<table, expired, disk, worker, cleanup, filling, bar, up, faults, ghosts>>

\* Requeued and turned down by the analysis, which leaves the score.
TurnDown(f) ==
    /\ up /\ row[f] = "failed" /\ AtPath(f)
    /\ row' = [row EXCEPT ![f] = "skipped"]
    /\ UNCHANGED <<score, table, expired, disk, worker, cleanup, filling, bar, up, faults, ghosts>>

\* One UPDATE over all skipped files with a score.
RecheckQualitySkips ==
    /\ up
    /\ \E f \in Files : row[f] = "skipped" /\ score[f] # {}
    /\ row' = [f \in Files |-> IF row[f] = "skipped" /\ score[f] # {} THEN "transcoding" ELSE row[f]]
    /\ UNCHANGED <<score, table, expired, disk, worker, cleanup, filling, bar, up, faults, ghosts>>

-----------------------------------------------------------------------------
(* Deleting originals *)

\* NOW() passes moved_at + retention_days.
Expire(f) ==
    /\ f \in table \ expired
    /\ expired' = expired \union {f}
    /\ UNCHANGED <<row, score, table, disk, worker, cleanup, filling, bar, up, faults, ghosts>>

Idle(d) == up /\ list[d] = {} /\ removing[d] = {}

\* Mutant: the window is not looked at.
ReaperTick_AllRows ==
    /\ Idle("reaper") /\ table # {}
    /\ list' = [list EXCEPT !["reaper"] = table]
    /\ UNCHANGED <<data, disk, worker, removing, filling, bar, up, faults, ghosts>>

\* fetch_expired_retention_files
ReaperTick ==
    /\ Idle("reaper") /\ expired \intersect table # {}
    /\ list' = [list EXCEPT !["reaper"] = expired \intersect table]
    /\ UNCHANGED <<data, disk, worker, removing, filling, bar, up, faults, ghosts>>

\* fetch_confirmed_originals
ReachesBar(f) == IsDone(f) /\ Reaches(f, bar)
Confirmed(f) == f \in table /\ ReachesBar(f)

DeleteConfirmedOriginals ==
    /\ Idle("operator")
    /\ list' = [list EXCEPT !["operator"] = {f \in Files : Confirmed(f)}]
    /\ list'["operator"] # {}
    /\ UNCHANGED <<data, disk, worker, removing, filling, bar, up, faults, ghosts>>

\* The retained path is the original's; a late job of a file that was an .mkv
\* uses the same name.
Remove(f) ==
    /\ original' = [original EXCEPT ![f] = "gone"]
    /\ displaced' = [displaced EXCEPT ![f] = IF f \in MkvFiles THEN 0 ELSE @]
    /\ UNCHANGED refused

RemovalFails(f) ==
    /\ refused' = refused \union {f}
    /\ UNCHANGED <<original, displaced>>

\* Mutant: a row whose file cannot be removed is kept for the next round.
RemoveFile_KeepsRow(d, f) ==
    /\ up /\ removing[d] = {} /\ f \in list[d]
    /\ list' = [list EXCEPT ![d] = @ \ {f}]
    /\ \/ Remove(f) /\ removing' = [removing EXCEPT ![d] = {f}]
       \/ RemovalFails(f) /\ UNCHANGED removing
    /\ UNCHANGED <<data, encodes, installed, worker, filling, bar, up, faults, late>>

\* reap_retention: a removal that fails is logged, and the row goes all the same.
RemoveFile(d, f) ==
    /\ up /\ removing[d] = {} /\ f \in list[d]
    /\ Remove(f) \/ RemovalFails(f)
    /\ list' = [list EXCEPT ![d] = @ \ {f}]
    /\ removing' = [removing EXCEPT ![d] = {f}]
    /\ UNCHANGED <<data, encodes, installed, worker, filling, bar, up, faults, late>>

DeleteRow(d, f) ==
    /\ up /\ f \in removing[d]
    /\ \E ok \in BOOLEAN :
        /\ Maybe(ok)
        /\ table' = IF ok THEN table \ {f} ELSE table
    /\ removing' = [removing EXCEPT ![d] = {}]
    /\ UNCHANGED <<row, score, expired, disk, worker, list, filling, bar, up, ghosts>>

-----------------------------------------------------------------------------
(* The backfill, detached, of a process started with its flag *)

\* Mutant: scored files are measured again.
FetchDoneMissingVmaf_Scored == {f \in table : row[f] = "done"}

FetchDoneMissingVmaf == {f \in table : row[f] = "done" /\ score[f] = {}}

\* Fails when either file has been deleted or moved meanwhile.
BackfillMeasures(f) ==
    /\ up /\ f \in backfill
    /\ \A g \in Files : filled[g] = {}
    /\ backfill' = backfill \ {f}
    /\ \/ UNCHANGED filled
       \/ /\ original[f] = "retained" \/ (f \in MkvFiles /\ displaced[f] # 0)
          /\ installed[f] # 0
          /\ \E s \in Scores(installed[f]) \ {{}} : filled' = [filled EXCEPT ![f] = s]
    /\ UNCHANGED <<data, disk, worker, cleanup, bar, up, faults, ghosts>>

BackfillRecords(f) ==
    /\ up /\ filled[f] # {}
    /\ \E ok \in BOOLEAN :
        /\ Maybe(ok)
        /\ score' = IF ok THEN [score EXCEPT ![f] = filled[f]] ELSE score
    /\ filled' = [filled EXCEPT ![f] = {}]
    /\ UNCHANGED <<row, table, expired, disk, worker, cleanup, backfill, bar, up, ghosts>>

-----------------------------------------------------------------------------
(* Crash and restart *)

Crash ==
    /\ up /\ Fault
    /\ up' = FALSE
    /\ job' = [f \in Files |-> "none"]
    /\ measured' = [f \in Files |-> {}]
    /\ list' = [d \in Deleters |-> {}]
    /\ removing' = [d \in Deleters |-> {}]
    /\ backfill' = {}
    /\ filled' = [f \in Files |-> {}]
    /\ UNCHANGED <<data, disk, bar, ghosts>>

\* With another MIN_VMAF, REQUEUE_QUALITY_SKIPS and BACKFILL_VMAF.  The rows
\* requeued are not done, so the order of the two does not matter.
Restart(b, requeue, fill) ==
    /\ ~up
    /\ up' = TRUE
    /\ bar' = b
    /\ row' = [f \in Files |-> IF requeue /\ row[f] = "skipped" /\ Reaches(f, b)
                               THEN "transcoding" ELSE row[f]]
    /\ backfill' = IF fill THEN FetchDoneMissingVmaf ELSE {}
    /\ UNCHANGED <<score, table, expired, disk, worker, cleanup, filled, faults, ghosts>>

WorkerStep(f) ==
    \/ Encode(f) \/ Fail(f) \/ SizeGateSkips(f) \/ Measure(f) \/ QualityGateSkips(f)
    \/ Retain(f) \/ Install(f) \/ InstallFails(f)
    \/ RecordVmaf(f) \/ ApplySkipped(f) \/ CompleteTranscode(f)
    \/ RecoverCommit(f) \/ RecoverRestore(f)

\* Mutant: the row is deleted before its file.
Reap_RowFirst(d) ==
    \E f \in Files :
        \/ /\ up /\ removing[d] = {} /\ f \in list[d]
           /\ table' = table \ {f}
           /\ list' = [list EXCEPT ![d] = @ \ {f}]
           /\ removing' = [removing EXCEPT ![d] = {f}]
           /\ UNCHANGED <<row, score, expired, disk, worker, filling, bar, up, faults, ghosts>>
        \/ /\ up /\ f \in removing[d]
           /\ Remove(f) \/ RemovalFails(f)
           /\ removing' = [removing EXCEPT ![d] = {}]
           /\ UNCHANGED <<data, encodes, installed, worker, list, filling, bar, up, faults, late>>

Reap(d) == \E f \in Files : RemoveFile(d, f) \/ DeleteRow(d, f)

Next ==
    \/ \E f \in Files : \/ WorkerStep(f) \/ Requeue(f) \/ TurnDown(f) \/ Expire(f)
                        \/ BackfillMeasures(f) \/ BackfillRecords(f)
    \/ RecheckQualitySkips
    \/ ReaperTick \/ DeleteConfirmedOriginals
    \/ \E d \in Deleters : Reap(d)
    \/ Crash
    \/ \E b \in Bars, requeue, fill \in BOOLEAN : Restart(b, requeue, fill)

Spec == Init /\ [][Next]_vars

\* The reaper's interval fires every hour, what is started is polled to its
\* end, the service unit restarts the process.
FairSpec ==
    /\ Spec
    /\ WF_vars(ReaperTick)
    /\ WF_vars(Reap("reaper"))
    /\ WF_vars(\E b \in Bars, requeue, fill \in BOOLEAN : Restart(b, requeue, fill))

-----------------------------------------------------------------------------
(* Properties *)

\* An original is destroyed only when its file is done and an encode is in its
\* place, whoever deletes, and across lost commits, retries and crashes.  A late
\* job may take that encode away again and not bring the next; it is then still
\* in retention, unless that name is the one the deleters were given.
GoneIsReplaced ==
    \A f \in Files : original[f] = "gone" =>
        /\ IsDone(f)
        /\ installed[f] # 0 \/ (f \in late /\ (displaced[f] # 0 \/ f \in MkvFiles))

\* The retained original of a done file that no row names any more, so that
\* neither the reaper nor the operator will ever delete it, is one whose removal
\* failed: a crash between the removal and the row leaves the row.
LeakedIsRefused ==
    \A f \in Files : IsDone(f) /\ original[f] = "retained" /\ f \notin table => f \in refused

\* An original goes before its window is over only when a score at the bar is
\* stored for its file, at the moment it goes, however old the deleter's list:
\* only a late job lowers the score of a done file.
KeptInWindow ==
    [][\A f \in Files : original[f] # "gone" /\ original'[f] = "gone" =>
        f \in expired \/ ReachesBar(f) \/ f \in late]_vars

\* A score stored on a done file is the first it has and is one of the encode in
\* place, whatever was deleted or committed since the backfill read its list,
\* unless a late job has worked on the file.
BackfillOnlyFills ==
    [][\A f \in Files : IsDone(f) /\ score'[f] # score[f] =>
        \/ score[f] = {} /\ \A s \in score'[f] : s.of = installed[f]
        \/ f \in late']_vars

\* A file whose window is over leaves retention_files, failed removals, failed
\* queries and crashes notwithstanding.
ExpiredIsReaped == \A f \in Files : (f \in expired \intersect table) ~> (f \notin table)

\* store/mod.rs:1402-1407, README.md:120-126: a confirmed original is safe to
\* delete because its encode is verified good: the score that confirms it is
\* one of the encode that took its place.
ConfirmedIsVerified ==
    \A f \in Files : Confirmed(f) => \A s \in score[f] : s.of = installed[f]
=============================================================================
