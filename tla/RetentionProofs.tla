--------------------------- MODULE RetentionProofs ---------------------------
(***************************************************************************)
(* Retention for any number of files, encodes, crashes and settings: its   *)
(* types, that no original is destroyed before its file is done and an     *)
(* encode is in its place, that only a file whose removal failed is ever   *)
(* left behind, that none goes early without a score at the bar, and that  *)
(* the backfill only stores scores of the encode in place; what late ids   *)
(* change of that, and that they alone do.                                 *)
(***************************************************************************)
EXTENDS Retention, TLAPS

\* What a stopped process has left of its memory.
Stopped ==
    ~up => /\ job = [f \in Files |-> "none"]
           /\ list = [d \in Deleters |-> {}]
           /\ removing = [d \in Deleters |-> {}]
           /\ backfill = {}
           /\ filled = [f \in Files |-> {}]

\* A done file has lost its original to retention or a deleter, and has its
\* encode, unless a late job has taken that away; nothing else displaces it.
DoneIsReplaced ==
    \A f \in Files :
        /\ IsDone(f) => original[f] # "library"
        /\ IsDone(f) => \/ installed[f] # 0
                        \/ (f \in late /\ (displaced[f] # 0 \/ f \in MkvFiles))
        /\ displaced[f] # 0 => IsDone(f) /\ f \in late
        /\ original[f] = "gone" => IsDone(f)
        /\ f \in table => IsDone(f)

\* What the worker's job has moved, by what its row says of the path.
JobInPlace ==
    \A f \in Files :
        /\ job[f] \in {"encoded", "measured", "retained"} => encodes # 0
        /\ job[f] \in {"encoded", "measured"} /\ IsDone(f) => installed[f] # 0
        /\ job[f] = "retained" =>
             IF IsDone(f) THEN f \in late ELSE original[f] = "retained"
        /\ job[f] = "swapped" /\ ~IsDone(f) =>
             original[f] = "retained" /\ installed[f] # 0

\* When no id comes late, a job is about a row in transcoding.
NeverLate ==
    ~LateDispatch =>
        late = {} /\ \A f \in Files : job[f] # "none" => row[f] = "transcoding"

\* Whoever deletes has read done files only...
ListIsDone == \A d \in Deleters : \A f \in list[d] : IsDone(f)

\* ... which are still due.
ListIsDue ==
    /\ list["reaper"] \subseteq expired
    /\ \A f \in list["operator"] : ReachesBar(f) \/ f \in late

\* A row is deleted after its file, or after that could not be removed.
FileFirst ==
    \A d \in Deleters : \A f \in removing[d] : original[f] = "gone" \/ f \in refused

\* The files the backfill has before it, or has measured, are done and have no
\* score, and what it measured is the encode in place.
BackfillUnscored ==
    /\ \A f \in backfill : IsDone(f) /\ (score[f] = {} \/ f \in late)
    /\ \A f \in Files : filled[f] # {} =>
         /\ IsDone(f)
         /\ \/ f \in late
            \/ /\ score[f] = {} /\ f \notin backfill
               /\ \A s \in filled[f] : s.of = installed[f]

IInv ==
    /\ TypeOK /\ Stopped /\ DoneIsReplaced /\ JobInPlace /\ NeverLate
    /\ ListIsDone /\ ListIsDue /\ FileFirst /\ BackfillUnscored /\ LeakedIsRefused

-----------------------------------------------------------------------------
(* One lemma per conjunct, one step per action that may disturb it.        *)

\* Types.
LEMMA TypeOKStep == IInv /\ [Next]_vars => TypeOK'
  <1> SUFFICES ASSUME IInv, [Next]_vars PROVE TypeOK'
    OBVIOUS
  <1> USE DEF IInv, TypeOK, data, disk, worker, cleanup, filling, ghosts
  <1>1. ASSUME NEW f \in Files, Encode(f) PROVE TypeOK'
    BY <1>1, RetentionAssumption DEF Encode, RetentionAssumption, Steps
  <1>2. ASSUME NEW f \in Files, Fail(f) PROVE TypeOK'
    BY <1>2, RetentionAssumption
       DEF Fail, Outcome, Maybe, Fault, RetentionAssumption, Steps
  <1>3. ASSUME NEW f \in Files, SizeGateSkips(f) PROVE TypeOK'
    BY <1>3, RetentionAssumption
       DEF SizeGateSkips, Outcome, Maybe, Fault, RetentionAssumption, Steps
  <1>4. ASSUME NEW f \in Files, Measure(f) PROVE TypeOK'
    BY <1>4 DEF Measure, Steps, At, Scores, Score, JobInPlace
  <1>5. ASSUME NEW f \in Files, QualityGateSkips(f) PROVE TypeOK'
    BY <1>5 DEF QualityGateSkips, Steps
  <1>6. ASSUME NEW f \in Files, Retain(f) PROVE TypeOK'
    BY <1>6, RetentionAssumption DEF Retain, RetentionAssumption, Steps
  <1>7. ASSUME NEW f \in Files, Install(f) PROVE TypeOK'
    BY <1>7 DEF Install, Steps
  <1>8. ASSUME NEW f \in Files, InstallFails(f) PROVE TypeOK'
    BY <1>8, RetentionAssumption
       DEF InstallFails, PutBack, Outcome, Maybe, Fault, RetentionAssumption,
          Steps
  <1>9. ASSUME NEW f \in Files, RecordVmaf(f) PROVE TypeOK'
    BY <1>9, RetentionAssumption
       DEF RecordVmaf, Maybe, Fault, RetentionAssumption
  <1>10. ASSUME NEW f \in Files, ApplySkipped(f) PROVE TypeOK'
    BY <1>10, RetentionAssumption
       DEF ApplySkipped, Outcome, Maybe, Fault, RetentionAssumption, Steps
  <1>11. ASSUME NEW f \in Files, CompleteTranscode(f) PROVE TypeOK'
    BY <1>11, RetentionAssumption
       DEF CompleteTranscode, Maybe, Fault, RetentionAssumption, Steps
  <1>12. ASSUME NEW f \in Files, RecoverCommit(f) PROVE TypeOK'
    BY <1>12 DEF RecoverCommit, Steps
  <1>13. ASSUME NEW f \in Files, RecoverRestore(f) PROVE TypeOK'
    BY <1>13 DEF RecoverRestore, PutBack, Steps
  <1>14. ASSUME NEW f \in Files, Requeue(f) PROVE TypeOK'
    BY <1>14 DEF Requeue
  <1>15. ASSUME NEW f \in Files, TurnDown(f) PROVE TypeOK'
    BY <1>15 DEF TurnDown
  <1>16. ASSUME NEW f \in Files, Expire(f) PROVE TypeOK'
    BY <1>16 DEF Expire
  <1>17. ASSUME NEW f \in Files, BackfillMeasures(f) PROVE TypeOK'
    <2>1. CASE UNCHANGED filled
      BY <1>17, <2>1 DEF BackfillMeasures
    <2>2. ASSUME NEW s \in Scores(installed[f]) \ {{}}, installed[f] # 0,
                 filled' = [filled EXCEPT ![f] = s]
          PROVE  TypeOK'
      <3>1. s \in SUBSET Score
        BY <2>2 DEF Scores, Score
      <3> QED
        BY <1>17, <2>2, <3>1 DEF BackfillMeasures
    <2> QED
      BY <1>17, <2>1, <2>2 DEF BackfillMeasures
  <1>18. ASSUME NEW f \in Files, BackfillRecords(f) PROVE TypeOK'
    BY <1>18, RetentionAssumption
       DEF BackfillRecords, Maybe, Fault, RetentionAssumption
  <1>19. CASE RecheckQualitySkips
    BY <1>19 DEF RecheckQualitySkips
  <1>20. CASE ReaperTick
    BY <1>20 DEF ReaperTick
  <1>21. CASE DeleteConfirmedOriginals
    BY <1>21 DEF DeleteConfirmedOriginals
  <1>22. ASSUME NEW d \in Deleters, NEW f \in Files, RemoveFile(d, f)
         PROVE  TypeOK'
    BY <1>22, RetentionAssumption
       DEF RemoveFile, Remove, RemovalFails, RetentionAssumption
  <1>23. ASSUME NEW d \in Deleters, NEW f \in Files, DeleteRow(d, f)
         PROVE  TypeOK'
    BY <1>23, RetentionAssumption
       DEF DeleteRow, Maybe, Fault, RetentionAssumption
  <1>24. CASE Crash
    <2>1. faults' \in 0..MaxFaults
      BY <1>24, RetentionAssumption DEF Crash, Fault, RetentionAssumption
    <2> QED
      BY <1>24, <2>1 DEF Crash, Steps
  <1>25. ASSUME NEW b \in Bars, NEW requeue \in BOOLEAN, NEW fill \in BOOLEAN,
                Restart(b, requeue, fill)
         PROVE  TypeOK'
    BY <1>25 DEF Restart, FetchDoneMissingVmaf
  <1>26. CASE UNCHANGED vars
    BY <1>26 DEF vars
  <1> QED
    BY <1>1, <1>2, <1>3, <1>4, <1>5, <1>6, <1>7, <1>8, <1>9, <1>10, <1>11,
       <1>12, <1>13, <1>14, <1>15, <1>16, <1>17, <1>18, <1>19, <1>20, <1>21,
       <1>22, <1>23, <1>24, <1>25, <1>26 DEF Next, WorkerStep, Reap

\* A crash empties the memory, and a stopped process does not act.
LEMMA StoppedStep == IInv /\ [Next]_vars => Stopped'
  <1> SUFFICES ASSUME IInv, [Next]_vars PROVE Stopped'
    OBVIOUS
  <1> USE DEF IInv, Stopped, data, disk, worker, cleanup, filling, ghosts
  <1>1. ASSUME NEW f \in Files, Encode(f) PROVE Stopped'
    BY <1>1 DEF Encode, Starts, At
  <1>2. ASSUME NEW f \in Files, Fail(f) PROVE Stopped'
    BY <1>2 DEF Fail, Outcome, Starts, At
  <1>3. ASSUME NEW f \in Files, SizeGateSkips(f) PROVE Stopped'
    BY <1>3 DEF SizeGateSkips, Outcome, At
  <1>4. ASSUME NEW f \in Files, Measure(f) PROVE Stopped'
    BY <1>4 DEF Measure, At
  <1>5. ASSUME NEW f \in Files, QualityGateSkips(f) PROVE Stopped'
    BY <1>5 DEF QualityGateSkips, At
  <1>6. ASSUME NEW f \in Files, Retain(f) PROVE Stopped'
    BY <1>6 DEF Retain, At
  <1>7. ASSUME NEW f \in Files, Install(f) PROVE Stopped'
    BY <1>7 DEF Install, At
  <1>8. ASSUME NEW f \in Files, InstallFails(f) PROVE Stopped'
    BY <1>8 DEF InstallFails, Outcome, At
  <1>9. ASSUME NEW f \in Files, ApplySkipped(f) PROVE Stopped'
    BY <1>9 DEF ApplySkipped, Outcome, At
  <1>10. ASSUME NEW f \in Files, CompleteTranscode(f) PROVE Stopped'
    BY <1>10 DEF CompleteTranscode, At
  <1>11. ASSUME NEW f \in Files, RecoverCommit(f) PROVE Stopped'
    BY <1>11 DEF RecoverCommit, Starts
  <1>12. ASSUME NEW f \in Files, RecoverRestore(f) PROVE Stopped'
    BY <1>12 DEF RecoverRestore, Starts
  <1>13. ASSUME NEW f \in Files, BackfillMeasures(f) PROVE Stopped'
    BY <1>13 DEF BackfillMeasures
  <1>14. ASSUME NEW f \in Files, BackfillRecords(f) PROVE Stopped'
    BY <1>14 DEF BackfillRecords
  <1>15. CASE ReaperTick
    BY <1>15 DEF ReaperTick, Idle
  <1>16. CASE DeleteConfirmedOriginals
    BY <1>16 DEF DeleteConfirmedOriginals, Idle
  <1>17. ASSUME NEW d \in Deleters, NEW f \in Files, RemoveFile(d, f)
         PROVE  Stopped'
    BY <1>17 DEF RemoveFile
  <1>18. ASSUME NEW d \in Deleters, NEW f \in Files, DeleteRow(d, f)
         PROVE  Stopped'
    BY <1>18 DEF DeleteRow
  <1>19. CASE Crash
    BY <1>19 DEF Crash
  <1>20. ASSUME NEW b \in Bars, NEW requeue \in BOOLEAN, NEW fill \in BOOLEAN,
                Restart(b, requeue, fill)
         PROVE  Stopped'
    BY <1>20 DEF Restart
  <1>21. ASSUME UNCHANGED <<up, job, list, removing, backfill, filled>>
         PROVE  Stopped'
    BY <1>21
  <1>22. ASSUME NEW f \in Files,
                \/ RecordVmaf(f) \/ Requeue(f) \/ TurnDown(f) \/ Expire(f)
         PROVE  Stopped'
    BY <1>21, <1>22 DEF RecordVmaf, Requeue, TurnDown, Expire
  <1>23. CASE RecheckQualitySkips \/ UNCHANGED vars
    BY <1>21, <1>23 DEF RecheckQualitySkips, vars
  <1> QED
    BY <1>1, <1>2, <1>3, <1>4, <1>5, <1>6, <1>7, <1>8, <1>9, <1>10, <1>11,
       <1>12, <1>13, <1>14, <1>15, <1>16, <1>17, <1>18, <1>19, <1>20, <1>22,
       <1>23 DEF Next, WorkerStep, Reap

\* A file is done after its swap, and only a late job undoes that.
LEMMA DoneIsReplacedStep == IInv /\ [Next]_vars => DoneIsReplaced'
  <1> SUFFICES ASSUME IInv, [Next]_vars PROVE DoneIsReplaced'
    OBVIOUS
  <1> USE DEF IInv, DoneIsReplaced, data, disk, worker, cleanup, filling, ghosts
  <1>1. ASSUME NEW f \in Files, Fail(f) PROVE DoneIsReplaced'
    BY <1>1 DEF Fail, Outcome, IsDone
  <1>2. ASSUME NEW f \in Files, SizeGateSkips(f) PROVE DoneIsReplaced'
    BY <1>2 DEF SizeGateSkips, Outcome, IsDone
  <1>3. ASSUME NEW f \in Files, Retain(f) PROVE DoneIsReplaced'
    BY <1>3 DEF Retain, At, TypeOK, JobInPlace, IsDone
  <1>4. ASSUME NEW f \in Files, Install(f) PROVE DoneIsReplaced'
    BY <1>4 DEF Install, At, JobInPlace, IsDone
  <1>5. ASSUME NEW f \in Files, InstallFails(f) PROVE DoneIsReplaced'
    BY <1>5 DEF InstallFails, PutBack, Outcome, TypeOK, IsDone
  <1>6. ASSUME NEW f \in Files, RecordVmaf(f) PROVE DoneIsReplaced'
    BY <1>6 DEF RecordVmaf, IsDone
  <1>7. ASSUME NEW f \in Files, ApplySkipped(f) PROVE DoneIsReplaced'
    BY <1>7 DEF ApplySkipped, Outcome, IsDone
  <1>8. ASSUME NEW f \in Files, CompleteTranscode(f) PROVE DoneIsReplaced'
    BY <1>8 DEF CompleteTranscode, At, TypeOK, JobInPlace, IsDone
  <1>9. ASSUME NEW f \in Files, RecoverRestore(f) PROVE DoneIsReplaced'
    BY <1>9 DEF RecoverRestore, PutBack, TypeOK, IsDone
  <1>10. ASSUME NEW f \in Files, Requeue(f) PROVE DoneIsReplaced'
    BY <1>10 DEF Requeue, IsDone
  <1>11. ASSUME NEW f \in Files, TurnDown(f) PROVE DoneIsReplaced'
    BY <1>11 DEF TurnDown, IsDone
  <1>12. CASE RecheckQualitySkips
    BY <1>12 DEF RecheckQualitySkips, IsDone
  <1>13. ASSUME NEW d \in Deleters, NEW f \in Files, RemoveFile(d, f)
         PROVE  DoneIsReplaced'
    BY <1>13 DEF RemoveFile, Remove, RemovalFails, TypeOK, ListIsDone, IsDone
  <1>14. ASSUME NEW d \in Deleters, NEW f \in Files, DeleteRow(d, f)
         PROVE  DoneIsReplaced'
    BY <1>14 DEF DeleteRow, IsDone
  <1>15. ASSUME NEW b \in Bars, NEW requeue \in BOOLEAN, NEW fill \in BOOLEAN,
                Restart(b, requeue, fill)
         PROVE  DoneIsReplaced'
    BY <1>15 DEF Restart, IsDone
  <1>16. ASSUME UNCHANGED <<row, original, installed, displaced, late, table>>
         PROVE  DoneIsReplaced'
    BY <1>16 DEF IsDone
  <1>17. ASSUME NEW f \in Files,
                \/ Encode(f) \/ Measure(f) \/ QualityGateSkips(f)
                \/ RecoverCommit(f) \/ Expire(f) \/ BackfillMeasures(f)
                \/ BackfillRecords(f)
         PROVE  DoneIsReplaced'
    BY <1>16, <1>17
       DEF Encode, Measure, QualityGateSkips, RecoverCommit, Expire,
          BackfillMeasures, BackfillRecords
  <1>18. CASE ReaperTick \/ DeleteConfirmedOriginals \/ Crash \/ UNCHANGED vars
    BY <1>16, <1>18 DEF ReaperTick, DeleteConfirmedOriginals, Crash, vars
  <1> QED
    BY <1>1, <1>2, <1>3, <1>4, <1>5, <1>6, <1>7, <1>8, <1>9, <1>10, <1>11,
       <1>12, <1>13, <1>14, <1>15, <1>17, <1>18 DEF Next, WorkerStep, Reap

\* The worker acts on the file of its job, and the deleters on done ones.
LEMMA JobInPlaceStep == IInv /\ [Next]_vars => JobInPlace'
  <1> SUFFICES ASSUME IInv, [Next]_vars PROVE JobInPlace'
    OBVIOUS
  <1> USE DEF IInv, JobInPlace, data, disk, worker, cleanup, filling, ghosts
  <1>1. ASSUME NEW f \in Files, Encode(f) PROVE JobInPlace'
    BY <1>1 DEF Encode, HasSource, TypeOK, IsDone
  <1>2. ASSUME NEW f \in Files, Fail(f) PROVE JobInPlace'
    BY <1>2 DEF Fail, Outcome, IsDone
  <1>3. ASSUME NEW f \in Files, SizeGateSkips(f) PROVE JobInPlace'
    BY <1>3 DEF SizeGateSkips, Outcome, IsDone
  <1>4. ASSUME NEW f \in Files, Measure(f) PROVE JobInPlace'
    BY <1>4 DEF Measure, At, IsDone
  <1>5. ASSUME NEW f \in Files, QualityGateSkips(f) PROVE JobInPlace'
    BY <1>5 DEF QualityGateSkips, IsDone
  <1>6. ASSUME NEW f \in Files, Retain(f) PROVE JobInPlace'
    BY <1>6 DEF Retain, At, TypeOK, IsDone
  <1>7. ASSUME NEW f \in Files, Install(f) PROVE JobInPlace'
    BY <1>7 DEF Install, At, TypeOK, IsDone
  <1>8. ASSUME NEW f \in Files, InstallFails(f) PROVE JobInPlace'
    BY <1>8 DEF InstallFails, PutBack, Outcome, TypeOK, IsDone
  <1>9. ASSUME NEW f \in Files, RecordVmaf(f) PROVE JobInPlace'
    BY <1>9 DEF RecordVmaf, IsDone
  <1>10. ASSUME NEW f \in Files, ApplySkipped(f) PROVE JobInPlace'
    BY <1>10 DEF ApplySkipped, Outcome, IsDone
  <1>11. ASSUME NEW f \in Files, CompleteTranscode(f) PROVE JobInPlace'
    BY <1>11 DEF CompleteTranscode, TypeOK, IsDone
  <1>12. ASSUME NEW f \in Files, RecoverCommit(f) PROVE JobInPlace'
    BY <1>12 DEF RecoverCommit, SlotTaken, DoneIsReplaced, IsDone
  <1>13. ASSUME NEW f \in Files, RecoverRestore(f) PROVE JobInPlace'
    BY <1>13 DEF RecoverRestore, Starts
  <1>14. ASSUME NEW f \in Files, Requeue(f) PROVE JobInPlace'
    BY <1>14 DEF Requeue, IsDone
  <1>15. ASSUME NEW f \in Files, TurnDown(f) PROVE JobInPlace'
    BY <1>15 DEF TurnDown, IsDone
  <1>16. CASE RecheckQualitySkips
    BY <1>16 DEF RecheckQualitySkips, IsDone
  <1>17. ASSUME NEW d \in Deleters, NEW f \in Files, RemoveFile(d, f)
         PROVE  JobInPlace'
    BY <1>17 DEF RemoveFile, Remove, RemovalFails, TypeOK, ListIsDone, IsDone
  <1>18. CASE Crash
    BY <1>18 DEF Crash
  <1>19. ASSUME NEW b \in Bars, NEW requeue \in BOOLEAN, NEW fill \in BOOLEAN,
                Restart(b, requeue, fill)
         PROVE  JobInPlace'
    BY <1>19 DEF Restart, IsDone
  <1>20. ASSUME UNCHANGED <<job, encodes, row, installed, late, original>>
         PROVE  JobInPlace'
    BY <1>20 DEF IsDone
  <1>21. ASSUME NEW f \in Files,
                \/ Expire(f) \/ BackfillMeasures(f) \/ BackfillRecords(f)
         PROVE  JobInPlace'
    BY <1>20, <1>21 DEF Expire, BackfillMeasures, BackfillRecords
  <1>22. CASE ReaperTick \/ DeleteConfirmedOriginals \/ UNCHANGED vars
    BY <1>20, <1>22 DEF ReaperTick, DeleteConfirmedOriginals, vars
  <1>23. ASSUME NEW d \in Deleters, NEW f \in Files, DeleteRow(d, f)
         PROVE  JobInPlace'
    BY <1>20, <1>23 DEF DeleteRow
  <1> QED
    BY <1>1, <1>2, <1>3, <1>4, <1>5, <1>6, <1>7, <1>8, <1>9, <1>10, <1>11,
       <1>12, <1>13, <1>14, <1>15, <1>16, <1>17, <1>18, <1>19, <1>21, <1>22,
       <1>23 DEF Next, WorkerStep, Reap

\* A job starts on a row in transcoding, and only its own outcome moves that row.
LEMMA NeverLateStep == IInv /\ [Next]_vars => NeverLate'
  <1> SUFFICES ASSUME IInv, [Next]_vars PROVE NeverLate'
    OBVIOUS
  <1> USE DEF IInv, NeverLate, data, disk, worker, cleanup, filling, ghosts
  <1>1. ASSUME NEW f \in Files, Encode(f) PROVE NeverLate'
    BY <1>1 DEF Encode, Starts, At
  <1>2. ASSUME NEW f \in Files, Fail(f) PROVE NeverLate'
    BY <1>2 DEF Fail, Outcome, TypeOK
  <1>3. ASSUME NEW f \in Files, SizeGateSkips(f) PROVE NeverLate'
    BY <1>3 DEF SizeGateSkips, Outcome, TypeOK
  <1>4. ASSUME NEW f \in Files, Measure(f) PROVE NeverLate'
    BY <1>4 DEF Measure, At
  <1>5. ASSUME NEW f \in Files, QualityGateSkips(f) PROVE NeverLate'
    BY <1>5 DEF QualityGateSkips, At
  <1>6. ASSUME NEW f \in Files, Retain(f) PROVE NeverLate'
    BY <1>6 DEF Retain, At, IsDone
  <1>7. ASSUME NEW f \in Files, Install(f) PROVE NeverLate'
    BY <1>7 DEF Install, At
  <1>8. ASSUME NEW f \in Files, InstallFails(f) PROVE NeverLate'
    BY <1>8 DEF InstallFails, Outcome, TypeOK
  <1>9. ASSUME NEW f \in Files, RecordVmaf(f) PROVE NeverLate'
    BY <1>9 DEF RecordVmaf, IsDone
  <1>10. ASSUME NEW f \in Files, ApplySkipped(f) PROVE NeverLate'
    BY <1>10 DEF ApplySkipped, Outcome, TypeOK
  <1>11. ASSUME NEW f \in Files, CompleteTranscode(f) PROVE NeverLate'
    BY <1>11 DEF CompleteTranscode, TypeOK
  <1>12. ASSUME NEW f \in Files, RecoverCommit(f) PROVE NeverLate'
    BY <1>12 DEF RecoverCommit, Starts
  <1>13. ASSUME NEW f \in Files, RecoverRestore(f) PROVE NeverLate'
    BY <1>13 DEF RecoverRestore, Starts
  <1>14. ASSUME NEW f \in Files, Requeue(f) PROVE NeverLate'
    BY <1>14 DEF Requeue
  <1>15. ASSUME NEW f \in Files, TurnDown(f) PROVE NeverLate'
    BY <1>15 DEF TurnDown
  <1>16. CASE RecheckQualitySkips
    BY <1>16 DEF RecheckQualitySkips
  <1>17. CASE Crash
    BY <1>17 DEF Crash
  <1>18. ASSUME NEW b \in Bars, NEW requeue \in BOOLEAN, NEW fill \in BOOLEAN,
                Restart(b, requeue, fill)
         PROVE  NeverLate'
    BY <1>18 DEF Restart
  <1>19. ASSUME UNCHANGED <<late, job, row>>
         PROVE  NeverLate'
    BY <1>19
  <1>20. ASSUME NEW f \in Files,
                \/ Expire(f) \/ BackfillMeasures(f) \/ BackfillRecords(f)
         PROVE  NeverLate'
    BY <1>19, <1>20 DEF Expire, BackfillMeasures, BackfillRecords
  <1>21. CASE ReaperTick \/ DeleteConfirmedOriginals \/ UNCHANGED vars
    BY <1>19, <1>21 DEF ReaperTick, DeleteConfirmedOriginals, vars
  <1>22. ASSUME NEW d \in Deleters, NEW f \in Files, RemoveFile(d, f)
         PROVE  NeverLate'
    BY <1>19, <1>22 DEF RemoveFile
  <1>23. ASSUME NEW d \in Deleters, NEW f \in Files, DeleteRow(d, f)
         PROVE  NeverLate'
    BY <1>19, <1>23 DEF DeleteRow
  <1> QED
    BY <1>1, <1>2, <1>3, <1>4, <1>5, <1>6, <1>7, <1>8, <1>9, <1>10, <1>11,
       <1>12, <1>13, <1>14, <1>15, <1>16, <1>17, <1>18, <1>20, <1>21, <1>22,
       <1>23 DEF Next, WorkerStep, Reap

\* No step takes a done file out of its state.
LEMMA ListIsDoneStep == IInv /\ [Next]_vars => ListIsDone'
  <1> SUFFICES ASSUME IInv, [Next]_vars PROVE ListIsDone'
    OBVIOUS
  <1> USE DEF IInv, ListIsDone, data, disk, worker, cleanup, filling, ghosts
  <1>1. ASSUME NEW f \in Files, Fail(f) PROVE ListIsDone'
    BY <1>1 DEF Fail, Outcome, IsDone
  <1>2. ASSUME NEW f \in Files, SizeGateSkips(f) PROVE ListIsDone'
    BY <1>2 DEF SizeGateSkips, Outcome, IsDone
  <1>3. ASSUME NEW f \in Files, InstallFails(f) PROVE ListIsDone'
    BY <1>3 DEF InstallFails, Outcome, IsDone
  <1>4. ASSUME NEW f \in Files, ApplySkipped(f) PROVE ListIsDone'
    BY <1>4 DEF ApplySkipped, Outcome, IsDone
  <1>5. ASSUME NEW f \in Files, CompleteTranscode(f) PROVE ListIsDone'
    BY <1>5 DEF CompleteTranscode, TypeOK, IsDone
  <1>6. ASSUME NEW f \in Files, Requeue(f) PROVE ListIsDone'
    BY <1>6 DEF Requeue, IsDone
  <1>7. ASSUME NEW f \in Files, TurnDown(f) PROVE ListIsDone'
    BY <1>7 DEF TurnDown, IsDone
  <1>8. CASE RecheckQualitySkips
    BY <1>8 DEF RecheckQualitySkips, TypeOK, IsDone
  <1>9. CASE ReaperTick
    BY <1>9 DEF ReaperTick, TypeOK, DoneIsReplaced, IsDone
  <1>10. CASE DeleteConfirmedOriginals
    BY <1>10 DEF DeleteConfirmedOriginals, Confirmed, DoneIsReplaced, IsDone
  <1>11. ASSUME NEW d \in Deleters, NEW f \in Files, RemoveFile(d, f)
         PROVE  ListIsDone'
    BY <1>11 DEF RemoveFile, IsDone
  <1>12. CASE Crash
    BY <1>12 DEF Crash
  <1>13. ASSUME NEW b \in Bars, NEW requeue \in BOOLEAN, NEW fill \in BOOLEAN,
                Restart(b, requeue, fill)
         PROVE  ListIsDone'
    BY <1>13 DEF Restart, Stopped
  <1>14. ASSUME UNCHANGED <<list, row>>
         PROVE  ListIsDone'
    BY <1>14 DEF IsDone
  <1>15. ASSUME NEW f \in Files,
                \/ Encode(f) \/ Measure(f) \/ QualityGateSkips(f)
                \/ Retain(f) \/ Install(f) \/ RecordVmaf(f)
                \/ RecoverCommit(f) \/ RecoverRestore(f) \/ Expire(f)
                \/ BackfillMeasures(f) \/ BackfillRecords(f)
         PROVE  ListIsDone'
    BY <1>14, <1>15
       DEF Encode, Measure, QualityGateSkips, Retain, Install, RecordVmaf,
          RecoverCommit, RecoverRestore, Expire, BackfillMeasures,
          BackfillRecords
  <1>16. CASE UNCHANGED vars
    BY <1>14, <1>16 DEF vars
  <1>17. ASSUME NEW d \in Deleters, NEW f \in Files, DeleteRow(d, f)
         PROVE  ListIsDone'
    BY <1>14, <1>17 DEF DeleteRow
  <1> QED
    BY <1>1, <1>2, <1>3, <1>4, <1>5, <1>6, <1>7, <1>8, <1>9, <1>10, <1>11,
       <1>12, <1>13, <1>15, <1>16, <1>17 DEF Next, WorkerStep, Reap

\* No step makes a listed file less due, but a late job.
LEMMA ListIsDueStep == IInv /\ [Next]_vars => ListIsDue'
  <1> SUFFICES ASSUME IInv, [Next]_vars PROVE ListIsDue'
    OBVIOUS
  <1> USE DEF IInv, ListIsDue, data, disk, worker, cleanup, filling, ghosts
  <1>1. ASSUME NEW f \in Files, Fail(f) PROVE ListIsDue'
    BY <1>1 DEF Fail, Outcome, ReachesBar, Reaches, IsDone
  <1>2. ASSUME NEW f \in Files, SizeGateSkips(f) PROVE ListIsDue'
    BY <1>2 DEF SizeGateSkips, Outcome, ReachesBar, Reaches, IsDone
  <1>3. ASSUME NEW f \in Files, Retain(f) PROVE ListIsDue'
    BY <1>3 DEF Retain, ReachesBar, Reaches, IsDone
  <1>4. ASSUME NEW f \in Files, InstallFails(f) PROVE ListIsDue'
    BY <1>4 DEF InstallFails, Outcome, ReachesBar, Reaches, IsDone
  <1>5. ASSUME NEW f \in Files, RecordVmaf(f) PROVE ListIsDue'
    BY <1>5 DEF RecordVmaf, ReachesBar, Reaches, IsDone
  <1>6. ASSUME NEW f \in Files, ApplySkipped(f) PROVE ListIsDue'
    BY <1>6 DEF ApplySkipped, Outcome, ReachesBar, Reaches, IsDone
  <1>7. ASSUME NEW f \in Files, CompleteTranscode(f) PROVE ListIsDue'
    <2>1. \A g \in Files : IsDone(g) => row'[g] = "done"
      BY <1>7 DEF CompleteTranscode, TypeOK, IsDone
    <2>2. UNCHANGED <<list, score, bar, late, expired>>
      BY <1>7 DEF CompleteTranscode
    <2>3. list["operator"] \subseteq Files
      BY DEF TypeOK, Deleters
    <2>4. \A g \in Files : ReachesBar(g) => ReachesBar(g)'
      BY <2>1, <2>2 DEF ReachesBar, Reaches, IsDone
    <2> QED
      BY <2>2, <2>3, <2>4
  <1>8. ASSUME NEW f \in Files, Requeue(f) PROVE ListIsDue'
    BY <1>8 DEF Requeue, ReachesBar, Reaches, IsDone
  <1>9. ASSUME NEW f \in Files, TurnDown(f) PROVE ListIsDue'
    BY <1>9 DEF TurnDown, ReachesBar, Reaches, IsDone
  <1>10. ASSUME NEW f \in Files, Expire(f) PROVE ListIsDue'
    BY <1>10 DEF Expire, ReachesBar, Reaches, IsDone
  <1>11. ASSUME NEW f \in Files, BackfillRecords(f) PROVE ListIsDue'
    BY <1>11 DEF BackfillRecords, ReachesBar, Reaches, BackfillUnscored, IsDone
  <1>12. CASE RecheckQualitySkips
    <2>1. \A g \in Files : IsDone(g) => row'[g] = "done"
      BY <1>12 DEF RecheckQualitySkips, TypeOK, IsDone
    <2>2. UNCHANGED <<list, score, bar, late, expired>>
      BY <1>12 DEF RecheckQualitySkips
    <2>3. list["operator"] \subseteq Files
      BY DEF TypeOK, Deleters
    <2>4. \A g \in Files : ReachesBar(g) => ReachesBar(g)'
      BY <2>1, <2>2 DEF ReachesBar, Reaches, IsDone
    <2> QED
      BY <2>2, <2>3, <2>4
  <1>13. CASE ReaperTick
    BY <1>13 DEF ReaperTick, ReachesBar, Reaches, IsDone
  <1>14. CASE DeleteConfirmedOriginals
    BY <1>14
       DEF DeleteConfirmedOriginals, Confirmed, ReachesBar, Reaches, IsDone
  <1>15. ASSUME NEW d \in Deleters, NEW f \in Files, RemoveFile(d, f)
         PROVE  ListIsDue'
    BY <1>15 DEF RemoveFile, ReachesBar, Reaches, IsDone
  <1>16. CASE Crash
    BY <1>16 DEF Crash, Deleters
  <1>17. ASSUME NEW b \in Bars, NEW requeue \in BOOLEAN, NEW fill \in BOOLEAN,
                Restart(b, requeue, fill)
         PROVE  ListIsDue'
    BY <1>17 DEF Restart, Stopped, Deleters
  <1>18. ASSUME UNCHANGED <<list, expired, row, score, bar, late>>
         PROVE  ListIsDue'
    BY <1>18 DEF IsDone, ReachesBar, Reaches
  <1>19. ASSUME NEW f \in Files,
                \/ Encode(f) \/ Measure(f) \/ QualityGateSkips(f)
                \/ Install(f) \/ RecoverCommit(f) \/ RecoverRestore(f)
                \/ BackfillMeasures(f)
         PROVE  ListIsDue'
    BY <1>18, <1>19
       DEF Encode, Measure, QualityGateSkips, Install, RecoverCommit,
          RecoverRestore, BackfillMeasures
  <1>20. CASE UNCHANGED vars
    BY <1>18, <1>20 DEF vars
  <1>21. ASSUME NEW d \in Deleters, NEW f \in Files, DeleteRow(d, f)
         PROVE  ListIsDue'
    BY <1>18, <1>21 DEF DeleteRow
  <1> QED
    BY <1>1, <1>2, <1>3, <1>4, <1>5, <1>6, <1>7, <1>8, <1>9, <1>10, <1>11,
       <1>12, <1>13, <1>14, <1>15, <1>16, <1>17, <1>19, <1>20, <1>21
       DEF Next, WorkerStep, Reap

\* A removed original stays removed.
LEMMA FileFirstStep == IInv /\ [Next]_vars => FileFirst'
  <1> SUFFICES ASSUME IInv, [Next]_vars PROVE FileFirst'
    OBVIOUS
  <1> USE DEF IInv, FileFirst, data, disk, worker, cleanup, filling, ghosts
  <1>1. ASSUME NEW f \in Files, Retain(f) PROVE FileFirst'
    BY <1>1 DEF Retain, TypeOK, DoneIsReplaced
  <1>2. ASSUME NEW f \in Files, InstallFails(f) PROVE FileFirst'
    BY <1>2 DEF InstallFails, PutBack, Outcome, TypeOK, DoneIsReplaced
  <1>3. ASSUME NEW f \in Files, RecoverRestore(f) PROVE FileFirst'
    BY <1>3 DEF RecoverRestore, PutBack, TypeOK, DoneIsReplaced
  <1>4. ASSUME NEW d \in Deleters, NEW f \in Files, RemoveFile(d, f)
         PROVE  FileFirst'
    BY <1>4 DEF RemoveFile, Remove, RemovalFails, TypeOK
  <1>5. ASSUME NEW d \in Deleters, NEW f \in Files, DeleteRow(d, f)
         PROVE  FileFirst'
    BY <1>5 DEF DeleteRow
  <1>6. CASE Crash
    BY <1>6 DEF Crash
  <1>7. ASSUME UNCHANGED <<removing, original, refused>>
         PROVE  FileFirst'
    BY <1>7 DEF IsDone
  <1>8. ASSUME NEW f \in Files,
                \/ Encode(f) \/ Fail(f) \/ SizeGateSkips(f) \/ Measure(f)
                \/ QualityGateSkips(f) \/ Install(f) \/ RecordVmaf(f)
                \/ ApplySkipped(f) \/ CompleteTranscode(f)
                \/ RecoverCommit(f) \/ Requeue(f) \/ TurnDown(f)
                \/ Expire(f) \/ BackfillMeasures(f) \/ BackfillRecords(f)
         PROVE  FileFirst'
    BY <1>7, <1>8
       DEF Encode, Fail, SizeGateSkips, Measure, QualityGateSkips, Install,
          RecordVmaf, ApplySkipped, CompleteTranscode, RecoverCommit, Requeue,
          TurnDown, Expire, BackfillMeasures, BackfillRecords, Outcome
  <1>9. CASE \/ RecheckQualitySkips \/ ReaperTick \/ DeleteConfirmedOriginals
             \/ UNCHANGED vars
    BY <1>7, <1>9
       DEF RecheckQualitySkips, ReaperTick, DeleteConfirmedOriginals, vars
  <1>10. ASSUME NEW b \in Bars, NEW requeue \in BOOLEAN, NEW fill \in BOOLEAN,
                Restart(b, requeue, fill)
         PROVE  FileFirst'
    BY <1>7, <1>10 DEF Restart
  <1> QED
    BY <1>1, <1>2, <1>3, <1>4, <1>5, <1>6, <1>8, <1>9, <1>10
       DEF Next, WorkerStep, Reap

\* Nothing else scores a done file or moves its encode, but a late job.
LEMMA BackfillUnscoredStep == IInv /\ [Next]_vars => BackfillUnscored'
  <1> SUFFICES ASSUME IInv, [Next]_vars PROVE BackfillUnscored'
    OBVIOUS
  <1> USE DEF IInv, BackfillUnscored, data, disk, worker, cleanup, filling, ghosts
  <1>1. ASSUME NEW f \in Files, Fail(f) PROVE BackfillUnscored'
    BY <1>1 DEF Fail, Outcome, IsDone
  <1>2. ASSUME NEW f \in Files, SizeGateSkips(f) PROVE BackfillUnscored'
    BY <1>2 DEF SizeGateSkips, Outcome, IsDone
  <1>3. ASSUME NEW f \in Files, Retain(f) PROVE BackfillUnscored'
    BY <1>3 DEF Retain, TypeOK, IsDone
  <1>4. ASSUME NEW f \in Files, Install(f) PROVE BackfillUnscored'
    BY <1>4 DEF Install, At, JobInPlace, IsDone
  <1>5. ASSUME NEW f \in Files, InstallFails(f) PROVE BackfillUnscored'
    BY <1>5 DEF InstallFails, PutBack, Outcome, At, TypeOK, JobInPlace, IsDone
  <1>6. ASSUME NEW f \in Files, RecordVmaf(f) PROVE BackfillUnscored'
    BY <1>6 DEF RecordVmaf, IsDone
  <1>7. ASSUME NEW f \in Files, ApplySkipped(f) PROVE BackfillUnscored'
    BY <1>7 DEF ApplySkipped, Outcome, IsDone
  <1>8. ASSUME NEW f \in Files, CompleteTranscode(f) PROVE BackfillUnscored'
    BY <1>8 DEF CompleteTranscode, TypeOK, IsDone
  <1>9. ASSUME NEW f \in Files, RecoverRestore(f) PROVE BackfillUnscored'
    BY <1>9 DEF RecoverRestore, PutBack, TypeOK, DoneIsReplaced, IsDone
  <1>10. ASSUME NEW f \in Files, Requeue(f) PROVE BackfillUnscored'
    BY <1>10 DEF Requeue, IsDone
  <1>11. ASSUME NEW f \in Files, TurnDown(f) PROVE BackfillUnscored'
    BY <1>11 DEF TurnDown, IsDone
  <1>12. ASSUME NEW f \in Files, BackfillMeasures(f) PROVE BackfillUnscored'
    BY <1>12 DEF BackfillMeasures, TypeOK, IsDone, Scores
  <1>13. ASSUME NEW f \in Files, BackfillRecords(f) PROVE BackfillUnscored'
    BY <1>13 DEF BackfillRecords, TypeOK, IsDone
  <1>14. CASE RecheckQualitySkips
    BY <1>14 DEF RecheckQualitySkips, TypeOK, IsDone
  <1>15. CASE Crash
    BY <1>15 DEF Crash
  <1>16. ASSUME NEW b \in Bars, NEW requeue \in BOOLEAN, NEW fill \in BOOLEAN,
                Restart(b, requeue, fill)
         PROVE  BackfillUnscored'
    BY <1>16 DEF Restart, FetchDoneMissingVmaf, TypeOK, Stopped, IsDone
  <1>17. ASSUME UNCHANGED <<backfill, filled, row, score, late, installed>>
         PROVE  BackfillUnscored'
    BY <1>17 DEF IsDone
  <1>18. ASSUME NEW f \in Files,
                \/ Encode(f) \/ Measure(f) \/ QualityGateSkips(f)
                \/ RecoverCommit(f) \/ Expire(f)
         PROVE  BackfillUnscored'
    BY <1>17, <1>18
       DEF Encode, Measure, QualityGateSkips, RecoverCommit, Expire
  <1>19. CASE ReaperTick \/ DeleteConfirmedOriginals \/ UNCHANGED vars
    BY <1>17, <1>19 DEF ReaperTick, DeleteConfirmedOriginals, vars
  <1>20. ASSUME NEW d \in Deleters, NEW f \in Files, RemoveFile(d, f)
         PROVE  BackfillUnscored'
    BY <1>17, <1>20 DEF RemoveFile
  <1>21. ASSUME NEW d \in Deleters, NEW f \in Files, DeleteRow(d, f)
         PROVE  BackfillUnscored'
    BY <1>17, <1>21 DEF DeleteRow
  <1> QED
    BY <1>1, <1>2, <1>3, <1>4, <1>5, <1>6, <1>7, <1>8, <1>9, <1>10, <1>11,
       <1>12, <1>13, <1>14, <1>15, <1>16, <1>18, <1>19, <1>20, <1>21
       DEF Next, WorkerStep, Reap

\* Only a deleter removes a row, after its file or a failure to remove it.
LEMMA LeakedIsRefusedStep == IInv /\ [Next]_vars => LeakedIsRefused'
  <1> SUFFICES ASSUME IInv, [Next]_vars PROVE LeakedIsRefused'
    OBVIOUS
  <1> USE DEF IInv, LeakedIsRefused, data, disk, worker, cleanup, filling, ghosts
  <1>1. ASSUME NEW f \in Files, Fail(f) PROVE LeakedIsRefused'
    BY <1>1 DEF Fail, Outcome, IsDone
  <1>2. ASSUME NEW f \in Files, SizeGateSkips(f) PROVE LeakedIsRefused'
    BY <1>2 DEF SizeGateSkips, Outcome, IsDone
  <1>3. ASSUME NEW f \in Files, Retain(f) PROVE LeakedIsRefused'
    BY <1>3 DEF Retain, TypeOK, IsDone
  <1>4. ASSUME NEW f \in Files, InstallFails(f) PROVE LeakedIsRefused'
    BY <1>4 DEF InstallFails, PutBack, Outcome, TypeOK, IsDone
  <1>5. ASSUME NEW f \in Files, ApplySkipped(f) PROVE LeakedIsRefused'
    BY <1>5 DEF ApplySkipped, Outcome, IsDone
  <1>6. ASSUME NEW f \in Files, CompleteTranscode(f) PROVE LeakedIsRefused'
    BY <1>6 DEF CompleteTranscode, TypeOK, IsDone
  <1>7. ASSUME NEW f \in Files, RecoverRestore(f) PROVE LeakedIsRefused'
    BY <1>7 DEF RecoverRestore, PutBack, TypeOK, IsDone
  <1>8. ASSUME NEW f \in Files, Requeue(f) PROVE LeakedIsRefused'
    BY <1>8 DEF Requeue, IsDone
  <1>9. ASSUME NEW f \in Files, TurnDown(f) PROVE LeakedIsRefused'
    BY <1>9 DEF TurnDown, IsDone
  <1>10. CASE RecheckQualitySkips
    BY <1>10 DEF RecheckQualitySkips, IsDone
  <1>11. ASSUME NEW d \in Deleters, NEW f \in Files, RemoveFile(d, f)
         PROVE  LeakedIsRefused'
    BY <1>11 DEF RemoveFile, Remove, RemovalFails, TypeOK, IsDone
  <1>12. ASSUME NEW d \in Deleters, NEW f \in Files, DeleteRow(d, f)
         PROVE  LeakedIsRefused'
    BY <1>12 DEF DeleteRow, FileFirst, IsDone
  <1>13. ASSUME NEW b \in Bars, NEW requeue \in BOOLEAN, NEW fill \in BOOLEAN,
                Restart(b, requeue, fill)
         PROVE  LeakedIsRefused'
    BY <1>13 DEF Restart, IsDone
  <1>14. ASSUME UNCHANGED <<row, original, table, refused>>
         PROVE  LeakedIsRefused'
    BY <1>14 DEF IsDone
  <1>15. ASSUME NEW f \in Files,
                \/ Encode(f) \/ Measure(f) \/ QualityGateSkips(f)
                \/ Install(f) \/ RecordVmaf(f) \/ RecoverCommit(f)
                \/ Expire(f) \/ BackfillMeasures(f) \/ BackfillRecords(f)
         PROVE  LeakedIsRefused'
    BY <1>14, <1>15
       DEF Encode, Measure, QualityGateSkips, Install, RecordVmaf,
          RecoverCommit, Expire, BackfillMeasures, BackfillRecords
  <1>16. CASE ReaperTick \/ DeleteConfirmedOriginals \/ Crash \/ UNCHANGED vars
    BY <1>14, <1>16 DEF ReaperTick, DeleteConfirmedOriginals, Crash, vars
  <1> QED
    BY <1>1, <1>2, <1>3, <1>4, <1>5, <1>6, <1>7, <1>8, <1>9, <1>10, <1>11,
       <1>12, <1>13, <1>15, <1>16 DEF Next, WorkerStep, Reap

-----------------------------------------------------------------------------
(* The whole specification.                                                *)

LEMMA InitInv == Init => IInv
  <1> SUFFICES ASSUME Init PROVE IInv
    OBVIOUS
  <1>1. TypeOK
    BY RetentionAssumption DEF Init, TypeOK, Deleters, Steps, RetentionAssumption
  <1>2. DoneIsReplaced /\ JobInPlace /\ NeverLate /\ LeakedIsRefused
    BY DEF Init, DoneIsReplaced, JobInPlace, NeverLate, LeakedIsRefused, IsDone
  <1>3. Stopped /\ ListIsDone /\ ListIsDue /\ FileFirst /\ BackfillUnscored
    BY DEF Init, Stopped, ListIsDone, ListIsDue, FileFirst, BackfillUnscored, Deleters
  <1> QED
    BY <1>1, <1>2, <1>3 DEF IInv

\* What every reachable state satisfies: rows, lists, disk and the memory of
\* the worker, the deleters and the backfill agree.
THEOREM Invariance == Spec => []IInv
  <1>1. IInv /\ [Next]_vars => IInv'
    BY TypeOKStep, StoppedStep, DoneIsReplacedStep, JobInPlaceStep, NeverLateStep,
       ListIsDoneStep, ListIsDueStep, FileFirstStep, BackfillUnscoredStep,
       LeakedIsRefusedStep DEF IInv
  <1> QED
    BY InitInv, <1>1, PTL DEF Spec

\* Every variable stays in its domain; in particular a job never scores an
\* encode that was not made.
THEOREM TypeCorrect == Spec => []TypeOK
  <1>1. IInv => TypeOK
    BY DEF IInv
  <1> QED
    BY <1>1, Invariance, PTL

\* No sequence of lost commits, requeues, deletions, crashes and late jobs
\* destroys an original whose file is not done with an encode in its place, but
\* for what a late job did with that encode (reap_retention,
\* delete_confirmed_originals, process_file).
THEOREM NothingGoneUnreplaced == Spec => []GoneIsReplaced
  <1>1. IInv => GoneIsReplaced
    BY DEF IInv, DoneIsReplaced, GoneIsReplaced
  <1> QED
    BY <1>1, Invariance, PTL

\* No done file has been worked on, and every one has its encode in its place.
OneJobEach ==
    \A f \in Files :
        /\ f \notin late
        /\ displaced[f] = 0
        /\ IsDone(f) => installed[f] # 0

\* When no id reaches the worker after its row left transcoding, no done file is
\* ever worked on: the exceptions late ids make in GoneIsReplaced, KeptInWindow
\* and BackfillOnlyFills are empty, and every done file has its encode, in its
\* place and not in retention (process_file, complete_transcode).
THEOREM PunctualIdsKeepEncodes == ~LateDispatch => (Spec => []OneJobEach)
  <1> SUFFICES ASSUME ~LateDispatch PROVE Spec => []OneJobEach
    OBVIOUS
  <1>1. IInv => OneJobEach
    BY DEF IInv, NeverLate, DoneIsReplaced, OneJobEach
  <1> QED
    BY <1>1, Invariance, PTL

\* The retained original of a done file stays on disk with no row naming it
\* only if its removal failed, whatever crashed or failed between the removal
\* and the deletion of the row (reap_retention).
THEOREM OnlyRefusedLeak == Spec => []LeakedIsRefused
  <1>1. IInv => LeakedIsRefused
    BY DEF IInv
  <1> QED
    BY <1>1, Invariance, PTL

\* An original destroyed before its window is over has, at that moment, a
\* score at the bar on its row, unless a late job worked on it: nothing else
\* makes a list the operator's action read earlier stale in this
\* (fetch_confirmed_originals).
THEOREM NoneGoesEarlyUnconfirmed == Spec => KeptInWindow
  <1> DEFINE Due(f) == f \in expired \/ ReachesBar(f) \/ f \in late
  <1>1. ASSUME IInv, [Next]_vars, NEW f \in Files, original[f] # "gone",
               original'[f] = "gone"
        PROVE  Due(f)
    <2> USE DEF data, disk, worker, cleanup, filling, ghosts
    <2>1. ASSUME NEW d \in Deleters, NEW g \in Files, RemoveFile(d, g) PROVE Due(f)
      <3>1. f = g /\ f \in list[d]
        BY <1>1, <2>1 DEF RemoveFile, Remove, RemovalFails, IInv, TypeOK
      <3> QED
        BY <1>1, <3>1 DEF IInv, ListIsDue, Deleters
    <2>2. ASSUME NEW g \in Files, Retain(g) \/ InstallFails(g) \/ RecoverRestore(g)
          PROVE  FALSE
      BY <1>1, <2>2 DEF Retain, InstallFails, RecoverRestore, PutBack, IInv, TypeOK
    <2>3. CASE UNCHANGED original
      BY <1>1, <2>3
    <2>4. ASSUME NEW g \in Files,
                 \/ Encode(g) \/ Fail(g) \/ SizeGateSkips(g) \/ Measure(g)
                 \/ QualityGateSkips(g) \/ Install(g) \/ RecordVmaf(g)
                 \/ ApplySkipped(g) \/ CompleteTranscode(g) \/ RecoverCommit(g)
          PROVE  UNCHANGED original
      BY <2>4 DEF Encode, Fail, SizeGateSkips, Measure, QualityGateSkips, Install,
                  RecordVmaf, ApplySkipped, CompleteTranscode, RecoverCommit
    <2>5. ASSUME NEW g \in Files,
                 \/ Requeue(g) \/ TurnDown(g) \/ Expire(g)
                 \/ BackfillMeasures(g) \/ BackfillRecords(g)
          PROVE  UNCHANGED original
      BY <2>5 DEF Requeue, TurnDown, Expire, BackfillMeasures, BackfillRecords
    <2>6. ASSUME NEW d \in Deleters, NEW g \in Files, DeleteRow(d, g)
          PROVE  UNCHANGED original
      BY <2>6 DEF DeleteRow
    <2>7. ASSUME \/ RecheckQualitySkips \/ ReaperTick \/ DeleteConfirmedOriginals
                 \/ Crash
                 \/ \E b \in Bars, requeue, fill \in BOOLEAN : Restart(b, requeue, fill)
                 \/ UNCHANGED vars
          PROVE  UNCHANGED original
      BY <2>7 DEF RecheckQualitySkips, ReaperTick, DeleteConfirmedOriginals, Crash,
                  Restart, vars
    <2> QED
      BY <1>1, <2>1, <2>2, <2>3, <2>4, <2>5, <2>6, <2>7 DEF Next, WorkerStep, Reap
  <1>2. IInv /\ [Next]_vars =>
          [\A f \in Files : original[f] # "gone" /\ original'[f] = "gone" => Due(f)]_vars
    BY <1>1
  <1> QED
    BY <1>2, Invariance, PTL DEF Spec, KeptInWindow

\* A score stored on a done file is its first and one of the encode in place,
\* unless a late job worked on it, although the backfill looks neither at the
\* row nor at the disk again between its query and its write (backfill_vmaf,
\* record_vmaf).
THEOREM BackfillScoresInPlace == Spec => BackfillOnlyFills
  <1> DEFINE First(f) == \/ score[f] = {} /\ \A s \in score'[f] : s.of = installed[f]
                         \/ f \in late'
  <1>1. ASSUME IInv, [Next]_vars, NEW f \in Files, IsDone(f), score'[f] # score[f]
        PROVE  First(f)
    <2> USE DEF data, disk, worker, cleanup, filling, ghosts
    <2>1. ASSUME NEW g \in Files, BackfillRecords(g) PROVE First(f)
      <3>1. f = g /\ filled[f] # {} /\ score'[f] = filled[f] /\ late' = late
        BY <1>1, <2>1 DEF BackfillRecords, IInv, TypeOK
      <3> QED
        BY <1>1, <3>1 DEF IInv, BackfillUnscored
    <2>2. ASSUME NEW g \in Files, RecordVmaf(g) PROVE First(f)
      BY <1>1, <2>2 DEF RecordVmaf, IInv, TypeOK
    <2>3. ASSUME NEW g \in Files, Requeue(g) PROVE FALSE
      BY <1>1, <2>3 DEF Requeue, IInv, TypeOK, IsDone
    <2>4. ASSUME NEW g \in Files,
                 \/ Encode(g) \/ Fail(g) \/ SizeGateSkips(g) \/ Measure(g)
                 \/ QualityGateSkips(g) \/ Retain(g) \/ Install(g) \/ InstallFails(g)
                 \/ ApplySkipped(g) \/ CompleteTranscode(g) \/ RecoverCommit(g)
                 \/ RecoverRestore(g)
          PROVE  UNCHANGED score
      BY <2>4 DEF Encode, Fail, SizeGateSkips, Measure, QualityGateSkips, Retain,
                  Install, InstallFails, Outcome, ApplySkipped, CompleteTranscode,
                  RecoverCommit, RecoverRestore
    <2>5. ASSUME NEW g \in Files, TurnDown(g) \/ Expire(g) \/ BackfillMeasures(g)
          PROVE  UNCHANGED score
      BY <2>5 DEF TurnDown, Expire, BackfillMeasures
    <2>6. ASSUME NEW d \in Deleters, NEW g \in Files, RemoveFile(d, g) \/ DeleteRow(d, g)
          PROVE  UNCHANGED score
      BY <2>6 DEF RemoveFile, DeleteRow
    <2>7. ASSUME \/ RecheckQualitySkips \/ ReaperTick \/ DeleteConfirmedOriginals
                 \/ Crash
                 \/ \E b \in Bars, requeue, fill \in BOOLEAN : Restart(b, requeue, fill)
                 \/ UNCHANGED vars
          PROVE  UNCHANGED score
      BY <2>7 DEF RecheckQualitySkips, ReaperTick, DeleteConfirmedOriginals, Crash,
                  Restart, vars
    <2> QED
      BY <1>1, <2>1, <2>2, <2>3, <2>4, <2>5, <2>6, <2>7 DEF Next, WorkerStep, Reap
  <1>2. IInv /\ [Next]_vars =>
          [\A f \in Files : IsDone(f) /\ score'[f] # score[f] => First(f)]_vars
    BY <1>1
  <1> QED
    BY <1>2, Invariance, PTL DEF Spec, BackfillOnlyFills

=============================================================================
