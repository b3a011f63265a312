--------------------------- MODULE PipelineProofs ---------------------------
(***************************************************************************)
(* Pipeline for any number of files, tasks, losses and crashes: its types, *)
(* that no active file is left without a driver while the listener         *)
(* receives, that a file whose probe failed stays failed, and that every   *)
(* step is one the abstract workflow allows.                               *)
(***************************************************************************)
EXTENDS Pipeline, TLAPS

\* A probe or an analysis takes a file to one of two states.
LEMMA OutcomeType ==
    /\ ProbeOutcomes \subseteq {"probed", "failed"}
    /\ AnalysisLeadsTo \subseteq {"analyzed", "skipped"}
  BY DEF ProbeOutcomes, ProbeLeadsTo, AnalysisLeadsTo

\* Every error has a class.
LEMMA ClassifyType == \A error : Classify(error) \in FailureClass
  BY DEF Classify, FailureClass

\* What a commit does to the types.
LEMMA CommitType ==
    ASSUME TypeOK, NEW f \in Files, NEW from \in Flow!States \cup {"none"},
           NEW to \in Flow!States, Commit(f, from, to)
    PROVE  /\ state' \in [Files -> Flow!States \cup {"none"}]
           /\ mail' \in [Files -> Nat]
           /\ state'[f] = to /\ state[f] = from
           /\ \A g \in Files \ {f} : state'[g] = state[g] /\ mail'[g] = mail[g]
           /\ forgotten' = forgotten \ {f}
           /\ listener = "down" => mail' = mail
           /\ listener # "down" => mail'[f] = mail[f] + 1
           /\ to # "none"
  BY DEF Inc, TypeOK, Commit, Flow!States

LEMMA InitType == Init => TypeOK
  BY PipelineAssumption DEF Init, TypeOK, NoneOf, Flow!States, PipelineAssumption

LEMMA TypeStep == TypeOK /\ [Next]_vars => TypeOK'
  <1> SUFFICES ASSUME TypeOK, [Next]_vars PROVE TypeOK'
    OBVIOUS
  <1> USE PipelineAssumption DEF PipelineAssumption
  <1>1. CASE Connect
    BY <1>1 DEF Connect, TypeOK, rows, tasks
  <1>2. CASE CatchUp
    BY <1>2 DEF CatchUp, Resumed, TypeOK, rows, Flow!Active, Flow!States
  <1>3. CASE ListenerFails
    BY <1>3 DEF ListenerFails, Fault, NoneOf, TypeOK, rows, tasks
  <1>4. CASE MailLost
    BY <1>4 DEF MailLost, Fault, NoneOf, TypeOK, rows, tasks
  <1>5. ASSUME NEW f \in Files, Receive(f) PROVE TypeOK'
    BY <1>5 DEF Receive, Inc, Dec, TypeOK, rows
  <1>6. ASSUME NEW f \in Files, Take(f) PROVE TypeOK'
    BY <1>6 DEF Take, Inc, Dec, TypeOK, rows
  <1>7. ASSUME NEW f \in Files, TakeFails(f) PROVE TypeOK'
    BY <1>7 DEF TakeFails, Inc, Dec, Fault, TypeOK, rows
  <1>8. ASSUME NEW f \in Files, NEW to \in ProbeOutcomes, ProbeEnds(f, to)
        PROVE TypeOK'
    <2>1. CASE Stale(f, "discovered")
      BY <1>8, <2>1 DEF ProbeEnds, Inc, Dec, Stale, TypeOK
    <2>2. CASE Commit(f, "discovered", to)
      BY <1>8, <2>2, CommitType, OutcomeType
         DEF ProbeEnds, Inc, Dec, TypeOK, Flow!States
    <2> QED
      BY <1>8, <2>1, <2>2 DEF ProbeEnds
  <1>9. ASSUME NEW f \in Files, NEW to \in AnalysisLeadsTo, AnalysisEnds(f, to)
        PROVE TypeOK'
    <2>1. CASE Stale(f, "probed")
      BY <1>9, <2>1 DEF AnalysisEnds, Inc, Dec, Stale, TypeOK
    <2>2. CASE Commit(f, "probed", to)
      BY <1>9, <2>2, CommitType, OutcomeType
         DEF AnalysisEnds, Inc, Dec, TypeOK, Flow!States
    <2> QED
      BY <1>9, <2>1, <2>2 DEF AnalysisEnds
  <1>10. ASSUME NEW f \in Files, SaveFails(f) PROVE TypeOK'
    BY <1>10 DEF SaveFails, Inc, Dec, Fault, TypeOK, rows
  <1>11. ASSUME NEW f \in Files, Discover(f) PROVE TypeOK'
    <2>1. "discovered" \in Flow!States
      BY DEF Flow!States
    <2>2. /\ state' \in [Files -> Flow!States \cup {"none"}]
          /\ mail' \in [Files -> Nat]
          /\ \A g \in Files \ {f} : state'[g] = state[g] /\ mail'[g] = mail[g]
          /\ forgotten' = forgotten \ {f} /\ state'[f] # "none"
          /\ listener = "down" => mail' = mail
      BY <1>11, <2>1, CommitType DEF Discover
    <2> QED
      BY <1>11, <2>2 DEF Discover, Elsewhere, TypeOK, tasks
  <1>12. ASSUME NEW f \in Files, Vanish(f) PROVE TypeOK'
    BY <1>12 DEF Vanish, Fault, TypeOK, tasks
  <1>13. ASSUME NEW f \in Files, Reappear(f) PROVE TypeOK'
    BY <1>13 DEF Reappear, TypeOK, tasks
  <1>14. ASSUME NEW f \in Files, Approval(f) PROVE TypeOK'
    <2>1. PICK from \in Flow!States, to \in Flow!States : Commit(f, from, to)
      BY <1>14 DEF Approval, Flow!States
    <2>2. state[f] # "none"
      BY <2>1 DEF Commit, Flow!States
    <2> QED
      BY <1>14, <2>1, <2>2, CommitType DEF Approval, Elsewhere, TypeOK, tasks
  <1>15. ASSUME NEW f \in Files, NEW to \in {"done", "failed", "skipped"},
                TranscodeEnds(f, to)
         PROVE TypeOK'
    <2>1. failure' \in [Files -> FailureClass \cup {None}]
      BY <1>15, ClassifyType DEF TranscodeEnds, TypeOK
    <2>2. CASE Stale(f, "transcoding")
      BY <1>15, <2>1, <2>2 DEF TranscodeEnds, Stale, Elsewhere, TypeOK, tasks
    <2>3. CASE Commit(f, "transcoding", to)
      BY <1>15, <2>1, <2>3, CommitType
         DEF TranscodeEnds, Elsewhere, TypeOK, tasks, Flow!States
    <2> QED
      BY <1>15, <2>2, <2>3 DEF TranscodeEnds
  <1>16. ASSUME NEW c \in FailureClass, RequeueFailed(c) PROVE TypeOK'
    BY <1>16 DEF RequeueFailed, TypeOK, rows, tasks
  <1>17. ASSUME NEW f \in Files, RequeueOne(f) PROVE TypeOK'
    <2>1. moves' \in [Files -> 0..MaxMoves]
      BY <1>17 DEF RequeueOne, Inc, TypeOK
    <2>2. CASE Stale(f, "failed")
      BY <1>17, <2>1, <2>2 DEF RequeueOne, Stale, TypeOK, tasks
    <2>3. CASE Commit(f, "failed", "discovered")
      BY <1>17, <2>1, <2>3, CommitType DEF RequeueOne, TypeOK, tasks, Flow!States
    <2> QED
      BY <1>17, <2>2, <2>3 DEF RequeueOne
  <1>18. CASE RequeueFails
    BY <1>18 DEF RequeueFails, Fault, TypeOK, rows, tasks
  <1>19. ASSUME NEW f \in Files, Recheck(f) PROVE TypeOK'
    BY <1>19 DEF Recheck, Inc, TypeOK, tasks, Flow!States
  <1>20. CASE StaleTick
    BY <1>20 DEF StaleTick, TypeOK, rows, tasks
  <1>21. CASE Crash
    BY <1>21 DEF Crash, Fault, NoneOf, TypeOK, rows
  <1>22. CASE UNCHANGED vars
    BY <1>22 DEF vars, rows, tasks, TypeOK
  <1> QED
    BY <1>1, <1>2, <1>3, <1>4, <1>5, <1>6, <1>7, <1>8, <1>9, <1>10, <1>11, <1>12,
       <1>13, <1>14, <1>15, <1>16, <1>17, <1>18, <1>19, <1>20, <1>21, <1>22
       DEF Next, Drive

\* Rows, counters and sets hold what they should, and nothing is under way for
\* a file that has no row yet.
THEOREM TypeCorrect == Spec => []TypeOK
  BY InitType, TypeStep, PTL DEF Spec
-----------------------------------------------------------------------------
(* Who drives a file.                                                      *)

\* What ActiveIsDriven says of one file.
Driver(f) ==
    /\ state[f] \in {"discovered", "probed"} => Driven(f)
    /\ state[f] = "transcoding" => Driven(f) \/ f \in sent

\* A committed move leaves the file with the notification of it.
LEMMA CommitDrives ==
    ASSUME TypeOK, ActiveIsDriven, listener = "receiving", UNCHANGED listener,
           NEW f \in Files, NEW from \in Flow!States \cup {"none"},
           NEW to \in Flow!States, Commit(f, from, to),
           queue'[f] = queue[f],
           UNCHANGED sent \/ sent' = sent \ {f},
           \A g \in Files \ {f} : /\ queue'[g] = queue[g]
                                  /\ probing'[g] = probing[g]
                                  /\ analyzing'[g] = analyzing[g]
    PROVE  ActiveIsDriven'
  <1> SUFFICES ASSUME NEW g \in Files \ forgotten' PROVE Driver(g)'
    BY DEF ActiveIsDriven, Driver
  <1>1. /\ state'[f] = to /\ mail'[f] = mail[f] + 1 /\ mail[f] \in Nat
        /\ queue[f] \in Nat
        /\ forgotten' = forgotten \ {f}
        /\ \A h \in Files \ {f} : state'[h] = state[h] /\ mail'[h] = mail[h]
    <2>1. mail[f] \in Nat /\ queue[f] \in Nat
      BY DEF TypeOK
    <2>2. /\ state' = [state EXCEPT ![f] = to] /\ mail' = Inc(mail, f)
          /\ forgotten' = forgotten \ {f}
      BY DEF Commit
    <2>3. state \in [Files -> Flow!States \cup {"none"}] /\ mail \in [Files -> Nat]
      BY DEF TypeOK
    <2> QED
      BY <2>1, <2>2, <2>3 DEF Inc
  <1>2. CASE g = f
    BY <1>1, <1>2 DEF Driver, Driven
  <1>3. CASE g # f
    BY <1>1, <1>3 DEF Driver, Driven, ActiveIsDriven
  <1> QED
    BY <1>2, <1>3

LEMMA DrivenStep == TypeOK /\ ActiveIsDriven /\ [Next]_vars => ActiveIsDriven'
  <1> SUFFICES ASSUME TypeOK, ActiveIsDriven, [Next]_vars, (listener = "receiving")'
               PROVE  ActiveIsDriven'
    BY DEF ActiveIsDriven
  <1>1. CASE Connect
    BY <1>1 DEF Connect
  <1>2. CASE CatchUp
    <2> SUFFICES ASSUME NEW g \in Files \ forgotten' PROVE Driver(g)'
      BY DEF ActiveIsDriven, Driver
    <2>1. state'[g] = state[g] /\ mail'[g] \in Nat /\ queue[g] \in Nat
      BY <1>2 DEF CatchUp, TypeOK, rows
    <2>2. CASE g \in Resumed
      BY <1>2, <2>1, <2>2 DEF CatchUp, Driver, Driven
    <2>3. CASE g \notin Resumed
      BY <1>2, <2>1, <2>3 DEF CatchUp, Driver, Flow!Active, Flow!States
    <2> QED
      BY <2>2, <2>3
  <1>3. CASE ListenerFails
    BY <1>3 DEF ListenerFails
  <1>4. CASE MailLost
    <2> SUFFICES ASSUME NEW g \in Files \ forgotten' PROVE Driver(g)'
      BY DEF ActiveIsDriven, Driver
    <2>1. g \notin forgotten /\ mail[g] = 0 /\ mail'[g] = 0
      BY <1>4 DEF MailLost, NoneOf, TypeOK
    <2>2. Driver(g) /\ UNCHANGED <<state, queue, probing, analyzing, sent>>
      BY <1>4, <2>1 DEF MailLost, ActiveIsDriven, Driver, rows, tasks
    <2> QED
      BY <2>1, <2>2 DEF Driver, Driven
  <1>5. ASSUME NEW f \in Files, Receive(f) PROVE ActiveIsDriven'
    BY <1>5 DEF Receive, Inc, Dec, Driven, ActiveIsDriven, TypeOK, rows
  <1>6. ASSUME NEW f \in Files, Take(f) PROVE ActiveIsDriven'
    BY <1>6 DEF Take, Inc, Dec, Driven, ActiveIsDriven, TypeOK, rows
  <1>7. ASSUME NEW f \in Files, TakeFails(f) PROVE ActiveIsDriven'
    BY <1>7 DEF TakeFails, Dec, Driven, ActiveIsDriven, TypeOK, rows
  <1>8. ASSUME NEW f \in Files, NEW to \in ProbeOutcomes, ProbeEnds(f, to)
        PROVE ActiveIsDriven'
    <2>1. CASE Stale(f, "discovered")
      BY <1>8, <2>1 DEF ProbeEnds, Dec, Stale, Driven, ActiveIsDriven, TypeOK
    <2>2. CASE Commit(f, "discovered", to)
      BY <1>8, <2>2, CommitDrives, OutcomeType
         DEF ProbeEnds, Dec, TypeOK, Flow!States
    <2> QED
      BY <1>8, <2>1, <2>2 DEF ProbeEnds
  <1>9. ASSUME NEW f \in Files, NEW to \in AnalysisLeadsTo, AnalysisEnds(f, to)
        PROVE ActiveIsDriven'
    <2>1. CASE Stale(f, "probed")
      BY <1>9, <2>1 DEF AnalysisEnds, Dec, Stale, Driven, ActiveIsDriven, TypeOK
    <2>2. CASE Commit(f, "probed", to)
      BY <1>9, <2>2, CommitDrives, OutcomeType
         DEF AnalysisEnds, Dec, TypeOK, Flow!States
    <2> QED
      BY <1>9, <2>1, <2>2 DEF AnalysisEnds
  <1>10. ASSUME NEW f \in Files, SaveFails(f) PROVE ActiveIsDriven'
    BY <1>10 DEF SaveFails, Dec, Driven, ActiveIsDriven, TypeOK, rows
  <1>11. ASSUME NEW f \in Files, Discover(f) PROVE ActiveIsDriven'
    BY <1>11, CommitDrives DEF Discover, Elsewhere, tasks, Flow!States
  <1>12. ASSUME NEW f \in Files, Vanish(f) PROVE ActiveIsDriven'
    BY <1>12 DEF Vanish, Driven, ActiveIsDriven, tasks
  <1>13. ASSUME NEW f \in Files, Reappear(f) PROVE ActiveIsDriven'
    BY <1>13 DEF Reappear, Driven, ActiveIsDriven, tasks
  <1>14. ASSUME NEW f \in Files, Approval(f) PROVE ActiveIsDriven'
    <2>1. PICK from \in Flow!States, to \in Flow!States : Commit(f, from, to)
      BY <1>14 DEF Approval, Flow!States
    <2> QED
      BY <1>14, <2>1, CommitDrives DEF Approval, Elsewhere, tasks
  <1>15. ASSUME NEW f \in Files, NEW to \in {"done", "failed", "skipped"},
                TranscodeEnds(f, to)
         PROVE ActiveIsDriven'
    <2>1. CASE Stale(f, "transcoding")
      BY <1>15, <2>1
         DEF TranscodeEnds, Stale, Elsewhere, Driven, ActiveIsDriven, tasks
    <2>2. CASE Commit(f, "transcoding", to)
      BY <1>15, <2>2, CommitDrives DEF TranscodeEnds, Elsewhere, tasks, Flow!States
    <2> QED
      BY <1>15, <2>1, <2>2 DEF TranscodeEnds
  <1>16. ASSUME NEW c \in FailureClass, RequeueFailed(c) PROVE ActiveIsDriven'
    BY <1>16 DEF RequeueFailed, Driven, ActiveIsDriven, rows, tasks
  <1>17. ASSUME NEW f \in Files, RequeueOne(f) PROVE ActiveIsDriven'
    <2>1. CASE Stale(f, "failed")
      BY <1>17, <2>1 DEF RequeueOne, Stale, Driven, ActiveIsDriven, tasks
    <2>2. CASE Commit(f, "failed", "discovered")
      BY <1>17, <2>2, CommitDrives DEF RequeueOne, tasks, Flow!States
    <2> QED
      BY <1>17, <2>1, <2>2 DEF RequeueOne
  <1>18. CASE RequeueFails
    BY <1>18 DEF RequeueFails, Driven, ActiveIsDriven, rows, tasks
  <1>19. ASSUME NEW f \in Files, Recheck(f) PROVE ActiveIsDriven'
    BY <1>19 DEF Recheck, Driven, ActiveIsDriven, TypeOK, tasks
  <1>20. CASE StaleTick
    BY <1>20 DEF StaleTick, Driven, ActiveIsDriven, rows, tasks
  <1>21. CASE Crash
    BY <1>21 DEF Crash
  <1>22. CASE UNCHANGED vars
    BY <1>22 DEF vars, rows, tasks, Driven, ActiveIsDriven
  <1> QED
    BY <1>1, <1>2, <1>3, <1>4, <1>5, <1>6, <1>7, <1>8, <1>9, <1>10, <1>11, <1>12,
       <1>13, <1>14, <1>15, <1>16, <1>17, <1>18, <1>19, <1>20, <1>21, <1>22
       DEF Next, Drive

\* No interleaving of tasks, notifications, requeues and faults leaves an
\* active file without a driver while the listener receives, other than the
\* ones whose driver was lost.
THEOREM NoFileLeftBehind == Spec => []ActiveIsDriven
  <1>1. Init => ActiveIsDriven
    BY DEF Init, ActiveIsDriven
  <1> QED
    BY <1>1, InitType, TypeStep, DrivenStep, PTL DEF Spec
-----------------------------------------------------------------------------
(* The abstract workflow.                                                  *)

LEMMA CommitIsMove ==
    ASSUME NEW f \in Files, NEW from, NEW to, Commit(f, from, to)
    PROVE  Flow!Move(f, from, to)
  BY DEF Commit, Flow!Move

LEMMA FlowStep == [Next]_vars => [Flow!Next]_state
  <1> SUFFICES ASSUME [Next]_vars, state' # state PROVE Flow!Next
    OBVIOUS
  <1>1. ASSUME NEW f \in Files, NEW e \in Flow!Events, Commit(f, e.from, e.to)
        PROVE  Flow!Next
    BY <1>1, CommitIsMove DEF Flow!Next, Flow!Apply
  <1>2. ASSUME NEW f \in Files, NEW to \in ProbeOutcomes, ProbeEnds(f, to)
        PROVE  Flow!Next
    <2>1. Commit(f, "discovered", to)
      BY <1>2 DEF ProbeEnds, Stale
    <2>2. \E e \in Flow!Events : e.from = "discovered" /\ e.to = to
      BY OutcomeType DEF Flow!Events
    <2> QED
      BY <1>1, <2>1, <2>2
  <1>3. ASSUME NEW f \in Files, NEW to \in AnalysisLeadsTo, AnalysisEnds(f, to)
        PROVE  Flow!Next
    <2>1. Commit(f, "probed", to)
      BY <1>3 DEF AnalysisEnds, Stale
    <2>2. \E e \in Flow!Events : e.from = "probed" /\ e.to = to
      BY OutcomeType DEF Flow!Events
    <2> QED
      BY <1>1, <2>1, <2>2
  <1>4. ASSUME NEW f \in Files, Discover(f) PROVE Flow!Next
    BY <1>4, CommitIsMove DEF Discover, Flow!Next, Flow!Discover
  <1>5. ASSUME NEW f \in Files, Approval(f) PROVE Flow!Next
    <2>1. \E e \in Flow!Events : Commit(f, e.from, e.to)
      <3>1. CASE Commit(f, "analyzed", "pending_approval")
        BY <3>1 DEF Flow!Events
      <3>2. CASE Commit(f, "pending_approval", "transcoding")
        BY <3>2 DEF Flow!Events
      <3>3. CASE Commit(f, "pending_approval", "skipped")
        BY <3>3 DEF Flow!Events
      <3> QED
        BY <1>5, <3>1, <3>2, <3>3 DEF Approval
    <2> QED
      BY <1>1, <2>1
  <1>6. ASSUME NEW f \in Files, NEW to \in {"done", "failed", "skipped"},
               TranscodeEnds(f, to)
        PROVE  Flow!Next
    <2>1. Commit(f, "transcoding", to)
      BY <1>6 DEF TranscodeEnds, Stale
    <2>2. \E e \in Flow!Events : e.from = "transcoding" /\ e.to = to
      BY DEF Flow!Events
    <2> QED
      BY <1>1, <2>1, <2>2
  <1>7. ASSUME NEW f \in Files, RequeueOne(f) PROVE Flow!Next
    <2>1. Commit(f, "failed", "discovered")
      BY <1>7 DEF RequeueOne, Stale
    <2> QED
      BY <2>1, CommitIsMove DEF Flow!Next, Flow!Requeue
  <1>8. ASSUME NEW f \in Files, Recheck(f) PROVE Flow!Next
    BY <1>8 DEF Recheck, Flow!Next, Flow!Recheck, Flow!Move
  <1>9. ASSUME NEW f \in Files, Receive(f) \/ Take(f) \/ TakeFails(f)
                                \/ SaveFails(f) \/ Vanish(f) \/ Reappear(f)
        PROVE  FALSE
    BY <1>9 DEF Receive, Take, TakeFails, SaveFails, Vanish, Reappear, rows
  <1>10. ASSUME Connect \/ CatchUp \/ ListenerFails \/ MailLost \/ RequeueFails
                \/ StaleTick \/ Crash \/ UNCHANGED vars
                \/ \E c \in FailureClass : RequeueFailed(c)
         PROVE  FALSE
    BY <1>10 DEF Connect, CatchUp, ListenerFails, MailLost, RequeueFails, StaleTick,
                 Crash, RequeueFailed, vars, rows
  <1> QED
    BY <1>2, <1>3, <1>4, <1>5, <1>6, <1>7, <1>8, <1>9, <1>10 DEF Next, Drive

\* The pipeline implements the workflow: however tasks, requeues and the other
\* components race each other, a row moves by one event of the state machine,
\* from the state that event is for, or by one of the requeues.
THEOREM ImplementsWorkflow == Spec => FollowsWorkflow
  <1>1. Init => Flow!Init
    BY DEF Init, Flow!Init
  <1> QED
    BY <1>1, FlowStep, PTL DEF Spec, FollowsWorkflow, Flow!Spec

-----------------------------------------------------------------------------
(* Probe failures.                                                         *)

\* requeue_failed holds only files with a transcode_failed event.
RequeueHasClass == \A f \in requeue : f \in Files /\ failure[f] # None

LEMMA RequeueStep == TypeOK /\ RequeueHasClass /\ [Next]_vars => RequeueHasClass'
  <1> SUFFICES ASSUME TypeOK, RequeueHasClass, [Next]_vars PROVE RequeueHasClass'
    OBVIOUS
  <1>1. ASSUME NEW c \in FailureClass, RequeueFailed(c) PROVE RequeueHasClass'
    BY <1>1, PipelineAssumption
       DEF RequeueFailed, RequeueHasClass, rows, PipelineAssumption
  <1>2. ASSUME NEW f \in Files, RequeueOne(f) PROVE RequeueHasClass'
    BY <1>2 DEF RequeueOne, RequeueHasClass
  <1>3. CASE RequeueFails \/ Crash
    BY <1>3 DEF RequeueFails, Crash, RequeueHasClass
  <1>4. ASSUME NEW f \in Files, NEW to \in {"done", "failed", "skipped"},
               TranscodeEnds(f, to)
        PROVE  RequeueHasClass'
    BY <1>4, ClassifyType, PipelineAssumption
       DEF TranscodeEnds, Elsewhere, RequeueHasClass, TypeOK, PipelineAssumption
  <1>5. ASSUME UNCHANGED <<failure, requeue>> PROVE RequeueHasClass'
    BY <1>5 DEF RequeueHasClass
  <1>6. ASSUME NEW f \in Files,
               \/ Receive(f) \/ Take(f) \/ TakeFails(f) \/ SaveFails(f)
               \/ Discover(f) \/ Vanish(f) \/ Reappear(f) \/ Approval(f) \/ Recheck(f)
               \/ \E to \in ProbeOutcomes : ProbeEnds(f, to)
               \/ \E to \in AnalysisLeadsTo : AnalysisEnds(f, to)
        PROVE  RequeueHasClass'
    BY <1>5, <1>6 DEF Receive, Take, TakeFails, SaveFails, Discover, Vanish, Reappear,
                      Approval, Recheck, ProbeEnds, AnalysisEnds, Elsewhere, rows
  <1>7. CASE \/ Connect \/ CatchUp \/ ListenerFails \/ MailLost \/ StaleTick
             \/ UNCHANGED vars
    BY <1>5, <1>7 DEF Connect, CatchUp, ListenerFails, MailLost, StaleTick, vars, rows
  <1> QED
    BY <1>1, <1>2, <1>3, <1>4, <1>6, <1>7 DEF Next, Drive

\* A row leaves 'failed' by the requeue only.
LEMMA FailedLeaves ==
    ASSUME TypeOK, [Next]_vars, NEW f \in Files, state[f] = "failed",
           state'[f] # "failed"
    PROVE  RequeueOne(f)
  <1>1. ASSUME NEW g \in Files, NEW from, NEW to, Commit(g, from, to), from # "failed"
        PROVE  FALSE
    <2>1. g # f
      BY <1>1 DEF Commit
    <2> QED
      BY <1>1, <2>1 DEF Commit, TypeOK
  <1>2. UNCHANGED state => FALSE
    OBVIOUS
  <1>3. ASSUME NEW g \in Files, RequeueOne(g) PROVE RequeueOne(f)
    <2>1. Commit(g, "failed", "discovered")
      BY <1>3, <1>2 DEF RequeueOne, Stale
    <2>2. g = f
      BY <2>1 DEF Commit, TypeOK
    <2> QED
      BY <1>3, <2>2
  <1>4. ASSUME NEW g \in Files, Recheck(g) PROVE FALSE
    BY <1>4 DEF Recheck, TypeOK
  <1>5. ASSUME NEW g \in Files, Discover(g) PROVE FALSE
    BY <1>1, <1>5 DEF Discover
  <1>6. ASSUME NEW g \in Files, Approval(g) PROVE FALSE
    BY <1>1, <1>6 DEF Approval
  <1>7. ASSUME NEW g \in Files, NEW to \in ProbeOutcomes, ProbeEnds(g, to) PROVE FALSE
    BY <1>1, <1>2, <1>7 DEF ProbeEnds, Stale
  <1>8. ASSUME NEW g \in Files, NEW to \in AnalysisLeadsTo, AnalysisEnds(g, to)
        PROVE FALSE
    BY <1>1, <1>2, <1>8 DEF AnalysisEnds, Stale
  <1>9. ASSUME NEW g \in Files, NEW to \in {"done", "failed", "skipped"},
               TranscodeEnds(g, to)
        PROVE FALSE
    BY <1>1, <1>2, <1>9 DEF TranscodeEnds, Stale
  <1>10. ASSUME NEW g \in Files, Receive(g) \/ Take(g) \/ TakeFails(g)
                                 \/ SaveFails(g) \/ Vanish(g) \/ Reappear(g)
         PROVE  FALSE
    BY <1>2, <1>10 DEF Receive, Take, TakeFails, SaveFails, Vanish, Reappear, rows
  <1>11. ASSUME Connect \/ CatchUp \/ ListenerFails \/ MailLost \/ RequeueFails
                \/ StaleTick \/ Crash \/ UNCHANGED vars
                \/ \E c \in FailureClass : RequeueFailed(c)
         PROVE  FALSE
    BY <1>2, <1>11 DEF Connect, CatchUp, ListenerFails, MailLost, RequeueFails,
                       StaleTick, Crash, RequeueFailed, vars, rows
  <1> QED
    BY <1>3, <1>4, <1>5, <1>6, <1>7, <1>8, <1>9, <1>10, <1>11 DEF Next, Drive

\* Whatever requeues race each other, none takes back a file whose probe
\* failed before any transcode of it did.
THEOREM ProbeFailuresStay == Spec => ProbeFailureIsFinal
  <1>1. Init => RequeueHasClass
    BY DEF Init, RequeueHasClass
  <1>2. TypeOK /\ RequeueHasClass /\ [Next]_vars =>
            [\A f \in Files : state[f] = "failed" /\ failure[f] = None
                                => state'[f] = "failed"]_vars
    BY FailedLeaves DEF RequeueOne, RequeueHasClass
  <1> QED
    BY <1>1, <1>2, InitType, TypeStep, RequeueStep, PTL DEF Spec, ProbeFailureIsFinal
=============================================================================
