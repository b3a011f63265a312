------------------------------ MODULE Pipeline ------------------------------
(***************************************************************************)
(* How a file is driven through the workflow: every committed move sends a *)
(* notification, the Postgres listener passes its file id to the workflow  *)
(* orchestrator, and a task of the file's own reads the row and probes the *)
(* file, analyses it, wakes the feeder or hands it to the transcoder.      *)
(* Notifications get lost, statements fail, the process crashes, several   *)
(* tasks work on one file, files vanish and come back.                     *)
(*                                                                         *)
(* The sync is two steps here (LibrarySync has all of them), approval and  *)
(* transcoding are steps of the state machine (Approval, TranscodeQueue,   *)
(* Transcode); what a probe and an analysis find is MediaAnalysis.         *)
(***************************************************************************)
EXTENDS Integers, FiniteSets, MediaAnalysis

CONSTANTS
    Files,
    Errors,     \* errors a transcode may fail with: the texts classify knows
                \* that occur in one, ffmpeg's own output included
    MaxMoves,   \* bound on the requeues and rechecks of a file
    MaxFaults   \* bound on failures, losses, crashes and vanishing files

FailureClass == {"missing_video_properties", "swap_permission", "swap_read_only",
                 "swap_cross_device", "ffmpeg", "other"}

ASSUME PipelineAssumption ==
    /\ IsFiniteSet(Files) /\ None \notin FailureClass
    /\ MaxMoves \in Nat /\ MaxFaults \in Nat

VARIABLES
    state,     \* workflow_state of each file, "none" before it has a row
    missing,   \* files with file_status 'missing'
    failure,   \* class of the file's most recent transcode_failed event
    listener,  \* where run_listener is
    mail,      \* notifications the connection holds, by file
    queue,     \* ids in the channel and in pending, by file
    probing,   \* tasks that probe the file
    analyzing, \* tasks that analyse it
    sent,      \* files handed to the transcode queue, or worked on there
    requeue,   \* files requeue_failed has read and not handled
    forgotten, \* active files whose driver was lost
    moves,
    faults

Flow == INSTANCE Workflow

rows == <<state, missing, failure>>
tasks == <<queue, probing, analyzing>>
vars == <<rows, listener, mail, tasks, sent, requeue, forgotten, moves, faults>>

TypeOK ==
    /\ state \in [Files -> Flow!States \cup {"none"}]
    /\ missing \subseteq Files
    /\ failure \in [Files -> FailureClass \cup {None}]
    /\ listener \in {"down", "listening", "receiving"}
    /\ mail \in [Files -> Nat] /\ queue \in [Files -> Nat]
    /\ probing \in [Files -> Nat] /\ analyzing \in [Files -> Nat]
    /\ \A f \in Files : state[f] = "none" =>
           /\ f \notin missing \cup sent \cup requeue \cup forgotten
           /\ mail[f] = 0 /\ queue[f] = 0 /\ probing[f] = 0 /\ analyzing[f] = 0
    /\ listener = "down" => \A f \in Files : mail[f] = 0
    /\ moves \in [Files -> 0..MaxMoves] /\ faults \in 0..MaxFaults

NoneOf == [f \in Files |-> 0]
Inc(count, f) == [count EXCEPT ![f] = @ + 1]
Dec(count, f) == [count EXCEPT ![f] = @ - 1]

Init ==
    /\ state = [f \in Files |-> "none"]
    /\ missing = {} /\ failure = [f \in Files |-> None]
    /\ listener = "down"
    /\ mail = NoneOf /\ queue = NoneOf /\ probing = NoneOf /\ analyzing = NoneOf
    /\ sent = {} /\ requeue = {} /\ forgotten = {}
    /\ moves = [f \in Files |-> 0] /\ faults = 0

Fault == faults < MaxFaults /\ faults' = faults + 1

-----------------------------------------------------------------------------
(* Moves of a row.                                                         *)

\* Mutant: the row is moved whatever state it is in.
Commit_Unguarded(f, from, to) ==
    /\ from # "none" \/ state[f] = "none"
    /\ state' = [state EXCEPT ![f] = to]
    /\ mail' = IF listener = "down" THEN mail ELSE Inc(mail, f)
    /\ forgotten' = forgotten \ {f}

\* Mutant: the trigger's notifications wait for the next connection.
Commit_Queues(f, from, to) ==
    /\ state[f] = from
    /\ state' = [state EXCEPT ![f] = to]
    /\ mail' = Inc(mail, f)
    /\ forgotten' = forgotten \ {f}

\* transition and its like: UPDATE ... WHERE workflow_state = from, and the
\* event in the same transaction, whose trigger notifies who listens.
Commit(f, from, to) ==
    /\ state[f] = from
    /\ state' = [state EXCEPT ![f] = to]
    /\ mail' = IF listener = "down" THEN mail ELSE Inc(mail, f)
    /\ forgotten' = forgotten \ {f}

\* StoreError::StaleState: another task was first.
Stale(f, from) == state[f] # from /\ UNCHANGED <<state, mail, forgotten>>

-----------------------------------------------------------------------------
(* The listener.                                                           *)

\* Mutant: an error of the listener ends it.
Connect_NoRetry ==
    /\ listener = "down" /\ faults = 0
    /\ listener' = "listening"
    /\ UNCHANGED <<rows, mail, tasks, sent, requeue, forgotten, moves, faults>>

Connect ==
    /\ listener = "down"
    /\ listener' = "listening"
    /\ UNCHANGED <<rows, mail, tasks, sent, requeue, forgotten, moves, faults>>

Resumed == {f \in Files : state[f] \in Flow!Active /\ f \notin missing}

\* Mutant: only files the probe has not seen are resumed.
CatchUp_OnlyDiscovered ==
    /\ listener = "listening"
    /\ listener' = "receiving"
    /\ queue' = [f \in Files |-> IF f \in Resumed /\ state[f] = "discovered"
                                THEN queue[f] + 1 ELSE queue[f]]
    /\ forgotten' = {f \in Files : state[f] \in Flow!Active} \ Resumed
    /\ UNCHANGED <<rows, mail, probing, analyzing, sent, requeue, moves, faults>>

\* catch_up, once LISTEN is in force: the id of every active file present.
CatchUp ==
    /\ listener = "listening"
    /\ listener' = "receiving"
    /\ queue' = [f \in Files |-> IF f \in Resumed THEN queue[f] + 1 ELSE queue[f]]
    /\ forgotten' = {f \in Files : state[f] \in Flow!Active} \ Resumed
    /\ UNCHANGED <<rows, mail, probing, analyzing, sent, requeue, moves, faults>>

Receive(f) ==
    /\ listener = "receiving" /\ mail[f] > 0
    /\ mail' = Dec(mail, f)
    /\ queue' = Inc(queue, f)
    /\ UNCHANGED <<rows, listener, probing, analyzing, sent, requeue, forgotten,
                   moves, faults>>

\* LISTEN, the catch-up's query or recv fails: a new connection in a second.
ListenerFails ==
    /\ Fault
    /\ listener # "down"
    /\ listener' = "down"
    /\ mail' = NoneOf
    /\ UNCHANGED <<rows, tasks, sent, requeue, forgotten, moves>>

\* The connection drops inside recv, which reconnects and says nothing.
MailLost ==
    /\ Fault
    /\ listener = "receiving"
    /\ mail # NoneOf
    /\ forgotten' = forgotten \cup {f \in Files : mail[f] > 0}
    /\ mail' = NoneOf
    /\ UNCHANGED <<rows, listener, tasks, sent, requeue, moves>>

-----------------------------------------------------------------------------
(* The workflow orchestrator.                                              *)

\* A task starts and dispatches on the state it reads; only a probe and an
\* analysis outlive the read.
Take(f) ==
    /\ queue[f] > 0
    /\ queue' = Dec(queue, f)
    /\ probing' = IF state[f] = "discovered" THEN Inc(probing, f) ELSE probing
    /\ analyzing' = IF state[f] = "probed" THEN Inc(analyzing, f) ELSE analyzing
    /\ sent' = IF state[f] = "transcoding" THEN sent \cup {f} ELSE sent
    /\ UNCHANGED <<rows, listener, mail, requeue, forgotten, moves, faults>>

\* ffprobe itself may fail, too.
ProbeOutcomes == ProbeLeadsTo \cup {"failed"}

\* The row cannot be read: the id is dropped.
TakeFails(f) ==
    /\ Fault
    /\ queue[f] > 0
    /\ queue' = Dec(queue, f)
    /\ forgotten' = forgotten \cup {f}
    /\ UNCHANGED <<rows, listener, mail, probing, analyzing, sent, requeue, moves>>

ProbeEnds(f, to) ==
    /\ probing[f] > 0
    /\ probing' = Dec(probing, f)
    /\ Commit(f, "discovered", to) \/ Stale(f, "discovered")
    /\ UNCHANGED <<missing, failure, listener, queue, analyzing, sent, requeue,
                   moves, faults>>

AnalysisEnds(f, to) ==
    /\ analyzing[f] > 0
    /\ analyzing' = Dec(analyzing, f)
    /\ Commit(f, "probed", to) \/ Stale(f, "probed")
    /\ UNCHANGED <<missing, failure, listener, queue, probing, sent, requeue,
                   moves, faults>>

\* The result of a probe or an analysis cannot be saved; the error is logged.
SaveFails(f) ==
    /\ Fault
    /\ \/ probing[f] > 0 /\ probing' = Dec(probing, f) /\ UNCHANGED analyzing
       \/ analyzing[f] > 0 /\ analyzing' = Dec(analyzing, f) /\ UNCHANGED probing
    /\ forgotten' = forgotten \cup {f}
    /\ UNCHANGED <<rows, listener, mail, queue, sent, requeue, moves>>

-----------------------------------------------------------------------------
(* The other components.                                                   *)

Elsewhere == <<missing, listener, tasks, requeue, moves, faults>>

\* The sync inserts a row, with its event.
Discover(f) ==
    /\ Commit(f, "none", "discovered")
    /\ UNCHANGED <<Elsewhere, failure, sent>>

\* The sync flags a file the provider lists no more...
Vanish(f) ==
    /\ Fault
    /\ state[f] # "none" /\ f \notin missing
    /\ missing' = missing \cup {f}
    /\ UNCHANGED <<state, failure, listener, mail, tasks, sent, requeue,
                   forgotten, moves>>

\* ... and takes the flag back, without an event, when it lists it again.
Reappear(f) ==
    /\ f \in missing
    /\ missing' = missing \ {f}
    /\ UNCHANGED <<state, failure, listener, mail, tasks, sent, requeue,
                   forgotten, moves, faults>>

Approval(f) ==
    /\ \/ Commit(f, "analyzed", "pending_approval")
       \/ Commit(f, "pending_approval", "transcoding")
       \/ Commit(f, "pending_approval", "skipped")
    /\ UNCHANGED <<Elsewhere, failure, sent>>

\* The first text found decides, wherever in the message it comes from.
Classify(error) ==
    IF "video properties missing" \in error THEN "missing_video_properties"
    ELSE IF "Permission denied" \in error THEN "swap_permission"
    ELSE IF "Read-only file system" \in error THEN "swap_read_only"
    ELSE IF "cross-device" \in error THEN "swap_cross_device"
    ELSE IF "ffmpeg failed" \in error THEN "ffmpeg"
    ELSE "other"

TranscodeEnds(f, to) ==
    /\ f \in sent
    /\ sent' = sent \ {f}
    /\ Commit(f, "transcoding", to) \/ Stale(f, "transcoding")
    /\ IF to = "failed" /\ state[f] = "transcoding"
       THEN \E e \in Errors : failure' = [failure EXCEPT ![f] = Classify(e)]
       ELSE UNCHANGED failure
    /\ UNCHANGED Elsewhere

\* Mutant: probe failures are of every class.
RequeueFailed_ProbesToo(c) ==
    /\ requeue = {}
    /\ requeue' = {f \in Files : state[f] = "failed" /\ failure[f] \in {c, None}}
    /\ requeue' # {}
    /\ UNCHANGED <<rows, listener, mail, tasks, sent, forgotten, moves, faults>>

\* requeue_failed reads the failed files of a class...
RequeueFailed(c) ==
    /\ requeue = {}
    /\ requeue' = {f \in Files : state[f] = "failed" /\ failure[f] = c}
    /\ requeue' # {}
    /\ UNCHANGED <<rows, listener, mail, tasks, sent, forgotten, moves, faults>>

\* ... and moves them one by one, skipping the ones that failed no more.
RequeueOne(f) ==
    /\ f \in requeue /\ moves[f] < MaxMoves
    /\ requeue' = requeue \ {f}
    /\ Commit(f, "failed", "discovered") \/ Stale(f, "failed")
    /\ moves' = Inc(moves, f)
    /\ UNCHANGED <<missing, failure, listener, tasks, sent, faults>>

RequeueFails ==
    /\ Fault
    /\ requeue # {}
    /\ requeue' = {}
    /\ UNCHANGED <<rows, listener, mail, tasks, sent, forgotten, moves>>

\* recheck_quality_skips and requeue_quality_skips move the row and emit no
\* event: the transcode queue's re-queue finds it.
Recheck(f) ==
    /\ state[f] = "skipped" /\ moves[f] < MaxMoves
    /\ state' = [state EXCEPT ![f] = "transcoding"]
    /\ forgotten' = forgotten \cup {f}
    /\ moves' = Inc(moves, f)
    /\ UNCHANGED <<missing, failure, listener, mail, tasks, sent, requeue, faults>>

\* requeue_stale: the transcode queue sends itself every transcoding file.
StaleTick ==
    /\ LET stuck == {f \in Files : state[f] = "transcoding"}
       IN /\ ~(stuck \subseteq sent)
          /\ sent' = sent \cup stuck
          /\ forgotten' = forgotten \ stuck
    /\ UNCHANGED <<rows, listener, mail, tasks, requeue, moves, faults>>

Crash ==
    /\ Fault
    /\ listener' = "down"
    /\ mail' = NoneOf
    /\ queue' = NoneOf /\ probing' = NoneOf /\ analyzing' = NoneOf
    /\ sent' = {} /\ requeue' = {}
    /\ UNCHANGED <<rows, forgotten, moves>>

-----------------------------------------------------------------------------
Drive(f) ==
    \/ Receive(f)
    \/ Take(f)
    \/ \E to \in ProbeOutcomes : ProbeEnds(f, to)
    \/ \E to \in AnalysisLeadsTo : AnalysisEnds(f, to)

Next ==
    \/ Connect
    \/ CatchUp
    \/ ListenerFails
    \/ MailLost
    \/ \E f \in Files :
         \/ Drive(f)
         \/ TakeFails(f)
         \/ SaveFails(f)
         \/ Discover(f)
         \/ Vanish(f)
         \/ Reappear(f)
         \/ Approval(f)
         \/ \E to \in {"done", "failed", "skipped"} : TranscodeEnds(f, to)
         \/ RequeueOne(f)
         \/ Recheck(f)
    \/ \E c \in FailureClass : RequeueFailed(c)
    \/ RequeueFails
    \/ StaleTick
    \/ Crash

\* The listener reconnects, ids are taken, probes and analyses end.
Fairness ==
    /\ WF_vars(Connect) /\ WF_vars(CatchUp)
    /\ \A f \in Files :
         /\ WF_vars(Receive(f)) /\ WF_vars(Take(f))
         /\ WF_vars(\E to \in ProbeOutcomes : ProbeEnds(f, to))
         /\ WF_vars(\E to \in AnalysisLeadsTo : AnalysisEnds(f, to))

Spec == Init /\ [][Next]_vars /\ Fairness

-----------------------------------------------------------------------------
(* Properties.                                                             *)

Driven(f) == \/ mail[f] + queue[f] > 0
             \/ state[f] = "discovered" /\ probing[f] > 0
             \/ state[f] = "probed" /\ analyzing[f] > 0

\* While the listener receives, a file the orchestrator has work on is on its
\* way to it, or is known to be lost: the reason the catch-up comes after
\* LISTEN (run_listener, listener.rs:65).
ActiveIsDriven ==
    listener = "receiving" =>
        \A f \in Files \ forgotten :
            /\ state[f] \in {"discovered", "probed"} => Driven(f)
            /\ state[f] = "transcoding" => Driven(f) \/ f \in sent

\* Tasks that raced each other and requeues that raced them move a file only
\* as the state machine has it (WorkflowStateTag::next_on).
FollowsWorkflow == Flow!Spec

\* A discovered or probed file moves on, unless its driver is lost: a second
\* task, a reconnection or a restart never leaves it where it is.
MovesOn ==
    \A f \in Files : \A s \in {"discovered", "probed"} :
        state[f] = s ~> state[f] # s \/ f \in forgotten

\* A file whose probe failed, and that no transcode ever failed on, stays
\* failed: the requeue only finds transcode_failed events (requeue_failed,
\* store/mod.rs:1082).
ProbeFailureIsFinal ==
    [][\A f \in Files : state[f] = "failed" /\ failure[f] = None
                          => state'[f] = "failed"]_vars
=============================================================================
