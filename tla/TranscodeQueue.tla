--------------------------- MODULE TranscodeQueue ---------------------------
(***************************************************************************)
(* How files reach the one transcode worker: the workflow tasks that send  *)
(* ids of transcoding files, the bounded channel, and the select loop of   *)
(* TranscodeOrchestrator::run with its pending queue, its set of files in  *)
(* flight, the one permit and the periodic stale re-queue; start-up,       *)
(* shutdown and crashes included.                                          *)
(*                                                                         *)
(* What a task does to a file is module Transcode; here it records an      *)
(* outcome for the row, or loses it.                                       *)
(***************************************************************************)
EXTENDS Naturals, FiniteSets, SequencesExt

CONSTANTS
    Files,      \* media_files rows
    Capacity,   \* of the channel to the orchestrator, 100 in main.rs
    Senders,    \* workflow tasks that may be preempted between read and send
    MaxFaults   \* bound on crashes, shutdowns, failed scans and lost outcomes

ASSUME QueueAssumption ==
    /\ IsFiniteSet(Files)
    /\ Capacity \in Nat \ {0}
    /\ MaxFaults \in Nat

VARIABLES
    row,       \* state of each file in the database
    events,    \* files with a notification on its way to a workflow task
    sender,    \* the id each preempted workflow task holds, if any
    rx,        \* the channel
    loop,      \* where the process, then the select loop, is
    pending,   \* ids waiting for the permit
    inflight,  \* ids handed to a task that is not joined yet
    task,      \* the task of each file
    permit,    \* Semaphore(1)
    due,       \* the interval has ticked
    scanned,   \* ids the loop, or start-up, read from the database
    faults

queue == <<pending, inflight, scanned>>
vars == <<row, events, sender, rx, loop, queue, task, permit, due, faults>>

TypeOK ==
    /\ row \in [Files -> {"waiting", "transcoding", "resolved"}]
    /\ events \subseteq Files
    /\ sender \in [Senders -> SUBSET Files]
    /\ rx \in Seq(Files) /\ Len(rx) <= Capacity
    /\ loop \in {"starting", "select", "requeue", "drain", "down"}
    /\ pending \in Seq(Files)
    /\ inflight \subseteq Files
    /\ task \in [Files -> {"none", "encoding", "recorded", "ended"}]
    /\ permit \in BOOLEAN /\ due \in BOOLEAN
    /\ scanned \subseteq Files
    /\ faults \in 0..MaxFaults

Transcoding == {f \in Files : row[f] = "transcoding"}
Running == {f \in Files : task[f] \in {"encoding", "recorded"}}
Ended == {f \in Files : task[f] = "ended"}

Fault == faults < MaxFaults /\ faults' = faults + 1

\* main: the stuck files are read before any task is spawned.
Init ==
    /\ row \in [Files -> {"waiting", "transcoding"}]
    /\ events = {}
    /\ sender = [w \in Senders |-> {}]
    /\ rx = <<>>
    /\ loop = "starting"
    /\ pending = <<>> /\ inflight = {} /\ scanned = Transcoding
    /\ task = [f \in Files |-> "none"]
    /\ permit = TRUE /\ due = TRUE
    /\ faults = 0

Up == loop \in {"select", "requeue", "drain"}
Room == Len(rx) < Capacity

-----------------------------------------------------------------------------
(* Start-up: the stuck files go into the channel nobody reads yet. *)

StartupSend(f) ==
    /\ loop = "starting"
    /\ f \in scanned
    /\ Room
    /\ rx' = Append(rx, f)
    /\ scanned' = scanned \ {f}
    /\ UNCHANGED <<row, events, sender, loop, pending, inflight, task, permit, due, faults>>

Spawn ==
    /\ loop = "starting"
    /\ scanned = {}
    /\ loop' = "select"
    /\ UNCHANGED <<row, events, sender, rx, queue, task, permit, due, faults>>

-----------------------------------------------------------------------------
(* The database and the workflow tasks *)

\* A batch is approved.
Approve(f) ==
    /\ Up
    /\ row[f] = "waiting"
    /\ row' = [row EXCEPT ![f] = "transcoding"]
    /\ events' = events \union {f}
    /\ UNCHANGED <<sender, rx, loop, queue, task, permit, due, faults>>

\* A failed or skipped file is sent back into the pipeline.
Requeue(f) ==
    /\ Up
    /\ row[f] = "resolved"
    /\ row' = [row EXCEPT ![f] = "waiting"]
    /\ UNCHANGED <<events, sender, rx, loop, queue, task, permit, due, faults>>

\* Skipped files are re-verified: nothing is notified, the stale re-queue is to
\* find them.
Recheck(f) ==
    /\ Up
    /\ row[f] = "resolved"
    /\ row' = [row EXCEPT ![f] = "transcoding"]
    /\ UNCHANGED <<events, sender, rx, loop, queue, task, permit, due, faults>>

\* PgListener reconnects by itself, and what was notified meanwhile is gone.
LoseEvents ==
    /\ Up
    /\ events # {}
    /\ events' = {}
    /\ UNCHANGED <<row, sender, rx, loop, queue, task, permit, due, faults>>

\* A listener that failed and starts again sends every active file once more.
CatchUp ==
    /\ Up
    /\ Fault
    /\ events' = Transcoding
    /\ UNCHANGED <<row, sender, rx, loop, queue, task, permit, due>>

\* Mutant: the channel is unbounded.
Deliver_Unbounded(f) ==
    /\ Up
    /\ f \in events
    /\ row[f] = "transcoding"
    /\ rx' = Append(rx, f)
    /\ events' = events \ {f}
    /\ UNCHANGED <<row, sender, loop, queue, task, permit, due, faults>>

\* A workflow task reads the row and sends the id at once.
Deliver(f) ==
    /\ Up
    /\ f \in events
    /\ row[f] = "transcoding"
    /\ Room
    /\ rx' = Append(rx, f)
    /\ events' = events \ {f}
    /\ UNCHANGED <<row, sender, loop, queue, task, permit, due, faults>>

\* Or it is preempted, or finds the channel full, after the read.
Read(w, f) ==
    /\ Up
    /\ sender[w] = {}
    /\ f \in events
    /\ row[f] = "transcoding"
    /\ sender' = [sender EXCEPT ![w] = {f}]
    /\ events' = events \ {f}
    /\ UNCHANGED <<row, rx, loop, queue, task, permit, due, faults>>

Send(w, f) ==
    /\ Up
    /\ f \in sender[w]
    /\ Room
    /\ rx' = Append(rx, f)
    /\ sender' = [sender EXCEPT ![w] = {}]
    /\ UNCHANGED <<row, events, loop, queue, task, permit, due, faults>>

-----------------------------------------------------------------------------
(* The select loop.  It is biased: an arm is taken only when no arm before  *)
(* it is ready.                                                             *)

\* Mutant: files already being transcoded are not looked for.
enqueue_unique_Pending(f) == ~Contains(pending, f)

\* The gate of enqueue_unique: what it does not let through is dropped.
enqueue_unique(f) == f \notin inflight /\ ~Contains(pending, f)

Recv ==
    /\ loop = "select"
    /\ rx # <<>>
    /\ pending' = IF enqueue_unique(Head(rx)) THEN Append(pending, Head(rx)) ELSE pending
    /\ rx' = Tail(rx)
    /\ UNCHANGED <<row, events, sender, loop, inflight, scanned, task, permit, due, faults>>

\* The next of the ticks, 300 s apart: a scan is over by then.
TimerFires ==
    /\ loop = "select"
    /\ ~due
    /\ due' = TRUE
    /\ UNCHANGED <<row, events, sender, rx, loop, queue, task, permit, faults>>

\* The tick arm awaits the scan: the worker and the senders go on meanwhile.
TickScans ==
    /\ loop = "select"
    /\ rx = <<>> /\ due
    /\ due' = FALSE
    /\ scanned' = Transcoding
    /\ loop' = "requeue"
    /\ UNCHANGED <<row, events, sender, rx, pending, inflight, task, permit, faults>>

TickScanFails ==
    /\ loop = "select"
    /\ rx = <<>> /\ due
    /\ due' = FALSE
    /\ Fault
    /\ UNCHANGED <<row, events, sender, rx, loop, queue, task, permit>>

\* Mutant: the scan's result is thrown away.
TickEnqueues_Nothing ==
    /\ loop = "requeue"
    /\ scanned' = {}
    /\ loop' = "select"
    /\ UNCHANGED <<row, events, sender, rx, pending, inflight, task, permit, due, faults>>

TickEnqueues ==
    /\ loop = "requeue"
    /\ \E ids \in SetToSeqs({f \in scanned : enqueue_unique(f)}) : pending' = pending \o ids
    /\ scanned' = {}
    /\ loop' = "select"
    /\ UNCHANGED <<row, events, sender, rx, inflight, task, permit, due, faults>>

CanDispatch == pending # <<>> /\ permit

\* Mutant: the permit is dropped when the arm returns, as workflow.rs does.
Dispatch_PermitDropped ==
    /\ loop = "select"
    /\ rx = <<>> /\ ~due /\ CanDispatch
    /\ inflight' = inflight \union {Head(pending)}
    /\ task' = [task EXCEPT ![Head(pending)] = "encoding"]
    /\ pending' = Tail(pending)
    /\ UNCHANGED <<row, events, sender, rx, loop, scanned, permit, due, faults>>

Dispatch ==
    /\ loop = "select"
    /\ rx = <<>> /\ ~due /\ CanDispatch
    /\ inflight' = inflight \union {Head(pending)}
    /\ task' = [task EXCEPT ![Head(pending)] = "encoding"]
    /\ pending' = Tail(pending)
    /\ permit' = FALSE
    /\ UNCHANGED <<row, events, sender, rx, loop, scanned, due, faults>>

\* Mutant: a finished task is joined before the channel is looked at.
Join_First(f) ==
    /\ \/ loop = "select"
       \/ loop = "drain"
    /\ f \in Ended
    /\ task' = [task EXCEPT ![f] = "none"]
    /\ inflight' = inflight \ {f}
    /\ UNCHANGED <<row, events, sender, rx, loop, pending, scanned, permit, due, faults>>

\* Mutant: the joined file stays in flight.
Join_Leaks(f) ==
    /\ \/ loop = "select" /\ rx = <<>> /\ ~due /\ ~CanDispatch
       \/ loop = "drain"
    /\ f \in Ended
    /\ task' = [task EXCEPT ![f] = "none"]
    /\ UNCHANGED <<row, events, sender, rx, loop, queue, permit, due, faults>>

Join(f) ==
    /\ \/ loop = "select" /\ rx = <<>> /\ ~due /\ ~CanDispatch
       \/ loop = "drain"
    /\ f \in Ended
    /\ task' = [task EXCEPT ![f] = "none"]
    /\ inflight' = inflight \ {f}
    /\ UNCHANGED <<row, events, sender, rx, loop, pending, scanned, permit, due, faults>>

-----------------------------------------------------------------------------
(* The task: process_file, then the permit is dropped and the task ends. *)

\* A compare-and-swap on transcoding; a stale row is left alone.
Commit(f) ==
    /\ task[f] = "encoding"
    /\ row' = IF row[f] = "transcoding" THEN [row EXCEPT ![f] = "resolved"] ELSE row
    /\ task' = [task EXCEPT ![f] = "recorded"]
    /\ UNCHANGED <<events, sender, rx, loop, queue, permit, due, faults>>

\* The outcome could not be written, or the row could not be read.
LoseOutcome(f) ==
    /\ task[f] = "encoding"
    /\ Fault
    /\ task' = [task EXCEPT ![f] = "recorded"]
    /\ UNCHANGED <<row, events, sender, rx, loop, queue, permit, due>>

\* The media manager has been notified.
End(f) ==
    /\ task[f] = "recorded"
    /\ task' = [task EXCEPT ![f] = "ended"]
    /\ permit' = TRUE
    /\ UNCHANGED <<row, events, sender, rx, loop, queue, due, faults>>

-----------------------------------------------------------------------------
(* Shutdown and crash *)

Cancel ==
    /\ loop = "select"
    /\ Fault
    /\ loop' = "drain"
    /\ UNCHANGED <<row, events, sender, rx, queue, task, permit, due>>

\* Everything but the rows is volatile.
Die ==
    /\ loop' = "down"
    /\ events' = {}
    /\ sender' = [w \in Senders |-> {}]
    /\ rx' = <<>>
    /\ pending' = <<>> /\ inflight' = {} /\ scanned' = {}
    /\ task' = [f \in Files |-> "none"]
    /\ permit' = TRUE /\ due' = TRUE
    /\ UNCHANGED row

Drained ==
    /\ loop = "drain"
    /\ Running \union Ended = {}
    /\ Die
    /\ UNCHANGED faults

Crash ==
    /\ loop # "down"
    /\ Die
    /\ Fault

Restart ==
    /\ loop = "down"
    /\ loop' = "starting"
    /\ scanned' = Transcoding
    /\ UNCHANGED <<row, events, sender, rx, pending, inflight, task, permit, due, faults>>

Startup == Spawn \/ \E f \in Files : StartupSend(f)
Loop == \/ Recv \/ TickScans \/ TickScanFails \/ TickEnqueues \/ Dispatch
        \/ \E f \in Files : Join(f)
Task == \E f \in Files : Commit(f) \/ LoseOutcome(f) \/ End(f)
Feed == \/ \E f \in Files : Approve(f) \/ Requeue(f) \/ Recheck(f) \/ Deliver(f)
        \/ LoseEvents \/ CatchUp
        \/ \E w \in Senders, f \in Files : Read(w, f) \/ Send(w, f)

Next ==
    \/ Startup \/ Feed \/ Loop \/ Task
    \/ TimerFires \/ Cancel \/ Drained \/ Crash \/ Restart

Spec == Init /\ [][Next]_vars

\* The runtime polls what can run, the timer ticks, the service is restarted.
\* Ticks, 300 s apart, leave the later arms their turn.  Nothing makes a
\* notification arrive.
Fairness ==
    /\ WF_vars(Startup) /\ WF_vars(Loop) /\ WF_vars(Task)
    /\ SF_vars(Dispatch) /\ \A f \in Files : SF_vars(Join(f))
    /\ WF_vars(TimerFires) /\ WF_vars(Drained) /\ WF_vars(Restart)

FairSpec == Spec /\ Fairness

-----------------------------------------------------------------------------
(* Properties *)

\* A file is queued at most once, and never while it is being transcoded,
\* however many events, catch-ups and scans name it.  (enqueue_unique.)
QueuedOnce ==
    /\ IsInjective(pending)
    /\ ToSet(pending) \intersect inflight = {}

\* The set that guards against a second encode is the set of tasks not joined
\* yet: a file missing from it could be encoded twice at once, a file left in
\* it would never be queued again.  (run: dispatch and join arms.)
InflightIsExact == inflight = {f \in Files : task[f] # "none"}

\* At most one file is being encoded, even through a drain.  (Semaphore(1); its
\* permit lives as long as the task.)
OneEncodeAtATime == Cardinality(Running) <= 1

\* The stale re-queue acts on a scan that was awaited while the worker went on,
\* yet what it queues is still transcoding and in nobody's hands.  (run: the
\* tick arm, and joins taken only by the same loop.)
StaleRequeueIsFresh ==
    [][ \A f \in Files :
          loop = "requeue" /\ f \in ToSet(pending') \ ToSet(pending)
            => row[f] = "transcoding" /\ task[f] = "none" ]_vars

\* What is handed to the worker is still transcoding, as long as every workflow
\* task sends its id right after it has read the row: channel, pending queue and
\* scan never keep an id past the outcome of an earlier encode.  process_file
\* relies on it, as it does not look at the row's state.  (run: the bias of the
\* select, enqueue_unique.)
DispatchedWhileTranscoding ==
    [][ \A f \in Files : task[f] = "none" /\ task'[f] = "encoding"
          => row[f] = "transcoding" ]_vars

\* The safety net: a file in transcoding is resolved, though notifications get
\* lost, outcomes fail to be written and the process crashes or is stopped.
\* (run: the interval; main: the recovery of stuck files.)
StalledIsRetried ==
    \A f \in Files : row[f] = "transcoding" ~> row[f] # "transcoding"

\* The service comes up: start-up ends in the select loop with its immediate
\* first tick, whatever was left in transcoding.  (main.rs.)
StartupCompletes == loop = "starting" ~> loop = "select"
=============================================================================
