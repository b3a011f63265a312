------------------------------ MODULE Workflow ------------------------------
(***************************************************************************)
(* What the workflow promises of each file: from the state it is stored in *)
(* it moves by one event of the state machine at a time, or is taken back  *)
(* by one of the two requeues the operator has.                            *)
(***************************************************************************)
CONSTANT Files

VARIABLE state \* workflow_state of each file, "none" before it has a row

States == {"discovered", "probed", "analyzed", "pending_approval",
           "transcoding", "done", "skipped", "failed"}

\* WorkflowStateTag::next_on: the event, the state it is for, the next state.
Events == {
    [event |-> "probed",            from |-> "discovered",       to |-> "probed"],
    [event |-> "probe_failed",      from |-> "discovered",       to |-> "failed"],
    [event |-> "analyzed",          from |-> "probed",           to |-> "analyzed"],
    [event |-> "skipped",           from |-> "probed",           to |-> "skipped"],
    [event |-> "pending_approval",  from |-> "analyzed",         to |-> "pending_approval"],
    [event |-> "approval_granted",  from |-> "pending_approval", to |-> "transcoding"],
    [event |-> "approval_rejected", from |-> "pending_approval", to |-> "skipped"],
    [event |-> "transcoded",        from |-> "transcoding",      to |-> "done"],
    [event |-> "transcode_failed",  from |-> "transcoding",      to |-> "failed"],
    [event |-> "skipped",           from |-> "transcoding",      to |-> "skipped"]}

\* States in which the pipeline still has something to do with the file.
Active == States \ {"done", "skipped", "failed"}

Move(f, from, to) == state[f] = from /\ state' = [state EXCEPT ![f] = to]

Discover(f) == Move(f, "none", "discovered")
Apply(f, e) == Move(f, e.from, e.to)
Requeue(f) == Move(f, "failed", "discovered")
Recheck(f) == Move(f, "skipped", "transcoding")

Init == state = [f \in Files |-> "none"]
Next == \E f \in Files : \/ Discover(f)
                         \/ \E e \in Events : Apply(f, e)
                         \/ Requeue(f)
                         \/ Recheck(f)
Spec == Init /\ [][Next]_state
=============================================================================
