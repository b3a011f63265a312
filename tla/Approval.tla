------------------------------ MODULE Approval ------------------------------
(***************************************************************************)
(* The approval of batches: the feeder that keeps a bounded number of them *)
(* before the operator, the requests, the answers that come back over MQTT *)
(* or from the operator page, late or twice, and the stale checker that    *)
(* asks again.  A batch is a season or a movie; its files are what the     *)
(* database says at the moment it is read.                                 *)
(***************************************************************************)
EXTENDS Integers, FiniteSets, FiniteSetsExt

CONSTANTS
    Files,       \* media files, present or yet to be discovered
    Seasons,     \* batches of episodes
    Movies,      \* batches of the files of one movie
    BatchOf,     \* the batch of each file
    MaxPending,  \* approval_max_pending
    MaxAnswers,  \* bound on the answers under way at once
    MaxFaults    \* bound on database, broker and listener failures

Batches == Seasons \union Movies

ASSUME ApprovalAssumption ==
    /\ IsFiniteSet(Files) /\ IsFiniteSet(Batches)
    /\ Seasons \intersect Movies = {}
    /\ Seasons \intersect Files = {}
    /\ BatchOf \in [Files -> Batches]
    /\ MaxPending \in Nat \ {0}
    /\ MaxAnswers \in Nat
    /\ MaxFaults \in Nat

VARIABLES
    row,      \* workflow state of each file
    feeder,   \* run_approval_feeder, inside top_up or asleep
    permit,   \* the one permit Notify stores
    owed,     \* files whose event is still on its way to wake the feeder
    request,  \* what the operator has before them for each batch
    answers,  \* submitted answers not handled yet
    swallowed, \* an event of this round found its file moved on
    faults

vars == <<row, feeder, permit, owed, swallowed, request, answers, faults>>

\* discovered stands for discovered and probed, closed for done, skipped and
\* failed.
States == {"absent", "discovered", "analyzed", "pending", "transcoding", "closed"}

\* A request is spent once an answer to it has decided the batch.
Answers == [batch : Batches, approved : BOOLEAN, spent : BOOLEAN]

\* A ready row is a season, or one file of a movie: the query does not group
\* the files of a movie.
ReadyKeys == Seasons \union Files

TypeOK ==
    /\ row \in [Files -> States]
    /\ feeder \in [pc : {"count", "fetch", "ask", "publish", "asleep"},
                   slots : 0..MaxPending, keys : SUBSET ReadyKeys, batch : SUBSET Batches]
    /\ permit \in BOOLEAN
    /\ owed \subseteq Files /\ swallowed \in BOOLEAN
    /\ request \in [Batches -> {"none", "open", "spent"}]
    /\ answers \subseteq Answers
    /\ faults \in 0..MaxFaults

Init ==
    /\ row \in [Files -> {"absent", "discovered"}]
    /\ feeder = [pc |-> "count", slots |-> 0, keys |-> {}, batch |-> {}]
    /\ permit = FALSE
    /\ owed = {} /\ swallowed = FALSE
    /\ request = [b \in Batches |-> "none"]
    /\ answers = {}
    /\ faults = 0

FilesOf(b) == {f \in Files : BatchOf[f] = b}
InState(b, states) == {f \in FilesOf(b) : row[f] \in states}
Pending(b) == InState(b, {"pending"})

Fault == faults < MaxFaults /\ faults' = faults + 1

-----------------------------------------------------------------------------
(* The rest of the pipeline *)

Become(f, state) == row' = [row EXCEPT ![f] = state]

\* sync finds a new file, or a failed one is requeued.
Discover(f) ==
    /\ row[f] \in {"absent", "closed"}
    /\ Become(f, "discovered")
    /\ UNCHANGED <<feeder, permit, owed, swallowed, request, answers, faults>>

\* Probe and analysis, then the encode: the events of these states wake the
\* feeder.
Analyze(f) ==
    /\ row[f] = "discovered"
    /\ \E state \in {"analyzed", "closed"} : Become(f, state)
    /\ owed' = owed \union {f}
    /\ UNCHANGED <<feeder, permit, swallowed, request, answers, faults>>

Transcode(f) ==
    /\ row[f] = "transcoding"
    /\ Become(f, "closed")
    /\ owed' = owed \union {f}
    /\ UNCHANGED <<feeder, permit, swallowed, request, answers, faults>>

\* recheck_quality_skips: no approval, no event.
Recheck(f) ==
    /\ row[f] = "closed"
    /\ Become(f, "transcoding")
    /\ UNCHANGED <<feeder, permit, owed, swallowed, request, answers, faults>>

\* Mutant: a file that is done, skipped or failed wakes nobody.
Wake_AnalyzedOnly(f) ==
    /\ f \in owed
    /\ owed' = owed \ {f}
    /\ permit' = (permit \/ row[f] = "analyzed")
    /\ UNCHANGED <<row, feeder, swallowed, request, answers, faults>>

\* wake_feeder, if the workflow task finds the file in such a state; if it has
\* moved on, nobody is woken.
Wake(f) ==
    /\ f \in owed
    /\ owed' = owed \ {f}
    /\ IF row[f] \in {"analyzed", "closed"}
       THEN permit' = TRUE /\ UNCHANGED swallowed
       ELSE swallowed' = TRUE /\ UNCHANGED permit
    /\ UNCHANGED <<row, feeder, request, answers, faults>>

LoseEvents ==
    /\ owed # {}
    /\ owed' = {}
    /\ Fault
    /\ UNCHANGED <<row, feeder, permit, swallowed, request, answers>>

-----------------------------------------------------------------------------
(* top_up *)

Goto(pc) == feeder' = [feeder EXCEPT !.pc = pc]

\* count_in_flight_batches: seasons, but files of movies.
InFlight ==
    Cardinality({b \in Seasons : InState(b, {"pending", "transcoding"}) # {}})
    + Cardinality(UNION {InState(b, {"pending", "transcoding"}) : b \in Movies})

\* Mutant: what is being encoded does not take a slot, what is asked does not either.
TopUpCounts_IgnoresInFlight ==
    /\ feeder.pc = "count"
    /\ feeder' = [feeder EXCEPT !.pc = "fetch", !.slots = MaxPending]
    /\ UNCHANGED <<row, permit, owed, swallowed, request, answers, faults>>

TopUpCounts ==
    /\ feeder.pc = "count"
    /\ IF InFlight < MaxPending
       THEN feeder' = [feeder EXCEPT !.pc = "fetch", !.slots = MaxPending - InFlight]
       ELSE Goto("asleep")
    /\ UNCHANGED <<row, permit, owed, swallowed, request, answers, faults>>

\* fetch_ready_batch_keys: a season waits for its undecided episodes, a movie
\* does not.
Ready ==
    {b \in Seasons : /\ InState(b, {"analyzed"}) # {}
                     /\ InState(b, {"discovered", "pending"}) = {}}
    \union UNION {InState(b, {"analyzed"}) : b \in Movies}

KeyOf(r) == IF r \in Seasons THEN r ELSE BatchOf[r]

\* The oldest rows up to the number of slots: which they are is left open.
TopUpFetches ==
    /\ feeder.pc = "fetch"
    /\ \E keys \in SUBSET Ready :
          /\ Cardinality(keys) = Min({feeder.slots, Cardinality(Ready)})
          /\ feeder' = [feeder EXCEPT !.pc = "ask", !.slots = 0, !.keys = keys]
    /\ UNCHANGED <<row, permit, owed, swallowed, request, answers, faults>>

\* Mutant: a request about one file of a movie instead of the movie.
TopUpAsks_OneFile(r) ==
    /\ feeder.pc = "ask"
    /\ r \in feeder.keys
    /\ LET ids == InState(KeyOf(r), {"analyzed"})
       IN  /\ row' = [f \in Files |-> IF f \in ids THEN "pending" ELSE row[f]]
           /\ feeder' = [feeder EXCEPT
                !.keys = @ \ {r},
                !.pc = IF ids = {} THEN "ask" ELSE "publish",
                !.batch = IF ids = {} THEN {} ELSE {r}]
    /\ UNCHANGED <<permit, owed, swallowed, request, answers, faults>>

\* transition_batch, analyzed to pending.  No file: the batch is passed over.
TopUpAsks(r) ==
    /\ feeder.pc = "ask"
    /\ r \in feeder.keys
    /\ LET ids == InState(KeyOf(r), {"analyzed"})
       IN  /\ row' = [f \in Files |-> IF f \in ids THEN "pending" ELSE row[f]]
           /\ feeder' = [feeder EXCEPT
                !.keys = @ \ {r},
                !.pc = IF ids = {} THEN "ask" ELSE "publish",
                !.batch = IF ids = {} THEN {} ELSE {KeyOf(r)}]
    /\ UNCHANGED <<permit, owed, swallowed, request, answers, faults>>

\* fetch_batch_request_info finds no row once the batch has been decided.  If it is
\* decided after that read, the request that goes out is as spent as the one before.
TopUpPublishes(b) ==
    /\ feeder.pc = "publish"
    /\ b \in feeder.batch
    /\ request' = IF Pending(b) # {} THEN [request EXCEPT ![b] = "open"] ELSE request
    /\ feeder' = [feeder EXCEPT !.pc = "ask", !.batch = {}]
    /\ UNCHANGED <<row, permit, owed, swallowed, answers, faults>>

TopUpEnds ==
    /\ feeder.pc = "ask"
    /\ feeder.keys = {}
    /\ Goto("asleep")
    /\ UNCHANGED <<row, permit, owed, swallowed, request, answers, faults>>

\* A database error ends the round, or one batch of it; a lost request leaves
\* the batch pending.
TopUpFails ==
    /\ feeder.pc \in {"count", "fetch"}
    /\ Fault
    /\ feeder' = [feeder EXCEPT !.pc = "asleep", !.slots = 0]
    /\ UNCHANGED <<row, permit, owed, swallowed, request, answers>>

TopUpBatchFails(r) ==
    /\ feeder.pc = "ask"
    /\ r \in feeder.keys
    /\ Fault
    /\ feeder' = [feeder EXCEPT !.keys = @ \ {r}]
    /\ UNCHANGED <<row, permit, owed, swallowed, request, answers>>

PublishFails ==
    /\ feeder.pc = "publish"
    /\ Fault
    /\ feeder' = [feeder EXCEPT !.pc = "ask", !.batch = {}]
    /\ UNCHANGED <<row, permit, owed, swallowed, request, answers>>

FeederWakes ==
    /\ feeder.pc = "asleep"
    /\ permit
    /\ permit' = FALSE
    /\ Goto("count")
    /\ swallowed' = FALSE
    /\ UNCHANGED <<row, owed, request, answers, faults>>

-----------------------------------------------------------------------------
(* Requests and answers *)

\* Mutant: the stale checker asks nothing again.
Republish_Never(b) ==
    /\ Pending(b) # {}
    /\ UNCHANGED vars

\* run_stale_checker, and the operator page, show the batch as it is now.
Republish(b) ==
    /\ Pending(b) # {}
    /\ request[b] # "open"
    /\ request' = [request EXCEPT ![b] = "open"]
    /\ UNCHANGED <<row, feeder, permit, owed, swallowed, answers, faults>>

\* The operator answers what they have before them, in either place, also when
\* they or somebody else have answered it already.
Submit(b, approved) ==
    /\ request[b] # "none"
    /\ Cardinality(answers) < MaxAnswers
    /\ answers' = answers \union
         {[batch |-> b, approved |-> approved, spent |-> request[b] = "spent"]}
    /\ UNCHANGED <<row, feeder, permit, owed, swallowed, request, faults>>

Spend(S, b) == {IF a.batch = b THEN [a EXCEPT !.spent = TRUE] ELSE a : a \in S}

\* handle_response: transition_batch from pending, whatever the files are now.
Handle(a) ==
    LET ids == Pending(a.batch)
        to == IF a.approved THEN "transcoding" ELSE "closed"
    IN  /\ a \in answers
        /\ row' = [f \in Files |-> IF f \in ids THEN to ELSE row[f]]
        /\ owed' = IF a.approved THEN owed ELSE owed \union ids
        /\ answers' = IF ids = {} THEN answers \ {a} ELSE Spend(answers \ {a}, a.batch)
        /\ request' = IF ids = {} THEN request ELSE [request EXCEPT ![a.batch] = "spent"]
        /\ permit' = TRUE
        /\ UNCHANGED <<feeder, swallowed, faults>>

\* The answer is lost by the broker, or the transition fails in the database.
LoseAnswer(a) ==
    /\ a \in answers
    /\ Fault
    /\ answers' = answers \ {a}
    /\ UNCHANGED <<row, feeder, permit, owed, swallowed, request>>

-----------------------------------------------------------------------------
Pipeline == \E f \in Files : Discover(f) \/ Analyze(f) \/ Transcode(f) \/ Recheck(f)
TopUp == \/ TopUpCounts \/ TopUpFetches \/ TopUpEnds \/ FeederWakes
         \/ TopUpFails \/ PublishFails
         \/ \E r \in ReadyKeys : TopUpAsks(r) \/ TopUpBatchFails(r)
         \/ \E b \in Batches : TopUpPublishes(b)

Next ==
    \/ Pipeline
    \/ \E f \in Files : Wake(f)
    \/ LoseEvents
    \/ TopUp
    \/ \E b \in Batches : Republish(b) \/ \E approved \in BOOLEAN : Submit(b, approved)
    \/ \E a \in answers : Handle(a) \/ LoseAnswer(a)

Spec == Init /\ [][Next]_vars

\* The timer of the stale checker fires; nobody has to answer, and even the feeder
\* may stop.
Fairness == \A b \in Batches : WF_vars(Republish(b))

FairSpec == Spec /\ Fairness

-----------------------------------------------------------------------------
(* Properties *)

Before == {b \in Batches : Pending(b) # {}}

\* The operator never has more batches to decide than the cap, those counted that
\* the feeder is still to put before them, though counting, choosing and asking
\* are separate queries, answers and encodes come in between and a re-verify
\* takes slots nobody granted.  (top_up.)
PendingWithinCap ==
    Cardinality(Before) + feeder.slots + Cardinality(feeder.keys) <= MaxPending

\* Unless something failed, the feeder sleeps with no permit stored only if there
\* is no slot, no ready batch, or an event still to come: of a file whose event
\* is under way, or that is in probe or analysis.  Two things leave it asleep
\* beside a free slot: a workflow task wakes it by the state it reads, which may
\* be later than the event's; and a season in flight may be asked again, which
\* takes a slot and counts once.  (Notify keeps one permit; top_up.)
NoLostWakeup ==
    feeder.pc = "asleep" /\ ~permit /\ faults = 0
        => \/ InFlight >= MaxPending
           \/ Ready = {}
           \/ owed # {} \/ \E f \in Files : row[f] = "discovered"
           \/ swallowed
           \/ \E s \in Seasons : Pending(s) # {} /\ InState(s, {"transcoding"}) # {}

\* A batch that is pending is before the operator sooner or later, even if its
\* request was lost.  (run_stale_checker.)
PendingIsAsked ==
    \A b \in Batches : Pending(b) # {} ~> Pending(b) = {} \/ request[b] = "open"

\* Answering a request that has been answered already changes nothing.
\* (apply_response's comment: never a double-apply.)
DoubleSubmitIsNoOp ==
    [][ \A a \in Answers : a.spent /\ Handle(a) => UNCHANGED row ]_vars
=============================================================================
