------------------------ MODULE TranscodeQueueProofs ------------------------
(***************************************************************************)
(* Theorems about the transcode queue, for every finite set of files,      *)
(* every channel capacity, every set of preempted senders and every bound  *)
(* on the faults.                                                          *)
(***************************************************************************)
EXTENDS TranscodeQueue, SequenceTheorems, FiniteSetTheorems, TLAPS

-----------------------------------------------------------------------------
(* The elements of a sequence, and sequences without repetition *)

LEMMA EmptyElements == ToSet(<<>>) = {} /\ IsInjective(<<>>)
  BY DEF ToSet, IsInjective

LEMMA Elements ==
    ASSUME NEW S, NEW s \in Seq(S)
    PROVE  /\ DOMAIN s = 1..Len(s) /\ Len(s) \in Nat
           /\ ToSet(s) = {s[i] : i \in 1..Len(s)}
           /\ ToSet(s) \subseteq S
           /\ \A e : Contains(s, e) <=> e \in ToSet(s)
  BY DEF ToSet, Contains

LEMMA AppendElements ==
    ASSUME NEW S, NEW s \in Seq(S), NEW e \in S
    PROVE  /\ Append(s, e) \in Seq(S)
           /\ Len(Append(s, e)) = Len(s) + 1
           /\ ToSet(Append(s, e)) = ToSet(s) \union {e}
           /\ IsInjective(s) /\ e \notin ToSet(s) => IsInjective(Append(s, e))
  <1> DEFINE t == Append(s, e)
  <1>1. t \in Seq(S) /\ Len(t) = Len(s) + 1 /\ t[Len(s) + 1] = e
        /\ \A i \in 1..Len(s) : t[i] = s[i]
    BY AppendProperties
  <1>2. Len(s) \in Nat
    OBVIOUS
  <1> HIDE DEF t
  <1>3. ToSet(t) = ToSet(s) \union {e}
    BY <1>1, <1>2, Elements
  <1>4. ASSUME IsInjective(s), e \notin ToSet(s) PROVE IsInjective(t)
    <2> SUFFICES ASSUME NEW i \in 1..Len(t), NEW j \in 1..Len(t), t[i] = t[j] PROVE i = j
      BY <1>1, Elements DEF IsInjective
    <2> QED
      BY <1>1, <1>2, <1>4, Elements DEF IsInjective
  <1> QED
    BY <1>1, <1>3, <1>4 DEF t

LEMMA TailElements ==
    ASSUME NEW S, NEW s \in Seq(S), s # <<>>
    PROVE  /\ Head(s) \in S /\ Tail(s) \in Seq(S)
           /\ Len(Tail(s)) = Len(s) - 1
           /\ ToSet(s) = ToSet(Tail(s)) \union {Head(s)}
           /\ IsInjective(s) => IsInjective(Tail(s)) /\ Head(s) \notin ToSet(Tail(s))
  <1> DEFINE t == Tail(s)
  <1>1. t \in Seq(S) /\ Len(t) = Len(s) - 1 /\ Head(s) \in S
        /\ \A i \in 1..Len(t) : t[i] = s[i + 1]
    BY HeadTailProperties
  <1>2. Len(s) \in Nat \ {0} /\ Head(s) = s[1]
    BY EmptySeq
  <1> HIDE DEF t
  <1>3. ToSet(s) = ToSet(t) \union {Head(s)}
    <2>1. \A i \in 1..Len(s) : i = 1 \/ (i - 1 \in 1..Len(t) /\ t[i - 1] = s[i])
      BY <1>1, <1>2
    <2>2. \A i \in 1..Len(t) : i + 1 \in 1..Len(s)
      BY <1>1, <1>2
    <2> QED
      BY <1>1, <1>2, <2>1, <2>2, Elements
  <1>4. ASSUME IsInjective(s) PROVE IsInjective(t) /\ Head(s) \notin ToSet(t)
    <2>1. \A i, j \in 1..Len(s) : s[i] = s[j] => i = j
      BY <1>4, Elements DEF IsInjective
    <2>2. \A i \in 1..Len(t) : i + 1 \in 1..Len(s) /\ i + 1 # 1
      BY <1>1, <1>2
    <2>3. ASSUME NEW i \in 1..Len(t), NEW j \in 1..Len(t), t[i] = t[j] PROVE i = j
      <3>1. i + 1 = j + 1
        BY <1>1, <2>1, <2>2, <2>3
      <3> QED
        BY <3>1
    <2>4. Head(s) \notin ToSet(t)
      BY <1>1, <1>2, <2>1, <2>2, Elements
    <2> QED
      BY <1>1, <2>3, <2>4, Elements DEF IsInjective
  <1> QED
    BY <1>1, <1>3, <1>4 DEF t

LEMMA ConcatElements ==
    ASSUME NEW S, NEW s \in Seq(S), NEW t \in Seq(S)
    PROVE  /\ s \o t \in Seq(S)
           /\ ToSet(s \o t) = ToSet(s) \union ToSet(t)
           /\ IsInjective(s) /\ IsInjective(t) /\ ToSet(s) \intersect ToSet(t) = {}
                => IsInjective(s \o t)
  <1> DEFINE u == s \o t
  <1>1. u \in Seq(S) /\ Len(u) = Len(s) + Len(t)
        /\ \A i \in 1..Len(u) : u[i] = IF i <= Len(s) THEN s[i] ELSE t[i - Len(s)]
    BY ConcatProperties
  <1>2. Len(s) \in Nat /\ Len(t) \in Nat
    OBVIOUS
  <1> HIDE DEF u
  <1>3. \A i \in 1..Len(u) : \/ i \in 1..Len(s) /\ u[i] = s[i]
                             \/ i - Len(s) \in 1..Len(t) /\ u[i] = t[i - Len(s)]
    <2> SUFFICES ASSUME NEW i \in 1..Len(u)
                 PROVE  \/ i \in 1..Len(s) /\ u[i] = s[i]
                        \/ i - Len(s) \in 1..Len(t) /\ u[i] = t[i - Len(s)]
      OBVIOUS
    <2>1. i \in Nat /\ 1 <= i /\ i <= Len(s) + Len(t)
      BY <1>1, <1>2
    <2>2. CASE i <= Len(s)
      BY <1>1, <1>2, <2>1, <2>2
    <2>3. CASE ~(i <= Len(s))
      <3>1. i - Len(s) \in 1..Len(t)
        BY <1>2, <2>1, <2>3
      <3> QED
        BY <1>1, <2>3, <3>1
    <2> QED
      BY <2>2, <2>3
  <1>4. /\ \A i \in 1..Len(s) : i \in 1..Len(u) /\ u[i] = s[i]
        /\ \A i \in 1..Len(t) : i + Len(s) \in 1..Len(u) /\ u[i + Len(s)] = t[i]
    <2>1. ASSUME NEW i \in 1..Len(s) PROVE i \in 1..Len(u) /\ i <= Len(s)
      BY <1>1, <1>2
    <2>2. ASSUME NEW i \in 1..Len(t)
          PROVE  i + Len(s) \in 1..Len(u) /\ ~(i + Len(s) <= Len(s)) /\ (i + Len(s)) - Len(s) = i
      BY <1>1, <1>2
    <2>3. ASSUME NEW i \in 1..Len(t) PROVE u[i + Len(s)] = t[i]
      <3>1. u[i + Len(s)] = t[(i + Len(s)) - Len(s)]
        BY <1>1, <2>2
      <3> QED
        BY <2>2, <3>1
    <2> QED
      BY <1>1, <2>1, <2>2, <2>3
  <1>5. ToSet(u) = ToSet(s) \union ToSet(t)
    <2>1. /\ ToSet(u) = {u[i] : i \in 1..Len(u)}
          /\ ToSet(s) = {s[i] : i \in 1..Len(s)}
          /\ ToSet(t) = {t[i] : i \in 1..Len(t)}
      BY <1>1, Elements
    <2>2. ToSet(u) \subseteq ToSet(s) \union ToSet(t)
      BY <1>3, <2>1
    <2>3. ToSet(s) \subseteq ToSet(u) /\ ToSet(t) \subseteq ToSet(u)
      BY <1>4, <2>1
    <2> QED
      BY <2>2, <2>3
  <1>6. ASSUME IsInjective(s), IsInjective(t), ToSet(s) \intersect ToSet(t) = {}
        PROVE  IsInjective(u)
    <2>1. /\ \A i, j \in 1..Len(s) : s[i] = s[j] => i = j
          /\ \A i, j \in 1..Len(t) : t[i] = t[j] => i = j
          /\ \A i \in 1..Len(s), j \in 1..Len(t) : s[i] # t[j]
      BY <1>6, Elements DEF IsInjective
    <2>2. ASSUME NEW i \in 1..Len(u), NEW j \in 1..Len(u), u[i] = u[j] PROVE i = j
      <3>1. i \in 1..Len(s) /\ j \in 1..Len(s) => i = j
        BY <1>3, <1>4, <2>1, <2>2
      <3>2. i \notin 1..Len(s) /\ j \notin 1..Len(s) => i - Len(s) = j - Len(s)
        BY <1>3, <2>1, <2>2
      <3>3. i \in 1..Len(s) <=> j \in 1..Len(s)
        BY <1>3, <1>4, <2>1, <2>2
      <3> QED
        BY <1>2, <3>1, <3>2, <3>3
    <2> QED
      BY <1>1, <2>2, Elements DEF IsInjective
  <1> QED
    BY <1>1, <1>5, <1>6 DEF u

\* What SetToSeqs returns is a sequence, and it repeats nothing.
LEMMA SetToSeqsElements ==
    ASSUME NEW S, IsFiniteSet(S), NEW s \in SetToSeqs(S)
    PROVE  s \in Seq(S) /\ IsInjective(s) /\ ToSet(s) \subseteq S
  <1>1. Cardinality(S) \in Nat
    BY FS_CardinalityType
  <1>2. s \in [1..Cardinality(S) -> S] /\ IsInjective(s)
    BY DEF SetToSeqs, IsInjective
  <1>3. s \in Seq(S)
    BY <1>1, <1>2, SeqDef
  <1> QED
    BY <1>2, <1>3, Elements

-----------------------------------------------------------------------------
(* Type correctness *)

LEMMA InitType == Init => TypeOK
  BY QueueAssumption DEF Init, TypeOK, Transcoding

LEMMA FaultType == TypeOK /\ Fault => faults' \in 0..MaxFaults
  BY QueueAssumption DEF TypeOK, Fault

LEMMA RoomType ==
    ASSUME TypeOK, Room, NEW f \in Files, rx' = Append(rx, f)
    PROVE  rx' \in Seq(Files) /\ Len(rx') <= Capacity
  BY QueueAssumption, AppendElements DEF TypeOK, Room

LEMMA StartupType == TypeOK /\ Startup => TypeOK'
  <1> SUFFICES ASSUME TypeOK PROVE Startup => TypeOK'
    OBVIOUS
  <1>1. ASSUME NEW f \in Files, StartupSend(f) PROVE TypeOK'
    BY <1>1, RoomType DEF StartupSend, TypeOK
  <1>2. Spawn => TypeOK'
    BY DEF Spawn, queue, TypeOK
  <1> QED
    BY <1>1, <1>2 DEF Startup

LEMMA FeedType == TypeOK /\ Feed => TypeOK'
  <1> SUFFICES ASSUME TypeOK PROVE Feed => TypeOK'
    OBVIOUS
  <1>1. ASSUME NEW f \in Files, Approve(f) \/ Requeue(f) \/ Recheck(f) PROVE TypeOK'
    BY <1>1 DEF Approve, Requeue, Recheck, queue, TypeOK
  <1>2. ASSUME NEW f \in Files, Deliver(f) PROVE TypeOK'
    BY <1>2, RoomType DEF Deliver, queue, TypeOK
  <1>3. LoseEvents => TypeOK'
    BY DEF LoseEvents, queue, TypeOK
  <1>4. CatchUp => TypeOK'
    BY FaultType DEF CatchUp, Transcoding, queue, TypeOK
  <1>5. ASSUME NEW w \in Senders, NEW f \in Files, Read(w, f) PROVE TypeOK'
    BY <1>5 DEF Read, queue, TypeOK
  <1>6. ASSUME NEW w \in Senders, NEW f \in Files, Send(w, f) PROVE TypeOK'
    BY <1>6, RoomType DEF Send, queue, TypeOK
  <1> QED
    BY <1>1, <1>2, <1>3, <1>4, <1>5, <1>6 DEF Feed

\* What the tick arm appends.
LEMMA EnqueuedIds ==
    ASSUME TypeOK, NEW ids \in SetToSeqs({f \in scanned : enqueue_unique(f)})
    PROVE  /\ ids \in Seq(Files) /\ IsInjective(ids)
           /\ \A f \in ToSet(ids) : f \in scanned /\ f \notin inflight /\ f \notin ToSet(pending)
  <1> DEFINE S == {f \in scanned : enqueue_unique(f)}
  <1>1. S \subseteq Files /\ IsFiniteSet(S)
    BY QueueAssumption, FS_Subset DEF TypeOK
  <1>2. ids \in Seq(S) /\ IsInjective(ids) /\ ToSet(ids) \subseteq S
    BY <1>1, SetToSeqsElements
  <1>3. ids \in Seq(Files)
    BY <1>1, <1>2, SeqMonotonic
  <1>4. \A f \in S : f \in scanned /\ f \notin inflight /\ f \notin ToSet(pending)
    BY Elements DEF TypeOK, enqueue_unique
  <1> QED
    BY <1>2, <1>3, <1>4

LEMMA LoopType == TypeOK /\ Loop => TypeOK'
  <1> SUFFICES ASSUME TypeOK PROVE Loop => TypeOK'
    OBVIOUS
  <1>1. ASSUME Recv PROVE TypeOK'
    <2>1. Head(rx) \in Files /\ rx' \in Seq(Files) /\ Len(rx') <= Capacity
      BY <1>1, TailElements, QueueAssumption DEF Recv, TypeOK
    <2>2. pending' \in Seq(Files)
      BY <1>1, <2>1, AppendElements DEF Recv, TypeOK
    <2> QED
      BY <1>1, <2>1, <2>2 DEF Recv, TypeOK
  <1>2. TickScans => TypeOK'
    BY DEF TickScans, Transcoding, TypeOK
  <1>3. TickScanFails => TypeOK'
    BY FaultType DEF TickScanFails, queue, TypeOK
  <1>4. ASSUME TickEnqueues PROVE TypeOK'
    <2>1. pending' \in Seq(Files)
      BY <1>4, EnqueuedIds, ConcatElements DEF TickEnqueues, TypeOK
    <2> QED
      BY <1>4, <2>1 DEF TickEnqueues, TypeOK
  <1>5. ASSUME Dispatch PROVE TypeOK'
    <2>1. Head(pending) \in Files /\ pending' \in Seq(Files)
      BY <1>5, TailElements DEF Dispatch, CanDispatch, TypeOK
    <2> QED
      BY <1>5, <2>1 DEF Dispatch, TypeOK
  <1>6. ASSUME NEW f \in Files, Join(f) PROVE TypeOK'
    BY <1>6 DEF Join, TypeOK
  <1> QED
    BY <1>1, <1>2, <1>3, <1>4, <1>5, <1>6 DEF Loop

LEMMA TaskType == TypeOK /\ Task => TypeOK'
  <1> SUFFICES ASSUME TypeOK PROVE Task => TypeOK'
    OBVIOUS
  <1>1. ASSUME NEW f \in Files, Commit(f) PROVE TypeOK'
    BY <1>1 DEF Commit, queue, TypeOK
  <1>2. ASSUME NEW f \in Files, LoseOutcome(f) PROVE TypeOK'
    BY <1>2, FaultType DEF LoseOutcome, queue, TypeOK
  <1>3. ASSUME NEW f \in Files, End(f) PROVE TypeOK'
    BY <1>3 DEF End, queue, TypeOK
  <1> QED
    BY <1>1, <1>2, <1>3 DEF Task

LEMMA ProcessType ==
    TypeOK /\ (TimerFires \/ Cancel \/ Drained \/ Crash \/ Restart) => TypeOK'
  <1> SUFFICES ASSUME TypeOK PROVE TimerFires \/ Cancel \/ Drained \/ Crash \/ Restart => TypeOK'
    OBVIOUS
  <1>1. TimerFires => TypeOK'
    BY DEF TimerFires, queue, TypeOK
  <1>2. Cancel => TypeOK'
    BY FaultType DEF Cancel, queue, TypeOK
  <1>3. ASSUME Die, faults' \in 0..MaxFaults PROVE TypeOK'
    BY <1>3, EmptySeq, QueueAssumption DEF Die, TypeOK
  <1>4. Drained \/ Crash => TypeOK'
    BY <1>3, FaultType DEF Drained, Crash, TypeOK
  <1>5. Restart => TypeOK'
    BY DEF Restart, Transcoding, TypeOK
  <1> QED
    BY <1>1, <1>2, <1>4, <1>5

LEMMA NextType == TypeOK /\ [Next]_vars => TypeOK'
  <1>1. TypeOK /\ UNCHANGED vars => TypeOK'
    BY DEF vars, queue, TypeOK
  <1> QED
    BY <1>1, StartupType, FeedType, LoopType, TaskType, ProcessType DEF Next

\* Every reachable state is well typed, and the channel never holds more than
\* its capacity.  (main.rs, the orchestrator and the workflow tasks.)
THEOREM QueueTypeCorrect == Spec => []TypeOK
  BY InitType, NextType, PTL DEF Spec

-----------------------------------------------------------------------------
(* The invariant of the select loop *)

\* The permit is out as long as a task runs, and it is in one task's hands.
PermitOwned ==
    /\ permit => Running = {}
    /\ \A f, g \in Running : f = g

\* What the scan read can only have changed under the loop through a task that
\* is not joined yet.
ScanIsFresh ==
    loop = "requeue" => \A f \in scanned : row[f] = "transcoding" \/ f \in inflight

IInv == TypeOK /\ QueuedOnce /\ InflightIsExact /\ PermitOwned /\ ScanIsFresh

LEMMA InitIInv == Init => IInv
  <1> SUFFICES ASSUME Init PROVE IInv
    OBVIOUS
  <1>1. QueuedOnce
    BY EmptyElements DEF Init, QueuedOnce
  <1>2. InflightIsExact /\ PermitOwned /\ ScanIsFresh
    BY DEF Init, InflightIsExact, PermitOwned, ScanIsFresh, Running
  <1> QED
    BY <1>1, <1>2, InitType DEF IInv

\* The steps that neither queue, dispatch, join nor advance a task.
LEMMA FrameIInv ==
    ASSUME IInv, TypeOK', ScanIsFresh', UNCHANGED <<pending, inflight, task, permit>>
    PROVE  IInv'
  BY DEF IInv, QueuedOnce, InflightIsExact, PermitOwned, Running

LEMMA StartupIInv == IInv /\ Startup => IInv'
  <1> SUFFICES ASSUME IInv, Startup PROVE IInv'
    OBVIOUS
  <1>1. TypeOK' /\ UNCHANGED <<pending, inflight, task, permit>>
    BY StartupType DEF IInv, Startup, Spawn, StartupSend, queue
  <1>2. loop' # "requeue"
    BY DEF Startup, Spawn, StartupSend
  <1> QED
    BY <1>1, <1>2, FrameIInv DEF ScanIsFresh

\* No step of the feed takes a file out of transcoding.
LEMMA FeedFrame ==
    ASSUME TypeOK, Feed
    PROVE  /\ UNCHANGED <<loop, queue, task, permit>>
           /\ Transcoding \subseteq Transcoding'
  <1>1. UNCHANGED <<loop, queue, task, permit>>
    BY DEF Feed, Approve, Requeue, Recheck, Deliver, LoseEvents, CatchUp, Read, Send
  <1>2. \/ UNCHANGED row
        \/ \E f \in Files : Approve(f) \/ Requeue(f) \/ Recheck(f)
    BY DEF Feed, Deliver, LoseEvents, CatchUp, Read, Send
  <1>3. Transcoding \subseteq Transcoding'
    BY <1>2 DEF Approve, Requeue, Recheck, Transcoding, TypeOK
  <1> QED
    BY <1>1, <1>3

LEMMA FeedIInv == IInv /\ Feed => IInv'
  <1> SUFFICES ASSUME IInv, Feed PROVE IInv'
    OBVIOUS
  <1>1. TypeOK /\ TypeOK'
    BY FeedType DEF IInv
  <1>2. UNCHANGED <<loop, queue, task, permit>> /\ Transcoding \subseteq Transcoding'
    BY <1>1, FeedFrame
  <1>3. ScanIsFresh'
    BY <1>1, <1>2 DEF IInv, ScanIsFresh, Transcoding, TypeOK, queue
  <1> QED
    BY <1>1, <1>2, <1>3, FrameIInv DEF queue

LEMMA RecvIInv == IInv /\ Recv => IInv'
  <1> SUFFICES ASSUME IInv, Recv PROVE IInv'
    OBVIOUS
  <1>1. TypeOK /\ TypeOK' /\ UNCHANGED <<row, loop, inflight, scanned, task, permit>>
    BY LoopType DEF IInv, Loop, Recv
  <1>2. QueuedOnce'
    <2>1. CASE ~enqueue_unique(Head(rx))
      BY <2>1 DEF IInv, Recv, QueuedOnce
    <2>2. CASE enqueue_unique(Head(rx))
      <3>1. Head(rx) \in Files /\ Head(rx) \notin inflight /\ Head(rx) \notin ToSet(pending)
        BY <1>1, <2>2, TailElements, Elements DEF Recv, TypeOK, enqueue_unique
      <3>2. pending' = Append(pending, Head(rx))
        BY <2>2 DEF Recv
      <3> QED
        BY <1>1, <3>1, <3>2, AppendElements DEF IInv, QueuedOnce, TypeOK
    <2> QED
      BY <2>1, <2>2
  <1> QED
    BY <1>1, <1>2 DEF IInv, InflightIsExact, PermitOwned, Running, ScanIsFresh

LEMMA TickEnqueuesIInv == IInv /\ TickEnqueues => IInv'
  <1> SUFFICES ASSUME IInv, TickEnqueues PROVE IInv'
    OBVIOUS
  <1>1. TypeOK /\ TypeOK' /\ UNCHANGED <<inflight, task, permit>> /\ loop' = "select"
    BY LoopType DEF IInv, Loop, TickEnqueues
  <1>2. PICK ids \in SetToSeqs({f \in scanned : enqueue_unique(f)}) : pending' = pending \o ids
    BY DEF TickEnqueues
  <1>3. /\ ids \in Seq(Files) /\ IsInjective(ids)
        /\ \A f \in ToSet(ids) : f \notin inflight /\ f \notin ToSet(pending)
    BY <1>1, EnqueuedIds
  <1>4. QueuedOnce'
    BY <1>1, <1>2, <1>3, ConcatElements DEF IInv, QueuedOnce, TypeOK
  <1> QED
    BY <1>1, <1>4 DEF IInv, InflightIsExact, PermitOwned, Running, ScanIsFresh

LEMMA DispatchIInv == IInv /\ Dispatch => IInv'
  <1> SUFFICES ASSUME IInv, Dispatch PROVE IInv'
    OBVIOUS
  <1> DEFINE f == Head(pending)
  <1>1. TypeOK /\ TypeOK' /\ loop' = "select" /\ Running = {}
    BY LoopType DEF IInv, Loop, Dispatch, CanDispatch, PermitOwned
  <1>2. /\ f \in Files /\ f \notin ToSet(Tail(pending)) /\ IsInjective(Tail(pending))
        /\ ToSet(Tail(pending)) \subseteq ToSet(pending)
    BY <1>1, TailElements DEF IInv, QueuedOnce, Dispatch, CanDispatch, TypeOK
  <1>3. /\ pending' = Tail(pending) /\ inflight' = inflight \union {f} /\ ~permit'
        /\ task' = [task EXCEPT ![f] = "encoding"]
    BY DEF Dispatch
  <1> HIDE DEF f
  <1>4. QueuedOnce'
    BY <1>2, <1>3 DEF IInv, QueuedOnce
  <1>5. InflightIsExact'
    BY <1>1, <1>2, <1>3 DEF IInv, InflightIsExact, TypeOK
  <1>6. Running' = {f}
    BY <1>1, <1>2, <1>3 DEF Running, TypeOK
  <1> QED
    BY <1>1, <1>3, <1>4, <1>5, <1>6 DEF IInv, PermitOwned, ScanIsFresh

LEMMA JoinIInv == ASSUME IInv, NEW f \in Files, Join(f) PROVE IInv'
  <1>1. TypeOK /\ TypeOK' /\ loop' # "requeue"
    BY LoopType DEF IInv, Loop, Join
  <1>2. task' = [task EXCEPT ![f] = "none"] /\ inflight' = inflight \ {f}
        /\ UNCHANGED <<pending, permit>>
    BY DEF Join
  <1>3. InflightIsExact'
    BY <1>1, <1>2 DEF IInv, InflightIsExact, TypeOK
  <1>4. Running' \subseteq Running
    BY <1>1, <1>2 DEF Running, TypeOK
  <1> QED
    BY <1>1, <1>2, <1>3, <1>4 DEF IInv, QueuedOnce, PermitOwned, ScanIsFresh

LEMMA LoopIInv == IInv /\ Loop => IInv'
  <1> SUFFICES ASSUME IInv PROVE Loop => IInv'
    OBVIOUS
  <1>1. ASSUME TickScans \/ TickScanFails PROVE IInv'
    <2>1. TypeOK' /\ UNCHANGED <<row, pending, inflight, task, permit>>
      BY <1>1, LoopType DEF IInv, Loop, TickScans, TickScanFails, queue
    <2>2. ScanIsFresh'
      BY <1>1, <2>1 DEF TickScans, TickScanFails, ScanIsFresh, Transcoding
    <2> QED
      BY <2>1, <2>2, FrameIInv
  <1> QED
    BY <1>1, RecvIInv, TickEnqueuesIInv, DispatchIInv, JoinIInv DEF Loop

\* A task that records or loses its outcome runs on; only one that ends gives the
\* permit back.
LEMMA TaskIInv == IInv /\ Task => IInv'
  <1> SUFFICES ASSUME IInv, NEW f \in Files, Commit(f) \/ LoseOutcome(f) \/ End(f)
               PROVE  IInv'
    BY DEF Task
  <1>1. TypeOK /\ TypeOK' /\ UNCHANGED <<loop, pending, inflight, scanned>>
    BY TaskType DEF IInv, Task, Commit, LoseOutcome, End, queue
  <1>2. f \in Running
    BY DEF Commit, LoseOutcome, End, Running
  <1>3. InflightIsExact'
    BY <1>1, <1>2 DEF IInv, InflightIsExact, Commit, LoseOutcome, End, TypeOK
  <1>4. ScanIsFresh'
    <2>1. f \in inflight
      BY <1>2 DEF IInv, InflightIsExact, Running
    <2>2. \A g \in Files : g # f => row'[g] = row[g]
      BY <1>1 DEF Commit, LoseOutcome, End, TypeOK
    <2> QED
      BY <1>1, <2>1, <2>2 DEF IInv, ScanIsFresh, TypeOK
  <1>5. PermitOwned'
    <2>1. CASE Commit(f) \/ LoseOutcome(f)
      BY <1>1, <1>2, <2>1 DEF IInv, PermitOwned, Running, Commit, LoseOutcome, TypeOK
    <2>2. CASE End(f)
      <3>1. Running' = Running \ {f}
        BY <1>1, <2>2 DEF End, Running, TypeOK
      <3> QED
        BY <1>2, <3>1 DEF IInv, PermitOwned
    <2> QED
      BY <2>1, <2>2
  <1> QED
    BY <1>1, <1>3, <1>4, <1>5 DEF IInv, QueuedOnce

LEMMA DieIInv == TypeOK' /\ Die => IInv'
  <1> SUFFICES ASSUME TypeOK', Die PROVE IInv'
    OBVIOUS
  <1>1. QueuedOnce'
    BY EmptyElements DEF Die, QueuedOnce
  <1> QED
    BY <1>1 DEF Die, IInv, InflightIsExact, PermitOwned, Running, ScanIsFresh

LEMMA NextIInv == IInv /\ [Next]_vars => IInv'
  <1> SUFFICES ASSUME IInv, [Next]_vars PROVE IInv'
    OBVIOUS
  <1>1. TypeOK'
    BY NextType DEF IInv
  <1>2. CASE Drained \/ Crash
    BY <1>1, <1>2, DieIInv DEF Drained, Crash
  <1>3. CASE TimerFires \/ Cancel \/ Restart \/ UNCHANGED vars
    <2>1. UNCHANGED <<row, pending, inflight, task, permit>>
          /\ (loop' = "requeue" => UNCHANGED <<loop, scanned>>)
      BY <1>3 DEF TimerFires, Cancel, Restart, vars, queue
    <2> QED
      BY <1>1, <2>1, FrameIInv DEF IInv, ScanIsFresh
  <1> QED
    BY <1>2, <1>3, StartupIInv, FeedIInv, LoopIInv, TaskIInv DEF Next

LEMMA IInvHolds == Spec => []IInv
  BY InitIInv, NextIInv, PTL DEF Spec

\* However many events, catch-ups and scans name a file, it is queued at most
\* once, and never while it is in flight.  (enqueue_unique.)
THEOREM NeverQueuedTwice == Spec => []QueuedOnce
  <1>1. IInv => QueuedOnce
    BY DEF IInv
  <1> QED
    BY <1>1, IInvHolds, PTL

\* The in-flight set is the set of tasks not joined yet, in the loop, in a drain
\* and after a crash.  (run: dispatch and join arms.)
THEOREM InflightAlwaysExact == Spec => []InflightIsExact
  <1>1. IInv => InflightIsExact
    BY DEF IInv
  <1> QED
    BY <1>1, IInvHolds, PTL

\* At most one encode runs at any time, however the process is stopped, crashes
\* and restarts.  (Semaphore(1).)
THEOREM AtMostOneEncode == Spec => []OneEncodeAtATime
  <1>1. ASSUME IInv PROVE OneEncodeAtATime
    <2>1. CASE Running = {}
      BY <2>1, FS_EmptySet DEF OneEncodeAtATime
    <2>2. CASE Running # {}
      <3>1. PICK f : f \in Running
        BY <2>2
      <3>2. Running = {f}
        BY <1>1, <3>1 DEF IInv, PermitOwned
      <3> QED
        BY <3>2, FS_Singleton DEF OneEncodeAtATime
    <2> QED
      BY <2>1, <2>2
  <1> QED
    BY <1>1, IInvHolds, PTL

-----------------------------------------------------------------------------
(* What is queued and dispatched is still to be transcoded *)

LEMMA EnqueuedIsFresh ==
    ASSUME IInv, TickEnqueues
    PROVE  \A f \in ToSet(pending') \ ToSet(pending) : row[f] = "transcoding" /\ task[f] = "none"
  <1>1. TypeOK /\ scanned \subseteq Files
    BY DEF IInv, TypeOK
  <1>2. PICK ids \in SetToSeqs({f \in scanned : enqueue_unique(f)}) : pending' = pending \o ids
    BY DEF TickEnqueues
  <1>3. ids \in Seq(Files) /\ \A f \in ToSet(ids) : f \in scanned /\ f \notin inflight
    BY <1>1, EnqueuedIds
  <1>4. ToSet(pending') = ToSet(pending) \union ToSet(ids)
    BY <1>1, <1>2, <1>3, ConcatElements DEF TypeOK
  <1> QED
    BY <1>1, <1>3, <1>4 DEF IInv, ScanIsFresh, InflightIsExact, TickEnqueues

\* The only step that adds to the pending queue while the scan is awaited.
LEMMA RequeueSteps ==
    ASSUME [Next]_vars, loop = "requeue"
    PROVE  TickEnqueues \/ ToSet(pending') \subseteq ToSet(pending)
  <1>1. CASE Loop
    BY <1>1 DEF Loop, Recv, TickScans, TickScanFails, Dispatch, Join
  <1>2. CASE Drained \/ Crash
    BY <1>2, EmptyElements DEF Drained, Crash, Die
  <1>3. CASE Startup \/ Feed \/ Task
    BY <1>3 DEF Startup, Spawn, StartupSend, Feed, Approve, Requeue, Recheck, Deliver, LoseEvents,
                CatchUp, Read, Send, Task, Commit, LoseOutcome, End, queue
  <1>4. CASE TimerFires \/ Cancel \/ Restart \/ UNCHANGED vars
    BY <1>4 DEF TimerFires, Cancel, Restart, vars, queue
  <1> QED
    BY <1>1, <1>2, <1>3, <1>4 DEF Next

\* The stale re-queue queues only files that are still transcoding and in nobody's
\* hands, whatever went on while the scan was awaited.  (run: the tick arm.)
THEOREM RequeueIsFresh == Spec => StaleRequeueIsFresh
  <1>1. ASSUME IInv, [Next]_vars
        PROVE  \A f \in Files : loop = "requeue" /\ f \in ToSet(pending') \ ToSet(pending)
                                  => row[f] = "transcoding" /\ task[f] = "none"
    BY <1>1, EnqueuedIsFresh, RequeueSteps
  <1>2. IInv /\ [Next]_vars =>
          [ \A f \in Files : loop = "requeue" /\ f \in ToSet(pending') \ ToSet(pending)
                               => row[f] = "transcoding" /\ task[f] = "none" ]_vars
    BY <1>1
  <1> QED
    BY <1>2, IInvHolds, PTL DEF Spec, StaleRequeueIsFresh

\* Until the loop drains, an id in the channel names a file that is transcoding, or
\* one in flight: then the gate drops it, as no task is joined before the channel
\* is empty.  What passed the gate has no task that could record an outcome.
Prompt ==
    /\ loop \in {"starting", "down"} => inflight = {}
    /\ loop = "starting" => scanned \subseteq Transcoding
    /\ loop = "down" => rx = <<>>
    /\ loop # "drain" => ToSet(rx) \subseteq Transcoding \union inflight
    /\ ToSet(pending) \subseteq Transcoding

LEMMA InitPrompt == Init => Prompt
  BY EmptyElements DEF Init, Prompt

LEMMA StartupPrompt == IInv /\ Prompt /\ Startup => Prompt'
  <1> SUFFICES ASSUME IInv, Prompt, Startup PROVE Prompt'
    OBVIOUS
  <1>1. Spawn => Prompt'
    BY DEF Spawn, queue, Prompt, Transcoding
  <1>2. ASSUME NEW f \in Files, StartupSend(f) PROVE Prompt'
    <2>1. ToSet(rx') = ToSet(rx) \union {f} /\ f \in Transcoding
      BY <1>2, AppendElements DEF StartupSend, IInv, TypeOK, Prompt
    <2> QED
      BY <1>2, <2>1 DEF StartupSend, Prompt, Transcoding
  <1> QED
    BY <1>1, <1>2 DEF Startup

LEMMA FeedPrompt == Senders = {} /\ IInv /\ Prompt /\ Feed => Prompt'
  <1> SUFFICES ASSUME Senders = {}, IInv, Prompt, Feed PROVE Prompt'
    OBVIOUS
  <1>1. Up /\ UNCHANGED <<loop, queue>> /\ Transcoding \subseteq Transcoding'
    BY FeedFrame DEF IInv, Feed, Approve, Requeue, Recheck, Deliver, LoseEvents, CatchUp
  <1>2. ToSet(rx') \subseteq ToSet(rx) \union Transcoding
    <2>1. ASSUME NEW f \in Files, Deliver(f) PROVE ToSet(rx') \subseteq ToSet(rx) \union Transcoding
      <3>1. ToSet(rx') = ToSet(rx) \union {f}
        BY <2>1, AppendElements DEF Deliver, IInv, TypeOK
      <3> QED
        BY <2>1, <3>1 DEF Deliver, Transcoding
    <2> QED
      BY <2>1 DEF Feed, Approve, Requeue, Recheck, LoseEvents, CatchUp
  <1> QED
    BY <1>1, <1>2 DEF Prompt, Up, queue

LEMMA LoopPrompt == IInv /\ Prompt /\ Loop => Prompt'
  <1> SUFFICES ASSUME IInv, Prompt PROVE Loop => Prompt'
    OBVIOUS
  <1>1. TypeOK
    BY DEF IInv
  <1>2. ASSUME Recv PROVE Prompt'
    <2>1. /\ ToSet(rx) = ToSet(rx') \union {Head(rx)} /\ Head(rx) \in Files
          /\ UNCHANGED <<row, loop, inflight, scanned>> /\ loop = "select"
      BY <1>1, <1>2, TailElements DEF Recv, TypeOK
    <2>2. ToSet(pending') \subseteq Transcoding
      <3>1. CASE ~enqueue_unique(Head(rx))
        BY <1>2, <3>1 DEF Recv, Prompt
      <3>2. CASE enqueue_unique(Head(rx))
        <4>1. ToSet(pending') = ToSet(pending) \union {Head(rx)}
          BY <1>1, <1>2, <2>1, <3>2, AppendElements DEF Recv, TypeOK
        <4> QED
          BY <2>1, <3>2, <4>1 DEF Prompt, enqueue_unique
      <3> QED
        BY <3>1, <3>2
    <2> QED
      BY <2>1, <2>2 DEF Prompt, Transcoding
  <1>3. TickScans \/ TickScanFails => Prompt'
    BY DEF TickScans, TickScanFails, queue, Prompt, Transcoding
  <1>4. ASSUME TickEnqueues PROVE Prompt'
    <2>1. ToSet(pending') \subseteq Files
      BY <1>4, LoopType, Elements DEF Loop, IInv, TypeOK
    <2>2. ToSet(pending') \subseteq Transcoding
      BY <1>4, <2>1, EnqueuedIsFresh DEF Prompt, Transcoding
    <2> QED
      BY <1>4, <2>2 DEF TickEnqueues, Prompt, Transcoding
  <1>5. ASSUME Dispatch PROVE Prompt'
    <2>1. ToSet(pending') \subseteq ToSet(pending) /\ inflight \subseteq inflight'
      BY <1>1, <1>5, TailElements DEF Dispatch, CanDispatch, TypeOK
    <2> QED
      BY <1>5, <2>1 DEF Dispatch, Prompt, Transcoding
  <1>6. ASSUME NEW f \in Files, Join(f) PROVE Prompt'
    BY <1>6, EmptyElements DEF Join, Prompt, Transcoding
  <1> QED
    BY <1>2, <1>3, <1>4, <1>5, <1>6 DEF Loop

LEMMA TaskPrompt == IInv /\ Prompt /\ Task => Prompt'
  <1> SUFFICES ASSUME IInv, Prompt, NEW f \in Files, Commit(f) \/ LoseOutcome(f) \/ End(f)
               PROVE  Prompt'
    BY DEF Task
  <1>1. f \in inflight /\ UNCHANGED <<rx, loop, queue>>
    BY DEF IInv, InflightIsExact, Commit, LoseOutcome, End
  <1>2. Transcoding \ {f} \subseteq Transcoding'
    BY DEF IInv, TypeOK, Commit, LoseOutcome, End, Transcoding
  <1>3. f \notin ToSet(pending)
    BY <1>1 DEF IInv, QueuedOnce
  <1> QED
    BY <1>1, <1>2, <1>3 DEF Prompt, queue

LEMMA NextPrompt == Senders = {} => (IInv /\ Prompt /\ [Next]_vars => Prompt')
  <1> SUFFICES ASSUME Senders = {}, IInv, Prompt, [Next]_vars PROVE Prompt'
    OBVIOUS
  <1>1. CASE TimerFires \/ Cancel \/ UNCHANGED vars
    BY <1>1 DEF TimerFires, Cancel, vars, queue, Prompt, Transcoding
  <1>2. CASE Drained \/ Crash
    BY <1>2, EmptyElements DEF Drained, Crash, Die, Prompt
  <1>3. CASE Restart
    BY <1>3, EmptyElements DEF Restart, Prompt, Transcoding
  <1> QED
    BY <1>1, <1>2, <1>3, StartupPrompt, FeedPrompt, LoopPrompt, TaskPrompt DEF Next

\* Only Dispatch makes a task.
LEMMA EncodeStarts ==
    ASSUME IInv, Prompt, [Next]_vars,
           NEW f \in Files, task[f] = "none", task'[f] = "encoding"
    PROVE  row[f] = "transcoding"
  <1>1. TypeOK
    BY DEF IInv
  <1>2. CASE Dispatch
    <2>1. Head(pending) \in ToSet(pending)
      BY <1>1, <1>2, TailElements DEF Dispatch, CanDispatch, TypeOK
    <2>2. f = Head(pending)
      BY <1>1, <1>2 DEF Dispatch, TypeOK
    <2> QED
      BY <2>1, <2>2 DEF Prompt, Transcoding
  <1>3. ASSUME Loop, ~Dispatch PROVE FALSE
    BY <1>1, <1>3 DEF Loop, Recv, TickScans, TickScanFails, TickEnqueues, Join, TypeOK
  <1>4. ASSUME Task PROVE FALSE
    BY <1>1, <1>4 DEF Task, Commit, LoseOutcome, End, TypeOK
  <1>5. ASSUME Drained \/ Crash PROVE FALSE
    BY <1>5 DEF Drained, Crash, Die
  <1>6. ASSUME Startup \/ Feed \/ TimerFires \/ Cancel \/ Restart \/ UNCHANGED vars PROVE FALSE
    BY <1>6 DEF Startup, Spawn, StartupSend, Feed, Approve, Requeue, Recheck, Deliver, LoseEvents,
                CatchUp, Read, Send, TimerFires, Cancel, Restart, vars
  <1> QED
    BY <1>2, <1>3, <1>4, <1>5, <1>6 DEF Next

\* When every workflow task sends the id right after it has read the row, no file is
\* handed to the worker that is not transcoding any more.  (run: the bias of the
\* select; process_file, which does not look at the row's state.)
THEOREM DispatchIsTimely == Senders = {} => (Spec => DispatchedWhileTranscoding)
  <1> SUFFICES ASSUME Senders = {} PROVE Spec => DispatchedWhileTranscoding
    OBVIOUS
  <1>1. IInv /\ Prompt /\ [Next]_vars => (IInv /\ Prompt)'
    BY NextIInv, NextPrompt
  <1>2. Init => IInv /\ Prompt
    BY InitIInv, InitPrompt
  <1>3. IInv /\ Prompt /\ [Next]_vars =>
          [ \A f \in Files : task[f] = "none" /\ task'[f] = "encoding"
                               => row[f] = "transcoding" ]_vars
    BY EncodeStarts
  <1> QED
    BY <1>1, <1>2, <1>3, PTL DEF Spec, DispatchedWhileTranscoding
=============================================================================
