---------------------------- MODULE ApprovalProofs ----------------------------
(***************************************************************************)
(* Approval for any seasons, movies, cap and bounds: its types, that the   *)
(* operator never has more batches than the cap, and that the feeder never *)
(* sleeps through work, but for the two exceptions NoLostWakeup names.     *)
(***************************************************************************)
EXTENDS Approval, FiniteSetTheorems, TLAPS

Keyed == {"pending", "transcoding"}

\* What InFlight counts.
SeasonsIn == {b \in Seasons : InState(b, Keyed) # {}}
FilesIn == UNION {InState(b, Keyed) : b \in Movies}

LEMMA Finite ==
    /\ \A S : S \subseteq Files \/ S \subseteq Seasons \/ S \subseteq Batches =>
              IsFiniteSet(S) /\ Cardinality(S) \in Nat
    /\ \A S, T : /\ S \subseteq T
                 /\ T \subseteq Files \/ T \subseteq Seasons \/ T \subseteq Batches
                 => Cardinality(S) <= Cardinality(T)
  <1>1. \A S : S \subseteq Files \/ S \subseteq Seasons \/ S \subseteq Batches =>
               IsFiniteSet(S) /\ Cardinality(S) \in Nat
    BY ApprovalAssumption, FS_Subset, FS_CardinalityType
       DEF ApprovalAssumption, Batches
  <1> QED
    BY <1>1, FS_Subset

LEMMA InFlightCounts ==
    /\ InFlight = Cardinality(SeasonsIn) + Cardinality(FilesIn)
    /\ InFlight' = Cardinality(SeasonsIn') + Cardinality(FilesIn')
    /\ SeasonsIn \subseteq Seasons /\ SeasonsIn' \subseteq Seasons
    /\ FilesIn \subseteq Files /\ FilesIn' \subseteq Files
    /\ InFlight \in Nat /\ InFlight' \in Nat
  <1>1. /\ InFlight = Cardinality(SeasonsIn) + Cardinality(FilesIn)
        /\ InFlight' = Cardinality(SeasonsIn') + Cardinality(FilesIn')
    BY DEF InFlight, SeasonsIn, FilesIn, Keyed
  <1>2. SeasonsIn \subseteq Seasons /\ SeasonsIn' \subseteq Seasons
    BY DEF SeasonsIn
  <1>3. FilesIn \subseteq Files /\ FilesIn' \subseteq Files
    BY DEF FilesIn, InState, FilesOf
  <1> QED
    BY <1>1, <1>2, <1>3, Finite

\* The more is in flight, the higher the count.
LEMMA InFlightGrows ==
    ASSUME \A f \in Files : row[f] \in Keyed => row'[f] \in Keyed
    PROVE  InFlight <= InFlight'
  <1>1. SeasonsIn \subseteq SeasonsIn'
    BY DEF SeasonsIn, InState, FilesOf
  <1>2. FilesIn \subseteq FilesIn'
    BY DEF FilesIn, InState, FilesOf
  <1>3. /\ Cardinality(SeasonsIn) <= Cardinality(SeasonsIn')
        /\ Cardinality(FilesIn) <= Cardinality(FilesIn')
    BY <1>1, <1>2, Finite, InFlightCounts
  <1> QED
    BY <1>3, Finite, InFlightCounts

LEMMA ReadyIs ==
    /\ Ready \subseteq ReadyKeys
    /\ \A s \in Seasons : s \in Ready <=>
         /\ \E f \in Files : BatchOf[f] = s /\ row[f] = "analyzed"
         /\ \A f \in Files : BatchOf[f] = s => row[f] \notin {"discovered", "pending"}
    /\ \A f \in Files : f \in Ready <=> BatchOf[f] \in Movies /\ row[f] = "analyzed"
  BY ApprovalAssumption
     DEF ApprovalAssumption, Ready, ReadyKeys, InState, FilesOf

LEMMA ReadyIsPrimed ==
    /\ Ready' \subseteq ReadyKeys
    /\ \A s \in Seasons : s \in Ready' <=>
         /\ \E f \in Files : BatchOf[f] = s /\ row'[f] = "analyzed"
         /\ \A f \in Files : BatchOf[f] = s => row'[f] \notin {"discovered", "pending"}
    /\ \A f \in Files : f \in Ready' <=> BatchOf[f] \in Movies /\ row'[f] = "analyzed"
  BY ApprovalAssumption
     DEF ApprovalAssumption, Ready, ReadyKeys, InState, FilesOf

\* Sets of keys are finite, too.
LEMMA KeysFinite ==
    /\ \A S : S \subseteq ReadyKeys => IsFiniteSet(S) /\ Cardinality(S) \in Nat
    /\ \A S, T : S \subseteq T /\ T \subseteq ReadyKeys =>
                 Cardinality(S) <= Cardinality(T)
  <1>1. IsFiniteSet(Files) /\ IsFiniteSet(Seasons)
    BY Finite
  <1>2. IsFiniteSet(ReadyKeys)
    BY <1>1, FS_Union DEF ReadyKeys
  <1>3. \A S : S \subseteq ReadyKeys => IsFiniteSet(S) /\ Cardinality(S) \in Nat
    BY <1>2, FS_Subset, FS_CardinalityType
  <1> QED
    BY <1>3, FS_Subset

-----------------------------------------------------------------------------
(* Types *)

LEMMA KeyIsBatch == \A r \in ReadyKeys : KeyOf(r) \in Batches
  BY ApprovalAssumption DEF ApprovalAssumption, ReadyKeys, KeyOf, Batches

FeederType ==
    [pc : {"count", "fetch", "ask", "publish", "asleep"}, slots : 0..MaxPending,
     keys : SUBSET ReadyKeys, batch : SUBSET Batches]

LEMMA FaultTyped == TypeOK /\ Fault => faults' \in 0..MaxFaults
  BY ApprovalAssumption DEF ApprovalAssumption, TypeOK, Fault

LEMMA InitTyped == Init => TypeOK
  <1> SUFFICES ASSUME Init
               PROVE  TypeOK
    OBVIOUS
  <1> USE ApprovalAssumption DEF ApprovalAssumption
  <1>1. feeder \in FeederType
    BY DEF Init, FeederType
  <1>2. row \in [Files -> States]
    BY DEF Init, States
  <1>3. request \in [Batches -> {"none", "open", "spent"}]
    BY DEF Init
  <1>4. faults \in 0..MaxFaults /\ answers \subseteq Answers
    BY DEF Init
  <1> QED
    BY <1>1, <1>2, <1>3, <1>4 DEF Init, TypeOK, FeederType

LEMMA PipelineTyped == TypeOK /\ Pipeline => TypeOK'
  <1> SUFFICES ASSUME TypeOK, NEW f \in Files,
                      Discover(f) \/ Analyze(f) \/ Transcode(f) \/ Recheck(f)
               PROVE  TypeOK'
    BY DEF Pipeline
  <1>1. CASE Discover(f)
    BY <1>1 DEF Discover, Become, TypeOK, States
  <1>2. CASE Analyze(f)
    BY <1>2 DEF Analyze, Become, TypeOK, States
  <1>3. CASE Transcode(f)
    BY <1>3 DEF Transcode, Become, TypeOK, States
  <1>4. CASE Recheck(f)
    BY <1>4 DEF Recheck, Become, TypeOK, States
  <1> QED
    BY <1>1, <1>2, <1>3, <1>4

LEMMA AsksTyped ==
    ASSUME TypeOK, NEW r \in ReadyKeys, TopUpAsks(r)
    PROVE  TypeOK'
  <1>1. KeyOf(r) \in Batches
    BY KeyIsBatch
  <1>2. row' \in [Files -> States]
    BY DEF TopUpAsks, TypeOK, States
  <1>3. feeder' \in [pc : {"count", "fetch", "ask", "publish", "asleep"},
                     slots : 0..MaxPending, keys : SUBSET ReadyKeys,
                     batch : SUBSET Batches]
    BY <1>1 DEF TopUpAsks, TypeOK
  <1> QED
    BY <1>2, <1>3 DEF TopUpAsks, TypeOK

LEMMA TopUpTyped == TypeOK /\ TopUp => TypeOK'
  <1> SUFFICES ASSUME TypeOK, TopUp
               PROVE  TypeOK'
    OBVIOUS
  <1> USE ApprovalAssumption DEF ApprovalAssumption
  <1>1. CASE TopUpCounts
    <2>1. InFlight \in Nat
      BY InFlightCounts
    <2>2. feeder \in FeederType
      BY DEF TypeOK, FeederType
    <2>3. InFlight < MaxPending => MaxPending - InFlight \in 0..MaxPending
      BY <2>1
    <2>4. feeder' \in FeederType
      BY <1>1, <2>2, <2>3 DEF TopUpCounts, Goto, FeederType
    <2> QED
      BY <1>1, <2>4 DEF TopUpCounts, TypeOK, FeederType
  <1>2. CASE TopUpFetches
    <2>1. PICK keys \in SUBSET Ready :
            feeder' = [feeder EXCEPT !.pc = "ask", !.slots = 0, !.keys = keys]
      BY <1>2 DEF TopUpFetches
    <2>2. keys \in SUBSET ReadyKeys
      BY <2>1, ReadyIs
    <2>3. 0 \in 0..MaxPending
      OBVIOUS
    <2>4. feeder' \in FeederType
      BY <2>1, <2>2, <2>3 DEF TypeOK, FeederType
    <2> QED
      BY <1>2, <2>4 DEF TopUpFetches, TypeOK, FeederType
  <1>3. CASE TopUpEnds
    BY <1>3 DEF TopUpEnds, Goto, TypeOK
  <1>4. CASE FeederWakes
    BY <1>4 DEF FeederWakes, Goto, TypeOK
  <1>5. CASE TopUpFails
    <2>1. 0 \in 0..MaxPending
      OBVIOUS
    <2>2. feeder' \in FeederType
      BY <1>5, <2>1 DEF TopUpFails, TypeOK, FeederType
    <2> QED
      BY <1>5, <2>2, FaultTyped DEF TopUpFails, TypeOK, FeederType
  <1>6. CASE PublishFails
    <2>1. feeder' \in FeederType
      BY <1>6 DEF PublishFails, TypeOK, FeederType
    <2> QED
      BY <1>6, <2>1, FaultTyped DEF PublishFails, TypeOK, FeederType
  <1>7. ASSUME NEW r \in ReadyKeys, TopUpAsks(r) PROVE TypeOK'
    BY <1>7, AsksTyped
  <1>8. ASSUME NEW r \in ReadyKeys, TopUpBatchFails(r) PROVE TypeOK'
    <2>1. feeder' \in FeederType
      BY <1>8 DEF TopUpBatchFails, TypeOK, FeederType
    <2> QED
      BY <1>8, <2>1, FaultTyped DEF TopUpBatchFails, TypeOK, FeederType
  <1>9. ASSUME NEW b \in Batches, TopUpPublishes(b) PROVE TypeOK'
    BY <1>9 DEF TopUpPublishes, TypeOK
  <1> QED
    BY <1>1, <1>2, <1>3, <1>4, <1>5, <1>6, <1>7, <1>8, <1>9 DEF TopUp

LEMMA HandleTyped ==
    ASSUME TypeOK, NEW a \in answers, Handle(a)
    PROVE  TypeOK'
  <1>1. a.batch \in Batches
    BY DEF TypeOK, Answers
  <1>2. row' \in [Files -> States]
    BY DEF Handle, TypeOK, States
  <1>3. owed' \subseteq Files
    BY DEF Handle, TypeOK, Pending, InState, FilesOf
  <1>4. answers' \subseteq Answers
    <2>1. \A x \in Answers : [x EXCEPT !.spent = TRUE] \in Answers
      BY DEF Answers
    <2>2. Spend(answers \ {a}, a.batch) \subseteq Answers
      BY <2>1 DEF Spend, TypeOK
    <2> QED
      BY <2>2 DEF Handle, TypeOK
  <1>5. request' \in [Batches -> {"none", "open", "spent"}]
    BY <1>1 DEF Handle, TypeOK
  <1>6. permit' = TRUE /\ UNCHANGED <<feeder, swallowed, faults>>
    BY DEF Handle
  <1> QED
    BY <1>2, <1>3, <1>4, <1>5, <1>6 DEF TypeOK

LEMMA TypeStep == TypeOK /\ [Next]_vars => TypeOK'
  <1> SUFFICES ASSUME TypeOK, [Next]_vars
               PROVE  TypeOK'
    OBVIOUS
  <1>1. CASE Pipeline
    BY <1>1, PipelineTyped
  <1>2. ASSUME NEW f \in Files, Wake(f) PROVE TypeOK'
    BY <1>2 DEF Wake, TypeOK
  <1>3. CASE LoseEvents
    BY <1>3, FaultTyped DEF LoseEvents, TypeOK
  <1>4. CASE TopUp
    BY <1>4, TopUpTyped
  <1>5. ASSUME NEW b \in Batches, Republish(b) PROVE TypeOK'
    BY <1>5 DEF Republish, TypeOK
  <1>6. ASSUME NEW b \in Batches, NEW approved \in BOOLEAN, Submit(b, approved)
        PROVE  TypeOK'
    <2>1. [batch |-> b, approved |-> approved, spent |-> request[b] = "spent"]
            \in Answers
      BY <1>6, Zenon DEF Answers
    <2>2. answers' \subseteq Answers
      BY <1>6, <2>1 DEF Submit, TypeOK
    <2> QED
      BY <1>6, <2>2 DEF Submit, TypeOK
  <1>7. ASSUME NEW a \in answers, Handle(a) PROVE TypeOK'
    BY <1>7, HandleTyped
  <1>8. ASSUME NEW a \in answers, LoseAnswer(a) PROVE TypeOK'
    BY <1>8, FaultTyped DEF LoseAnswer, TypeOK
  <1>9. CASE UNCHANGED vars
    BY <1>9 DEF vars, TypeOK
  <1> QED
    BY <1>1, <1>2, <1>3, <1>4, <1>5, <1>6, <1>7, <1>8, <1>9 DEF Next

\* Every variable keeps its type, the slots of a round their range.
THEOREM TypeCorrect == Spec => []TypeOK
  BY InitTyped, TypeStep, PTL DEF Spec

-----------------------------------------------------------------------------
(* The cap *)

\* Keys are held within a round's asking only.
RoundsClear == feeder.pc \in {"count", "fetch", "asleep"} => feeder.keys = {}

LEMMA InitClear == Init => RoundsClear
  BY DEF Init, RoundsClear

LEMMA ClearStep == TypeOK /\ RoundsClear /\ [Next]_vars => RoundsClear'
  <1> SUFFICES ASSUME TypeOK, RoundsClear, [Next]_vars
               PROVE  RoundsClear'
    OBVIOUS
  <1> USE DEF TypeOK, RoundsClear
  <1>1. CASE UNCHANGED feeder
    BY <1>1
  <1>2. CASE TopUp
    <2>1. CASE TopUpCounts
      BY <2>1 DEF TopUpCounts, Goto
    <2>2. CASE TopUpFetches
      BY <2>2 DEF TopUpFetches
    <2>3. CASE TopUpEnds
      BY <2>3 DEF TopUpEnds, Goto
    <2>4. CASE FeederWakes
      BY <2>4 DEF FeederWakes, Goto
    <2>5. CASE TopUpFails
      BY <2>5 DEF TopUpFails
    <2>6. CASE PublishFails
      BY <2>6 DEF PublishFails
    <2>7. ASSUME NEW r \in ReadyKeys, TopUpAsks(r) PROVE RoundsClear'
      BY <2>7 DEF TopUpAsks
    <2>8. ASSUME NEW r \in ReadyKeys, TopUpBatchFails(r) PROVE RoundsClear'
      BY <2>8 DEF TopUpBatchFails
    <2>9. ASSUME NEW b \in Batches, TopUpPublishes(b) PROVE RoundsClear'
      BY <2>9 DEF TopUpPublishes
    <2> QED
      BY <1>2, <2>1, <2>2, <2>3, <2>4, <2>5, <2>6, <2>7, <2>8, <2>9 DEF TopUp
  <1>3. CASE ~TopUp
    BY <1>1, <1>3 DEF Next, vars, Pipeline, Discover, Analyze, Transcode, Recheck,
       Wake, LoseEvents, Republish, Submit, Handle, LoseAnswer
  <1> QED
    BY <1>2, <1>3

LEMMA BeforeIs ==
    /\ Before \subseteq Batches /\ Before' \subseteq Batches
    /\ \A b \in Batches :
         /\ b \in Before <=> \E f \in Files : BatchOf[f] = b /\ row[f] = "pending"
         /\ b \in Before' <=> \E f \in Files : BatchOf[f] = b /\ row'[f] = "pending"
    /\ IsFiniteSet(Before) /\ Cardinality(Before) \in Nat
    /\ IsFiniteSet(Before') /\ Cardinality(Before') \in Nat
  <1>1. Before \subseteq Batches /\ Before' \subseteq Batches
    BY DEF Before
  <1>2. \A b \in Batches :
         /\ b \in Before <=> \E f \in Files : BatchOf[f] = b /\ row[f] = "pending"
         /\ b \in Before' <=> \E f \in Files : BatchOf[f] = b /\ row'[f] = "pending"
    BY DEF Before, Pending, InState, FilesOf
  <1> QED
    BY <1>1, <1>2, Finite

\* A season with a pending file is in flight, and so is one file at least of each
\* movie with one.
LEMMA BeforeInFlight == Cardinality(Before) <= InFlight
  <1> USE ApprovalAssumption DEF ApprovalAssumption
  <1> DEFINE S == Before \intersect Seasons
             M == Before \intersect Movies
             P == {f \in FilesIn : row[f] = "pending"}
             h == [f \in P |-> BatchOf[f]]
  <1>1. S \subseteq SeasonsIn
    BY BeforeIs DEF SeasonsIn, InState, FilesOf, Keyed, Batches
  <1>2. Cardinality(S) <= Cardinality(SeasonsIn) /\ IsFiniteSet(S)
    BY <1>1, Finite, InFlightCounts
  <1>3. \A f : f \in P <=> f \in Files /\ BatchOf[f] \in Movies /\ row[f] = "pending"
    BY DEF FilesIn, InState, FilesOf, Keyed
  <1>4. P \subseteq FilesIn /\ IsFiniteSet(P) /\ Cardinality(P) <= Cardinality(FilesIn)
    BY Finite, InFlightCounts
  <1>5. h \in Surjection(P, M)
    <2>1. h \in [P -> M]
      BY <1>3, BeforeIs DEF Batches
    <2>2. \A b \in M : \E f \in P : h[f] = b
      <3> SUFFICES ASSUME NEW b \in M
                   PROVE  \E f \in P : h[f] = b
        OBVIOUS
      <3>1. PICK f \in Files : BatchOf[f] = b /\ row[f] = "pending"
        BY BeforeIs
      <3>2. f \in P
        BY <1>3, <3>1
      <3> QED
        BY <3>1, <3>2
    <2> QED
      BY <2>1, <2>2 DEF Surjection
  <1>6. IsFiniteSet(M) /\ Cardinality(M) <= Cardinality(P)
    <2> HIDE DEF h, P, M
    <2> QED
      BY <1>4, <1>5, FS_Surjection
  <1>7. Before = S \union M /\ S \intersect M = {}
    BY BeforeIs DEF Batches
  <1>8. Cardinality(Before) = Cardinality(S) + Cardinality(M)
    <2> HIDE DEF S, M, P, h
    <2>1. Cardinality(S) \in Nat /\ Cardinality(M) \in Nat
      BY <1>2, <1>6, FS_CardinalityType
    <2>2. Cardinality(S \intersect M) = 0
      BY <1>7, FS_EmptySet
    <2>3. Cardinality(S \union M)
            = Cardinality(S) + Cardinality(M) - Cardinality(S \intersect M)
      BY <1>2, <1>6, FS_Union
    <2> QED
      BY <1>7, <2>1, <2>2, <2>3
  <1> HIDE DEF S, M, P
  <1>9. /\ Cardinality(S) \in Nat /\ Cardinality(M) \in Nat /\ Cardinality(P) \in Nat
        /\ Cardinality(SeasonsIn) \in Nat /\ Cardinality(FilesIn) \in Nat
    BY <1>2, <1>4, <1>6, FS_CardinalityType, Finite, InFlightCounts
  <1> QED
    BY <1>2, <1>4, <1>6, <1>8, <1>9, InFlightCounts

LEMMA MinOfTwo ==
    ASSUME NEW a \in Nat, NEW b \in Nat
    PROVE  /\ Min({a, b}) <= a
           /\ Min({a, b}) = a \/ Min({a, b}) = b
  <1>1. \E x \in {a, b} : \A y \in {a, b} : x <= y
    BY SMT
  <1>2. /\ Min({a, b}) \in {a, b}
        /\ \A y \in {a, b} : Min({a, b}) <= y
    BY <1>1, Zenon DEF Min
  <1> QED
    BY <1>2

\* A step that leaves the feeder its slots and keys and makes nothing pending.
LEMMA QuietKeepsCap ==
    ASSUME PendingWithinCap, UNCHANGED <<feeder.slots, feeder.keys>>,
           TypeOK, TypeOK', MaxPending \in Nat,
           \A f \in Files : row'[f] = "pending" => row[f] = "pending"
    PROVE  PendingWithinCap'
  <1>1. Before' \subseteq Before
    BY BeforeIs
  <1>2. Cardinality(Before') <= Cardinality(Before)
    BY <1>1, BeforeIs, Finite
  <1>3. feeder.slots \in Nat /\ Cardinality(feeder.keys) \in Nat
    BY KeysFinite DEF TypeOK
  <1> QED
    BY <1>2, <1>3, BeforeIs DEF PendingWithinCap

LEMMA AsksKeepsCap ==
    ASSUME TypeOK, PendingWithinCap, MaxPending \in Nat,
           NEW r \in ReadyKeys, TopUpAsks(r)
    PROVE  PendingWithinCap'
  <1>1. Before' \subseteq Before \union {KeyOf(r)}
    BY BeforeIs DEF TopUpAsks, InState, FilesOf
  <1>2. /\ IsFiniteSet(Before \union {KeyOf(r)})
        /\ Cardinality(Before \union {KeyOf(r)}) <= Cardinality(Before) + 1
        /\ Cardinality(Before \union {KeyOf(r)}) \in Nat
    <2>1. /\ IsFiniteSet(Before \union {KeyOf(r)})
          /\ \/ Cardinality(Before \union {KeyOf(r)}) = Cardinality(Before)
             \/ Cardinality(Before \union {KeyOf(r)}) = Cardinality(Before) + 1
      BY BeforeIs, FS_AddElement
    <2> QED
      BY <2>1, BeforeIs
  <1>3. Cardinality(Before') <= Cardinality(Before) + 1
    BY <1>1, <1>2, BeforeIs, FS_Subset
  <1>4. feeder'.slots = feeder.slots /\ feeder'.keys = feeder.keys \ {r}
    BY DEF TopUpAsks, TypeOK
  <1>5. IsFiniteSet(feeder.keys) /\ Cardinality(feeder.keys) \in Nat
    BY KeysFinite DEF TypeOK
  <1>6. Cardinality(feeder'.keys) = Cardinality(feeder.keys) - 1
    BY <1>4, <1>5, FS_RemoveElement DEF TopUpAsks
  <1>7. feeder.slots \in Nat
    BY DEF TypeOK
  <1> QED
    BY <1>3, <1>4, <1>5, <1>6, <1>7, BeforeIs DEF PendingWithinCap

LEMMA FetchKeepsCap ==
    ASSUME TypeOK, RoundsClear, PendingWithinCap, MaxPending \in Nat, TopUpFetches
    PROVE  PendingWithinCap'
  <1>1. PICK keys \in SUBSET Ready :
          /\ Cardinality(keys) = Min({feeder.slots, Cardinality(Ready)})
          /\ feeder' = [feeder EXCEPT !.pc = "ask", !.slots = 0, !.keys = keys]
    BY DEF TopUpFetches
  <1>2. feeder.slots \in Nat /\ Cardinality(Ready) \in Nat
    BY ReadyIs, KeysFinite DEF TypeOK
  <1>3. Cardinality(keys) <= feeder.slots /\ Cardinality(keys) \in Nat
    BY <1>1, <1>2, MinOfTwo, ReadyIs, KeysFinite
  <1>4. feeder'.slots = 0 /\ feeder'.keys = keys
    BY <1>1 DEF TypeOK
  <1>5. Cardinality(feeder.keys) = 0
    BY FS_EmptySet DEF RoundsClear, TopUpFetches
  <1>6. UNCHANGED row
    BY DEF TopUpFetches
  <1>7. Before' = Before
    BY <1>6, BeforeIs
  <1> QED
    BY <1>2, <1>3, <1>4, <1>5, <1>7, BeforeIs DEF PendingWithinCap

LEMMA CountKeepsCap ==
    ASSUME TypeOK, RoundsClear, PendingWithinCap, MaxPending \in Nat, TopUpCounts
    PROVE  PendingWithinCap'
  <1>1. UNCHANGED row
    BY DEF TopUpCounts
  <1>2. Before' = Before
    BY <1>1, BeforeIs
  <1>3. feeder.keys = {} /\ feeder'.keys = {}
    BY DEF RoundsClear, TopUpCounts, Goto, TypeOK
  <1>4. Cardinality(feeder'.keys) = 0 /\ Cardinality(feeder.keys) = 0
    BY <1>3, FS_EmptySet
  <1>5. CASE InFlight < MaxPending
    <2>1. feeder'.slots = MaxPending - InFlight
      BY <1>5 DEF TopUpCounts, TypeOK
    <2> QED
      BY <1>2, <1>4, <2>1, BeforeIs, BeforeInFlight, InFlightCounts
         DEF PendingWithinCap
  <1>6. CASE ~(InFlight < MaxPending)
    <2>1. feeder'.slots = feeder.slots
      BY <1>6 DEF TopUpCounts, Goto, TypeOK
    <2> QED
      BY <1>2, <1>4, <2>1 DEF PendingWithinCap
  <1> QED
    BY <1>5, <1>6

LEMMA InitCap == Init => PendingWithinCap
  <1> SUFFICES ASSUME Init
               PROVE  PendingWithinCap
    OBVIOUS
  <1>1. Before = {}
    BY BeforeIs DEF Init
  <1>2. Cardinality(Before) = 0 /\ Cardinality(feeder.keys) = 0
    BY <1>1, FS_EmptySet DEF Init
  <1> QED
    BY <1>2, ApprovalAssumption DEF ApprovalAssumption, Init, PendingWithinCap

LEMMA CapStep ==
    TypeOK /\ RoundsClear /\ PendingWithinCap /\ [Next]_vars => PendingWithinCap'
  <1> SUFFICES ASSUME TypeOK, RoundsClear, PendingWithinCap, [Next]_vars
               PROVE  PendingWithinCap'
    OBVIOUS
  <1>0. MaxPending \in Nat /\ TypeOK'
    BY ApprovalAssumption, TypeStep DEF ApprovalAssumption
  <1>1. CASE UNCHANGED feeder /\ \A f \in Files : row'[f] = "pending" => row[f] = "pending"
    BY <1>0, <1>1, QuietKeepsCap
  <1>2. CASE Pipeline
    BY <1>1, <1>2 DEF Pipeline, Discover, Analyze, Transcode, Recheck, Become, TypeOK
  <1>3. ASSUME NEW a \in answers, Handle(a) PROVE PendingWithinCap'
    BY <1>1, <1>3 DEF Handle
  <1>4. CASE TopUp
    <2>1. CASE TopUpCounts
      BY <1>0, <2>1, CountKeepsCap
    <2>2. CASE TopUpFetches
      BY <1>0, <2>2, FetchKeepsCap
    <2>3. CASE TopUpEnds \/ FeederWakes \/ PublishFails
      <3>1. UNCHANGED <<row, feeder.slots, feeder.keys>>
        BY <2>3 DEF TopUpEnds, FeederWakes, PublishFails, Goto, TypeOK
      <3> QED
        BY <1>0, <3>1, QuietKeepsCap
    <2>4. CASE TopUpFails
      <3>1. UNCHANGED row /\ feeder'.slots = 0 /\ feeder'.keys = feeder.keys
        BY <2>4 DEF TopUpFails, TypeOK
      <3>2. Before' = Before
        BY <3>1, BeforeIs
      <3>3. feeder.slots \in Nat /\ Cardinality(feeder.keys) \in Nat
        BY KeysFinite DEF TypeOK
      <3> QED
        BY <1>0, <3>1, <3>2, <3>3, BeforeIs DEF PendingWithinCap
    <2>5. ASSUME NEW r \in ReadyKeys, TopUpAsks(r) PROVE PendingWithinCap'
      BY <1>0, <2>5, AsksKeepsCap
    <2>6. ASSUME NEW r \in ReadyKeys, TopUpBatchFails(r) PROVE PendingWithinCap'
      <3>1. /\ UNCHANGED row /\ feeder'.slots = feeder.slots
            /\ feeder'.keys \subseteq feeder.keys
        BY <2>6 DEF TopUpBatchFails, TypeOK
      <3>2. Before' = Before
        BY <3>1, BeforeIs
      <3>3. /\ feeder.slots \in Nat /\ Cardinality(feeder.keys) \in Nat
            /\ Cardinality(feeder'.keys) \in Nat
            /\ Cardinality(feeder'.keys) <= Cardinality(feeder.keys)
        BY <1>0, <3>1, KeysFinite DEF TypeOK
      <3> QED
        BY <1>0, <3>1, <3>2, <3>3, BeforeIs DEF PendingWithinCap
    <2>7. ASSUME NEW b \in Batches, TopUpPublishes(b) PROVE PendingWithinCap'
      <3>1. UNCHANGED <<row, feeder.slots, feeder.keys>>
        BY <2>7 DEF TopUpPublishes, TypeOK
      <3> QED
        BY <1>0, <3>1, QuietKeepsCap
    <2> QED
      BY <1>4, <2>1, <2>2, <2>3, <2>4, <2>5, <2>6, <2>7 DEF TopUp
  <1>5. CASE UNCHANGED <<row, feeder>>
    BY <1>1, <1>5
  <1> QED
    BY <1>2, <1>3, <1>4, <1>5
       DEF Next, vars, Wake, LoseEvents, Republish, Submit, LoseAnswer

\* The operator never has more batches to decide than the cap, whatever answers,
\* encodes and re-verifies come between top_up's queries.  (top_up.)
THEOREM NeverBeyondCap == Spec => []PendingWithinCap
  <1> DEFINE IInv == TypeOK /\ RoundsClear /\ PendingWithinCap
  <1>1. Init => IInv
    BY InitTyped, InitClear, InitCap
  <1>2. IInv /\ [Next]_vars => IInv'
    BY TypeStep, ClearStep, CapStep
  <1>3. IInv => PendingWithinCap
    OBVIOUS
  <1> QED
    BY <1>1, <1>2, <1>3, PTL DEF Spec
-----------------------------------------------------------------------------
(* The feeder's sleep *)

\* What will wake the feeder again, or excuses that nothing does.
Late ==
    \/ permit \/ owed # {} \/ swallowed \/ faults # 0
    \/ \E f \in Files : row[f] = "discovered"
    \/ \E s \in Seasons : Pending(s) # {} /\ InState(s, {"transcoding"}) # {}

\* What a round leaves out is in flight already, or comes late.
RoundCovers ==
    /\ feeder.pc = "fetch" => Late \/ InFlight + feeder.slots >= MaxPending
    /\ feeder.pc \in {"ask", "publish"} =>
         \/ Late
         \/ InFlight + Cardinality(feeder.keys \intersect Ready) >= MaxPending
         \/ Ready \subseteq feeder.keys
    /\ feeder.pc = "asleep" => Late \/ InFlight >= MaxPending \/ Ready = {}

LEMMA LateIs ==
    /\ Late <=>
         \/ permit \/ owed # {} \/ swallowed \/ faults # 0
         \/ \E f \in Files : row[f] = "discovered"
         \/ \E f, g \in Files : /\ BatchOf[f] = BatchOf[g] /\ BatchOf[f] \in Seasons
                                /\ row[f] = "pending" /\ row[g] = "transcoding"
    /\ Late' <=>
         \/ permit' \/ owed' # {} \/ swallowed' \/ faults' # 0
         \/ \E f \in Files : row'[f] = "discovered"
         \/ \E f, g \in Files : /\ BatchOf[f] = BatchOf[g] /\ BatchOf[f] \in Seasons
                                /\ row'[f] = "pending" /\ row'[g] = "transcoding"
  <1>1. \A s \in Seasons :
          /\ Pending(s) # {} <=> \E f \in Files : BatchOf[f] = s /\ row[f] = "pending"
          /\ InState(s, {"transcoding"}) # {}
               <=> \E f \in Files : BatchOf[f] = s /\ row[f] = "transcoding"
          /\ Pending(s)' # {} <=> \E f \in Files : BatchOf[f] = s /\ row'[f] = "pending"
          /\ InState(s, {"transcoding"})' # {}
               <=> \E f \in Files : BatchOf[f] = s /\ row'[f] = "transcoding"
    BY DEF Pending, InState, FilesOf
  <1> QED
    BY <1>1 DEF Late

\* Rows that stay discovered, pending and transcoding keep Late.
LEMMA LateRows ==
    ASSUME Late, UNCHANGED <<permit, owed, swallowed, faults>>,
           \A f \in Files : row[f] \in {"discovered", "pending", "transcoding"}
                            => row'[f] = row[f]
    PROVE  Late'
  BY LateIs

LEMMA FaultIsLate == TypeOK /\ Fault => Late'
  BY ApprovalAssumption DEF ApprovalAssumption, TypeOK, Fault, Late

\* The steps that may leave the feeder nothing to wait for.
LEMMA StepsBeforeLate ==
    ASSUME TypeOK, [Next]_vars, ~Late'
    PROVE  \/ FeederWakes
           \/ /\ ~Late
              /\ \/ UNCHANGED <<row, feeder>>
                 \/ \E f \in Files : Recheck(f)
                 \/ TopUpCounts \/ TopUpFetches \/ TopUpEnds
                 \/ \E r \in ReadyKeys : TopUpAsks(r)
                 \/ \E b \in Batches : TopUpPublishes(b)
  <1>1. ASSUME NEW f \in Files, Discover(f) PROVE FALSE
    BY <1>1, LateIs DEF Discover, Become, TypeOK
  <1>2. ASSUME NEW f \in Files, Analyze(f) \/ Transcode(f) PROVE FALSE
    BY <1>2, LateIs DEF Analyze, Transcode
  <1>3. ASSUME NEW f \in Files, Wake(f) PROVE FALSE
    BY <1>3, LateIs DEF Wake
  <1>4. ASSUME NEW a \in answers, Handle(a) PROVE FALSE
    BY <1>4, LateIs DEF Handle
  <1>5. ~Fault
    BY FaultIsLate
  <1>6. ASSUME NEW f \in Files, Recheck(f) PROVE ~Late
    <2>1. \A g \in Files : row[g] \in {"discovered", "pending", "transcoding"}
                           => row'[g] = row[g]
      BY <1>6 DEF Recheck, Become, TypeOK
    <2> QED
      BY <1>6, <2>1, LateRows DEF Recheck
  <1>7. ASSUME NEW r \in ReadyKeys, TopUpAsks(r) PROVE ~Late
    <2>1. \A g \in Files : row[g] \in {"discovered", "pending", "transcoding"}
                           => row'[g] = row[g]
      BY <1>7 DEF TopUpAsks, InState, FilesOf
    <2> QED
      BY <1>7, <2>1, LateRows DEF TopUpAsks
  <1>8. UNCHANGED <<row, permit, owed, swallowed, faults>> => ~Late
    BY LateRows
  <1>9. CASE Pipeline
    BY <1>1, <1>2, <1>6, <1>9 DEF Pipeline
  <1>10. CASE TopUp
    BY <1>5, <1>7, <1>8, <1>10 DEF TopUp, TopUpCounts, TopUpFetches, TopUpEnds,
       TopUpPublishes, TopUpFails, PublishFails, TopUpBatchFails
  <1>11. CASE UNCHANGED <<row, feeder, permit, owed, swallowed, faults>>
    BY <1>8, <1>11
  <1> QED
    BY <1>3, <1>4, <1>5, <1>9, <1>10, <1>11
       DEF Next, vars, LoseEvents, Republish, Submit, LoseAnswer

\* A step that leaves the rows alone leaves the counts alone.
LEMMA SameRows ==
    ASSUME \A f \in Files : row'[f] = row[f]
    PROVE  Ready' = Ready /\ InFlight' = InFlight
  <1>1. Ready' = Ready
    BY DEF Ready, InState, FilesOf
  <1>2. InFlight' = InFlight
    BY DEF InFlight, InState, FilesOf
  <1> QED
    BY <1>1, <1>2

LEMMA AskLeavesReady ==
    ASSUME NEW r \in ReadyKeys, TopUpAsks(r)
    PROVE  /\ Ready' \subseteq Ready \ {r}
           /\ \A f \in Files : row[f] \in Keyed => row'[f] \in Keyed
  <1> USE ApprovalAssumption DEF ApprovalAssumption
  <1>1. \A f \in Files : row'[f] = IF BatchOf[f] = KeyOf(r) /\ row[f] = "analyzed"
                                  THEN "pending" ELSE row[f]
    BY DEF TopUpAsks, InState, FilesOf
  <1>2. \A f \in Files : row[f] \in Keyed => row'[f] \in Keyed
    BY <1>1 DEF Keyed
  <1>3. \A s \in Seasons : s \in Ready' => s \in Ready /\ s # KeyOf(r)
    BY <1>1, ReadyIs, ReadyIsPrimed
  <1>4. \A f \in Files : f \in Ready' => f \in Ready /\ BatchOf[f] # KeyOf(r)
    BY <1>1, ReadyIs, ReadyIsPrimed
  <1>5. Ready' \subseteq Seasons \union Files
    BY ReadyIsPrimed DEF ReadyKeys
  <1>6. r \notin Ready'
    BY <1>3, <1>4 DEF ReadyKeys, KeyOf
  <1> QED
    BY <1>2, <1>3, <1>4, <1>5, <1>6
LEMMA SumBound ==
    ASSUME NEW S, NEW T, IsFiniteSet(S), IsFiniteSet(T)
    PROVE  /\ Cardinality(S \union T) <= Cardinality(S) + Cardinality(T)
           /\ S \intersect T = {} =>
                Cardinality(S \union T) = Cardinality(S) + Cardinality(T)
  <1>1. /\ IsFiniteSet(S \union T) /\ IsFiniteSet(S \intersect T)
        /\ Cardinality(S \union T)
             = Cardinality(S) + Cardinality(T) - Cardinality(S \intersect T)
    BY FS_Union, FS_Intersection
  <1>2. /\ Cardinality(S) \in Nat /\ Cardinality(T) \in Nat
        /\ Cardinality(S \intersect T) \in Nat
    BY <1>1, FS_CardinalityType
  <1>3. S \intersect T = {} => Cardinality(S \intersect T) = 0
    BY FS_EmptySet
  <1> QED
    BY <1>1, <1>2, <1>3

\* Asking about a season puts it in flight: it was not, or the request is late.
LEMMA AskSeasonCounts ==
    ASSUME TypeOK, ~Late', NEW r \in ReadyKeys, TopUpAsks(r), KeyOf(r) \in Seasons
    PROVE  InFlight' + Cardinality(feeder'.keys \intersect Ready')
             >= InFlight + Cardinality(feeder.keys \intersect Ready)
  <1> USE ApprovalAssumption DEF ApprovalAssumption
  <1> DEFINE s == KeyOf(r)
             X == feeder.keys \intersect Ready
             Y == feeder'.keys \intersect Ready'
  <1>1. \A f \in Files : row'[f] = IF BatchOf[f] = s /\ row[f] = "analyzed"
                                  THEN "pending" ELSE row[f]
    BY DEF TopUpAsks, InState, FilesOf
  <1>2. feeder'.keys = feeder.keys \ {r}
    BY DEF TopUpAsks, TypeOK
  <1>3. r \in Ready => r = s
    BY ReadyIs DEF ReadyKeys, KeyOf
  <1>4. X \ {s} \subseteq Y
    <2>1. \A t \in Seasons : t \in Ready /\ t # s => t \in Ready'
      BY <1>1, ReadyIs, ReadyIsPrimed
    <2>2. \A f \in Files : f \in Ready => f \in Ready'
      BY <1>1, ReadyIs, ReadyIsPrimed
    <2>3. Ready \subseteq Seasons \union Files
      BY ReadyIs DEF ReadyKeys
    <2> QED
      BY <1>2, <1>3, <2>1, <2>2, <2>3
  <1>5. SeasonsIn \subseteq SeasonsIn' /\ FilesIn \subseteq FilesIn'
    BY AskLeavesReady DEF SeasonsIn, FilesIn, InState, FilesOf
  <1>6. /\ X \subseteq ReadyKeys /\ Y \subseteq ReadyKeys
        /\ IsFiniteSet(X) /\ IsFiniteSet(Y)
        /\ Cardinality(X) \in Nat /\ Cardinality(Y) \in Nat
        /\ Cardinality(X \ {s}) <= Cardinality(Y)
    BY <1>4, ReadyIs, ReadyIsPrimed, KeysFinite
  <1>7. /\ Cardinality(SeasonsIn) \in Nat /\ Cardinality(SeasonsIn') \in Nat
        /\ Cardinality(FilesIn) \in Nat /\ Cardinality(FilesIn') \in Nat
        /\ Cardinality(FilesIn) <= Cardinality(FilesIn')
        /\ Cardinality(SeasonsIn) <= Cardinality(SeasonsIn')
        /\ IsFiniteSet(SeasonsIn)
    BY <1>5, Finite, InFlightCounts
  <1>8. CASE s \notin X
    <2>1. Cardinality(X) <= Cardinality(Y)
      BY <1>4, <1>6, <1>8, KeysFinite
    <2> QED
      BY <1>6, <1>7, <2>1, InFlightCounts
  <1>9. CASE s \in X
    <2>1. PICK f \in Files : BatchOf[f] = s /\ row[f] = "analyzed"
      BY <1>9, ReadyIs
    <2>2. row'[f] = "pending"
      BY <1>1, <2>1
    <2>3. \A g \in Files : BatchOf[g] = s => row'[g] # "transcoding"
      BY <2>1, <2>2, LateIs
    <2>4. \A g \in Files : BatchOf[g] = s => row[g] \notin Keyed
      BY <1>1, <1>9, <2>3, ReadyIs DEF Keyed
    <2>5. s \notin SeasonsIn /\ s \in SeasonsIn'
      BY <2>1, <2>2, <2>4 DEF SeasonsIn, InState, FilesOf, Keyed
    <2>6. SeasonsIn \union {s} \subseteq SeasonsIn'
      BY <1>5, <2>5
    <2>7. Cardinality(SeasonsIn \union {s}) <= Cardinality(SeasonsIn')
      BY <2>6, Finite, InFlightCounts
    <2>8. Cardinality(SeasonsIn \union {s}) = Cardinality(SeasonsIn) + 1
      BY <1>7, <2>5, FS_AddElement
    <2>9. Cardinality(X \ {s}) = Cardinality(X) - 1
      BY <1>6, <1>9, FS_RemoveElement
    <2> QED
      BY <1>6, <1>7, <2>7, <2>8, <2>9, InFlightCounts
  <1> QED
    BY <1>8, <1>9

\* Asking about a movie puts each of its ready files in flight.
LEMMA AskMovieCounts ==
    ASSUME TypeOK, NEW r \in ReadyKeys, TopUpAsks(r), KeyOf(r) \in Movies
    PROVE  InFlight' + Cardinality(feeder'.keys \intersect Ready')
             >= InFlight + Cardinality(feeder.keys \intersect Ready)
  <1> USE ApprovalAssumption DEF ApprovalAssumption
  <1> DEFINE m == KeyOf(r)
             ids == InState(m, {"analyzed"})
             X == feeder.keys \intersect Ready
             Y == feeder'.keys \intersect Ready'
  <1>1. \A f \in Files : row'[f] = IF f \in ids THEN "pending" ELSE row[f]
    BY DEF TopUpAsks
  <1>2. feeder'.keys = feeder.keys \ {r}
    BY DEF TopUpAsks, TypeOK
  <1>3. /\ \A f : f \in ids <=> f \in Files /\ BatchOf[f] = m /\ row[f] = "analyzed"
        /\ r \in Files /\ BatchOf[r] = m
    BY DEF InState, FilesOf, ReadyKeys, KeyOf
  <1>4. X \ ids \subseteq Y
    <2>1. r \in X => r \in ids
      BY <1>3, ReadyIs
    <2>2. \A t \in Seasons : t \in Ready => t \in Ready'
      BY <1>1, <1>3, ReadyIs, ReadyIsPrimed
    <2>3. \A f \in Files : f \in Ready /\ f \notin ids => f \in Ready'
      BY <1>1, ReadyIs, ReadyIsPrimed
    <2>4. Ready \subseteq Seasons \union Files
      BY ReadyIs DEF ReadyKeys
    <2> QED
      BY <1>2, <2>1, <2>2, <2>3, <2>4
  <1>5. /\ SeasonsIn \subseteq SeasonsIn'
        /\ FilesIn \union ids \subseteq FilesIn' /\ FilesIn \intersect ids = {}
    <2>1. SeasonsIn \subseteq SeasonsIn'
      BY AskLeavesReady DEF SeasonsIn, InState, FilesOf
    <2>2. \A f : f \in FilesIn
                <=> f \in Files /\ BatchOf[f] \in Movies /\ row[f] \in Keyed
      BY DEF FilesIn, InState, FilesOf
    <2>3. \A f : f \in FilesIn'
                <=> f \in Files /\ BatchOf[f] \in Movies /\ row'[f] \in Keyed
      BY DEF FilesIn, InState, FilesOf
    <2> QED
      BY <1>1, <1>3, <2>1, <2>2, <2>3 DEF Keyed
  <1> HIDE DEF ids, X, Y
  <1>6. /\ IsFiniteSet(X) /\ IsFiniteSet(Y) /\ IsFiniteSet(ids)
        /\ Cardinality(X) \in Nat /\ Cardinality(Y) \in Nat
        /\ Cardinality(ids) \in Nat
    BY <1>3, ReadyIs, ReadyIsPrimed, KeysFinite, Finite DEF X, Y
  <1>7. Cardinality(X \ ids) <= Cardinality(Y) /\ IsFiniteSet(X \ ids)
        /\ Cardinality(X \ ids) \in Nat
    BY <1>4, <1>6, FS_Subset, FS_CardinalityType
  <1>8. Cardinality(X) <= Cardinality(X \ ids) + Cardinality(ids)
    <2>1. X \subseteq (X \ ids) \union ids /\ IsFiniteSet((X \ ids) \union ids)
      BY <1>6, <1>7, FS_Union
    <2>2. /\ Cardinality(X) <= Cardinality((X \ ids) \union ids)
          /\ Cardinality((X \ ids) \union ids) \in Nat
      BY <2>1, FS_Subset, FS_CardinalityType
    <2>3. Cardinality((X \ ids) \union ids) <= Cardinality(X \ ids) + Cardinality(ids)
      BY <1>6, <1>7, SumBound
    <2> QED
      BY <1>6, <1>7, <2>2, <2>3
  <1>9. /\ Cardinality(SeasonsIn) \in Nat /\ Cardinality(SeasonsIn') \in Nat
        /\ Cardinality(FilesIn) \in Nat /\ Cardinality(FilesIn') \in Nat
        /\ Cardinality(SeasonsIn) <= Cardinality(SeasonsIn')
        /\ Cardinality(FilesIn) + Cardinality(ids) <= Cardinality(FilesIn')
    <2>1. IsFiniteSet(FilesIn)
      BY InFlightCounts, Finite
    <2>2. Cardinality(FilesIn \union ids) = Cardinality(FilesIn) + Cardinality(ids)
      BY <1>5, <1>6, <2>1, SumBound
    <2>3. Cardinality(FilesIn \union ids) <= Cardinality(FilesIn')
      BY <1>5, InFlightCounts, Finite
    <2> QED
      BY <1>5, <2>2, <2>3, InFlightCounts, Finite
  <1>10. InFlight' + Cardinality(Y) >= InFlight + Cardinality(X)
    BY <1>6, <1>7, <1>8, <1>9, InFlightCounts
  <1> QED
    BY <1>10 DEF X, Y
LEMMA AskCovers ==
    ASSUME TypeOK, RoundCovers, ~Late, ~Late', MaxPending \in Nat,
           NEW r \in ReadyKeys, TopUpAsks(r)
    PROVE  RoundCovers'
  <1>1. /\ feeder.pc = "ask" /\ feeder'.pc \in {"ask", "publish"}
        /\ feeder'.keys = feeder.keys \ {r}
    BY DEF TopUpAsks, TypeOK
  <1>2. KeyOf(r) \in Seasons \/ KeyOf(r) \in Movies
    BY KeyIsBatch DEF Batches
  <1>3. InFlight' + Cardinality(feeder'.keys \intersect Ready')
          >= InFlight + Cardinality(feeder.keys \intersect Ready)
    BY <1>2, AskSeasonCounts, AskMovieCounts
  <1>4. /\ Cardinality(feeder.keys \intersect Ready) \in Nat
        /\ Cardinality(feeder'.keys \intersect Ready') \in Nat
    BY ReadyIs, ReadyIsPrimed, KeysFinite
  <1>5. CASE Ready \subseteq feeder.keys
    <2>1. Ready' \subseteq feeder'.keys
      BY <1>1, <1>5, AskLeavesReady
    <2> QED
      BY <1>1, <2>1 DEF RoundCovers
  <1>6. CASE InFlight + Cardinality(feeder.keys \intersect Ready) >= MaxPending
    <2>1. InFlight' + Cardinality(feeder'.keys \intersect Ready') >= MaxPending
      BY <1>3, <1>4, <1>6, InFlightCounts
    <2> QED
      BY <1>1, <2>1 DEF RoundCovers
  <1> QED
    BY <1>1, <1>5, <1>6 DEF RoundCovers

LEMMA FetchCovers ==
    ASSUME TypeOK, RoundCovers, ~Late, MaxPending \in Nat, TopUpFetches
    PROVE  RoundCovers'
  <1>1. PICK keys \in SUBSET Ready :
          /\ Cardinality(keys) = Min({feeder.slots, Cardinality(Ready)})
          /\ feeder' = [feeder EXCEPT !.pc = "ask", !.slots = 0, !.keys = keys]
    BY DEF TopUpFetches
  <1>2. feeder'.pc = "ask" /\ feeder'.keys = keys
    BY <1>1 DEF TypeOK
  <1>3. Ready' = Ready /\ InFlight' = InFlight
    BY SameRows DEF TopUpFetches
  <1>4. InFlight + feeder.slots >= MaxPending
    BY DEF RoundCovers, TopUpFetches
  <1>5. feeder.slots \in Nat /\ IsFiniteSet(Ready) /\ Cardinality(Ready) \in Nat
    BY ReadyIs, KeysFinite DEF TypeOK
  <1>6. CASE Cardinality(keys) = feeder.slots
    <2>1. feeder'.keys \intersect Ready' = keys
      BY <1>2, <1>3
    <2>2. InFlight' + Cardinality(feeder'.keys \intersect Ready') >= MaxPending
      BY <1>3, <1>4, <1>6, <2>1
    <2> QED
      BY <1>2, <2>2 DEF RoundCovers
  <1>7. CASE Cardinality(keys) = Cardinality(Ready)
    <2>1. keys = Ready
      BY <1>5, <1>7, FS_Subset
    <2> QED
      BY <1>2, <1>3, <2>1 DEF RoundCovers
  <1> QED
    BY <1>1, <1>5, <1>6, <1>7, MinOfTwo

LEMMA RoundStep == TypeOK /\ RoundCovers /\ [Next]_vars => RoundCovers'
  <1> SUFFICES ASSUME TypeOK, RoundCovers, [Next]_vars, ~Late'
               PROVE  RoundCovers'
    BY DEF RoundCovers
  <1>0. MaxPending \in Nat
    BY ApprovalAssumption DEF ApprovalAssumption
  <1>1. CASE FeederWakes
    BY <1>1 DEF FeederWakes, Goto, TypeOK, RoundCovers
  <1> SUFFICES ASSUME ~Late
               PROVE  RoundCovers'
    BY <1>1, StepsBeforeLate
  <1>2. CASE UNCHANGED <<row, feeder>>
    BY <1>2, SameRows DEF RoundCovers
  <1>3. ASSUME NEW f \in Files, Recheck(f) PROVE RoundCovers'
    <2>1. /\ UNCHANGED feeder
          /\ \A g \in Files : \/ row'[g] = row[g]
                              \/ row[g] = "closed" /\ row'[g] = "transcoding"
      BY <1>3 DEF Recheck, Become, TypeOK
    <2>2. InFlight <= InFlight'
      BY <2>1, InFlightGrows DEF Keyed
    <2>3. Ready' = Ready
      <3>1. \A s \in Seasons : s \in Ready' <=> s \in Ready
        BY <2>1, ReadyIs, ReadyIsPrimed
      <3>2. \A g \in Files : g \in Ready' <=> g \in Ready
        BY <2>1, ReadyIs, ReadyIsPrimed
      <3> QED
        BY <3>1, <3>2, ReadyIs, ReadyIsPrimed DEF ReadyKeys
    <2>4. /\ Cardinality(feeder.keys \intersect Ready) \in Nat
          /\ feeder.slots \in Nat
      BY ReadyIs, KeysFinite DEF TypeOK
    <2> QED
      BY <1>0, <2>1, <2>2, <2>3, <2>4, InFlightCounts DEF RoundCovers
  <1>4. CASE TopUpCounts
    <2>1. Ready' = Ready /\ InFlight' = InFlight
      BY <1>4, SameRows DEF TopUpCounts
    <2>2. CASE InFlight < MaxPending
      <3>1. feeder'.pc = "fetch" /\ feeder'.slots = MaxPending - InFlight
        BY <1>4, <2>2 DEF TopUpCounts, TypeOK
      <3> QED
        BY <1>0, <2>1, <3>1, InFlightCounts DEF RoundCovers
    <2>3. CASE ~(InFlight < MaxPending)
      <3>1. feeder'.pc = "asleep"
        BY <1>4, <2>3 DEF TopUpCounts, Goto, TypeOK
      <3> QED
        BY <1>0, <2>1, <2>3, <3>1, InFlightCounts DEF RoundCovers
    <2> QED
      BY <2>2, <2>3
  <1>5. CASE TopUpFetches
    BY <1>0, <1>5, FetchCovers
  <1>6. CASE TopUpEnds
    <2>1. Ready' = Ready /\ InFlight' = InFlight /\ feeder'.pc = "asleep"
      BY <1>6, SameRows DEF TopUpEnds, Goto, TypeOK
    <2>2. feeder.pc = "ask" /\ feeder.keys = {}
      BY <1>6 DEF TopUpEnds
    <2>3. Cardinality(feeder.keys \intersect Ready) = 0
      BY <2>2, FS_EmptySet
    <2> QED
      BY <1>0, <2>1, <2>2, <2>3, InFlightCounts DEF RoundCovers
  <1>7. ASSUME NEW r \in ReadyKeys, TopUpAsks(r) PROVE RoundCovers'
    BY <1>0, <1>7, AskCovers
  <1>8. ASSUME NEW b \in Batches, TopUpPublishes(b) PROVE RoundCovers'
    <2>1. /\ Ready' = Ready /\ InFlight' = InFlight
          /\ feeder.pc = "publish" /\ feeder'.pc = "ask"
          /\ feeder'.keys = feeder.keys
      BY <1>8, SameRows DEF TopUpPublishes, TypeOK
    <2> QED
      BY <2>1 DEF RoundCovers
  <1> QED
    BY <1>1, <1>2, <1>3, <1>4, <1>5, <1>6, <1>7, <1>8, StepsBeforeLate

LEMMA CoversIsNoLostWakeup == RoundCovers => NoLostWakeup
  BY DEF RoundCovers, Late, NoLostWakeup

\* The feeder never sleeps beside a free slot and a ready batch, but for a failure,
\* an event still to come, and the two exceptions NoLostWakeup names: no other
\* order of its queries with answers, encodes and re-verifies loses a wake-up.
\* (Notify; top_up.)
THEOREM FeederNeverOversleeps == Spec => []NoLostWakeup
  <1>1. Init => TypeOK /\ RoundCovers
    <2>1. Init => RoundCovers
      BY DEF Init, RoundCovers
    <2> QED
      BY <2>1, InitTyped
  <1>2. TypeOK /\ RoundCovers /\ [Next]_vars => (TypeOK /\ RoundCovers)'
    BY TypeStep, RoundStep
  <1> QED
    BY <1>1, <1>2, CoversIsNoLostWakeup, PTL DEF Spec

=============================================================================
