-------------------------- MODULE LibrarySyncProofs --------------------------
(***************************************************************************)
(* LibrarySync for any library, page and chunk size, and any number of     *)
(* changes and faults: no accepted trigger is lost, a sync of a library    *)
(* that stood still leaves the rows as it lists them, and no sync flags a  *)
(* file the provider listed all the while.                                 *)
(***************************************************************************)
EXTENDS LibrarySync, FiniteSetTheorems, TLAPS

-----------------------------------------------------------------------------
(* Triggers.                                                               *)

\* Every action but the webhook leaves owed, or starts a sync.
LEMMA TriggerStep == NoTriggerLost /\ [Next]_vars => NoTriggerLost'
  <1> SUFFICES ASSUME NoTriggerLost, [Next]_vars PROVE NoTriggerLost'
    OBVIOUS
  <1>1. ASSUME BeginSync PROVE NoTriggerLost'
    BY <1>1 DEF BeginSync, NoTriggerLost
  <1>2. ASSUME phase \in {"fetch", "write"}, NEW result, EndSync(result)
        PROVE  NoTriggerLost'
    BY <1>2 DEF EndSync, ghosts, NoTriggerLost
  <1>3. CASE TakeTrigger
    BY <1>3 DEF TakeTrigger, NoTriggerLost
  <1>4. CASE Webhook
    BY <1>4 DEF Webhook, NoTriggerLost
  <1>5. CASE Crash
    BY <1>5 DEF Crash, NoTriggerLost
  <1>6. CASE ListingsRead
    BY <1>6 DEF ListingsRead, ghosts, NoTriggerLost
  <1>7. ASSUME UNCHANGED <<owed, trigger, phase>> PROVE NoTriggerLost'
    BY <1>7 DEF NoTriggerLost
  <1>8. CASE StartupSync \/ DebounceOver \/ Tick
    BY <1>1, <1>8 DEF StartupSync, DebounceOver, Tick
  <1>9. CASE SyncFails \/ MovieUnreadable \/ Reconcile
    BY <1>2, <1>9 DEF SyncFails, MovieUnreadable, WritesFiles, Reconcile
  <1>10. ASSUME NEW K \in {Movies, Episodes}, NEW c \in Chunks(K),
                WriteChunk(K, c) \/ ChunkClashes(K, c)
         PROVE  NoTriggerLost'
    BY <1>2, <1>7, <1>10 DEF WriteChunk, ChunkClashes, WritesFiles, ghosts
  <1>11. ASSUME NEW c \in Chunks(Series), SyncSeries(c) \/ SeriesClashes(c)
         PROVE  NoTriggerLost'
    BY <1>2, <1>7, <1>11 DEF SyncSeries, SeriesClashes, ghosts
  <1>12. ASSUME NEW K \in Kinds, NEW n \in pages[K], ReadPage(K, n)
         PROVE  NoTriggerLost'
    BY <1>7, <1>12 DEF ReadPage, ghosts
  <1>13. ASSUME NEW K \in Kinds, EmptyAnswer(K) PROVE NoTriggerLost'
    BY <1>7, <1>13 DEF EmptyAnswer
  <1>14. ASSUME NEW i \in Items, LibraryChanges(i) PROVE NoTriggerLost'
    BY <1>7, <1>14 DEF LibraryChanges, sync
  <1>15. ASSUME NEW i \in Files, CompleteTranscode(i) PROVE NoTriggerLost'
    BY <1>7, <1>15 DEF CompleteTranscode, sync
  <1>16. CASE UNCHANGED vars
    BY <1>7, <1>16 DEF vars, sync, ghosts
  <1> QED
    BY <1>3, <1>4, <1>5, <1>6, <1>8, <1>9, <1>10, <1>11, <1>12, <1>13, <1>14, <1>15,
       <1>16 DEF Next, Step

\* Every webhook the server accepted is answered by a sync that lists the
\* library after it, through running syncs, debounces, failures and restarts
\* (SyncScheduler::run).
THEOREM NoTriggerIsLost == Spec => []NoTriggerLost
  <1>1. Init => NoTriggerLost
    BY DEF Init, NoTriggerLost
  <1> QED
    BY <1>1, TriggerStep, PTL DEF Spec

-----------------------------------------------------------------------------
(* Pages.                                                                  *)

\* The page of an item in the listing of its kind.
PageOf(K, i) == Cardinality({j \in Listed(K) : j < i}) \div PageSize

LEMMA DivMonotone ==
    ASSUME NEW p \in Nat \ {0}, NEW a \in Int, NEW b \in Int, a <= b
    PROVE  a \div p \in Int /\ a \div p <= b \div p
  OBVIOUS

LEMMA DivBound ==
    ASSUME NEW p \in Nat \ {0}, NEW a \in Nat
    PROVE  a \div p \in 0..a
  OBVIOUS

LEMMA ListedFinite ==
    ASSUME NEW K \in Kinds
    PROVE  /\ IsFiniteSet(Listed(K))
           /\ Cardinality(Listed(K)) \in 0..Cardinality(Items)
           /\ Cardinality(Items) \in Nat
  <1>1. Listed(K) \subseteq Items
    BY DEF Listed, Kinds, Items, Files
  <1> QED
    BY <1>1, SyncAssumption, FS_Subset, FS_CardinalityType DEF SyncAssumption

\* An item that is listed is on the first page or on one of the further pages
\* the first one announces.
LEMMA PageInRange ==
    ASSUME NEW K \in Kinds, NEW i \in K, listed[i] # None
    PROVE  PageOf(K, i) \in 0..((Cardinality(Listed(K)) - 1) \div PageSize)
  <1> DEFINE before == {j \in Listed(K) : j < i}
  <1>1. i \in Listed(K) /\ i \in Nat
    BY SyncAssumption DEF Listed, SyncAssumption, Kinds, Items, Files
  <1>2. before \subseteq Listed(K) \ {i}
    BY <1>1
  <1>3. /\ IsFiniteSet(Listed(K) \ {i})
        /\ Cardinality(Listed(K) \ {i}) = Cardinality(Listed(K)) - 1
    BY <1>1, ListedFinite, FS_RemoveElement
  <1>4. Cardinality(before) \in Nat /\ Cardinality(before) <= Cardinality(Listed(K)) - 1
    BY <1>2, <1>3, FS_Subset, FS_CardinalityType
  <1>5. Cardinality(Listed(K)) - 1 \in Int
    BY ListedFinite
  <1> QED
    BY <1>4, <1>5, DivMonotone, DivBound, SyncAssumption DEF PageOf, SyncAssumption


-----------------------------------------------------------------------------
(* The inductive invariant.                                                *)

\* Of a kind that stood still, each item has been read as it is listed, or is
\* on a page still to be read.
ReadAsListed ==
    phase \in {"fetch", "write"} =>
        \A K \in Kinds \ disturbed : \A i \in K :
            \/ got[i] = listed[i]
            \/ /\ phase = "fetch" /\ listed[i] # None
               /\ 0 \in pages[K] \/ PageOf(K, i) \in pages[K]

\* A draft is still to be written, or its row is seen and present, at the path
\* read if its kind stood still; a movie without a draft is never passed over.
DraftsWritten ==
    /\ phase = "fetch" => seen = {}
    /\ phase = "write" =>
        /\ left[Series] \subseteq Drafts(Series)
        /\ seen \subseteq Drafts(Movies) \cup Drafts(Episodes)
        /\ \A K \in {Movies, Episodes} :
             /\ left[K] \subseteq Drafts(K)
             /\ \A i \in Drafts(K) \ left[K] :
                  /\ i \in seen /\ i \notin missing
                  /\ K \notin disturbed => path[i] = got[i]
                  /\ K = Movies => MapsToMovie(i)

IInv == TypeOK /\ ReadAsListed /\ DraftsWritten /\ CalmSyncIsRight

LEMMA DraftsAreItems ==
    ASSUME NEW K \in Kinds, NEW i \in Drafts(K)
    PROVE  i \in K /\ i \in Items
  BY DEF Drafts, Read, Files, Items, Kinds

LEMMA DraftsAreRead ==
    ASSUME NEW K \in {Movies, Episodes}, NEW i \in Drafts(K)
    PROVE  i \in K /\ i \in Files /\ got[i] # None
  BY DEF Drafts, Read, Files

LEMMA ConstantTypes ==
    /\ NoDrafts \in [Kinds -> SUBSET Items]
    /\ NoPages \in [Kinds -> SUBSET (0..Cardinality(Items))]
    /\ Nothing \in Listing
    /\ [K \in Kinds |-> {0}] \in [Kinds -> SUBSET (0..Cardinality(Items))]
  <1>1. Cardinality(Items) \in Nat
    BY SyncAssumption, FS_CardinalityType DEF SyncAssumption
  <1> QED
    BY <1>1 DEF NoDrafts, NoPages, Nothing, Listing

-----------------------------------------------------------------------------
(* One lemma per step of a sync.                                           *)

LEMMA BeginKeeps ==
    ASSUME IInv, BeginSync, trigger' \in BOOLEAN
    PROVE  IInv'
  <1>1. TypeOK'
    BY ConstantTypes DEF IInv, TypeOK, BeginSync, provider, rows
  <1>2. ReadAsListed'
    BY DEF ReadAsListed, BeginSync, provider, Nothing, Items, Files, Kinds
  <1> QED
    BY <1>1, <1>2 DEF IInv, BeginSync, DraftsWritten, CalmSyncIsRight

\* A sync that fails leaves the rows and claims nothing.
LEMMA FailKeeps ==
    ASSUME IInv, EndSync(FALSE), UNCHANGED rows, faults' \in 0..MaxFaults
    PROVE  IInv'
  <1>1. TypeOK'
    BY ConstantTypes DEF IInv, TypeOK, EndSync, provider, rows, ghosts
  <1> QED
    BY <1>1 DEF IInv, EndSync, ReadAsListed, DraftsWritten, CalmSyncIsRight

LEMMA ReadPageKeeps ==
    ASSUME IInv, NEW K \in Kinds, NEW n \in pages[K], ReadPage(K, n)
    PROVE  IInv'
  <1> USE DEF provider, rows, ghosts
  <1>1. TypeOK'
    <2>1. got' \in Listing
      BY DEF IInv, TypeOK, ReadPage, Listing
    <2>2. pages[K] \ {n} \subseteq 0..Cardinality(Items)
      BY DEF IInv, TypeOK
    <2>3. 1..((Cardinality(Listed(K)) - 1) \div PageSize) \subseteq 0..Cardinality(Items)
      <3> DEFINE c == Cardinality(Listed(K))
      <3>1. c \in Nat /\ c <= Cardinality(Items) /\ Cardinality(Items) \in Nat
        BY ListedFinite
      <3>2. PageSize \in Nat \ {0}
        BY SyncAssumption DEF SyncAssumption
      <3>3. /\ (c - 1) \div PageSize <= c \div PageSize
            /\ (c - 1) \div PageSize \in Int
        BY <3>1, <3>2, DivMonotone
      <3>4. c \div PageSize \in 0..c
        BY <3>1, <3>2, DivBound
      <3> QED
        BY <3>1, <3>3, <3>4
    <2>4. pages' \in [Kinds -> SUBSET (0..Cardinality(Items))]
      BY <2>2, <2>3 DEF IInv, TypeOK, ReadPage
    <2> QED
      BY <2>1, <2>4 DEF IInv, TypeOK, ReadPage
  <1>2. ReadAsListed'
    <2> SUFFICES ASSUME NEW L \in Kinds \ disturbed, NEW i \in L,
                        got'[i] # listed[i]
                 PROVE  /\ listed[i] # None
                        /\ 0 \in pages'[L] \/ PageOf(L, i) \in pages'[L]
      BY DEF ReadPage, ReadAsListed, PageOf, Listed
    <2>1. i \in Items /\ phase = "fetch" /\ got \in Listing
      BY DEF ReadPage, IInv, TypeOK, Items, Files, Kinds
    <2>2. got'[i] = IF i \in Page(K, n) THEN listed[i] ELSE got[i]
      BY <2>1 DEF ReadPage
    <2>3. /\ i \notin Page(K, n) /\ listed[i] # None
          /\ 0 \in pages[L] \/ PageOf(L, i) \in pages[L]
      BY <2>1, <2>2 DEF IInv, ReadAsListed
    <2>4. CASE L # K
      BY <2>3, <2>4 DEF ReadPage, IInv, TypeOK
    <2>5. CASE L = K
      <3>1. PageOf(K, i) # n
        BY <2>3, <2>5 DEF Page, PageOf, Listed
      <3>2. CASE n # 0
        BY <2>3, <2>5, <3>1, <3>2 DEF ReadPage, IInv, TypeOK
      <3>3. CASE n = 0
        <4>1. pages'[K] = 1..((Cardinality(Listed(K)) - 1) \div PageSize)
          BY <3>3 DEF ReadPage, IInv, TypeOK
        <4> QED
          BY <2>3, <2>5, <3>1, <3>3, <4>1, PageInRange
      <3> QED
        BY <3>2, <3>3
    <2> QED
      BY <2>4, <2>5, <2>3
  <1> QED
    BY <1>1, <1>2 DEF IInv, ReadPage, DraftsWritten, CalmSyncIsRight


LEMMA EmptyAnswerKeeps ==
    ASSUME IInv, NEW K \in Kinds, EmptyAnswer(K)
    PROVE  IInv'
  <1> USE DEF provider, rows
  <1>1. TypeOK'
    BY SyncAssumption DEF IInv, TypeOK, EmptyAnswer, SyncAssumption
  <1>2. ReadAsListed'
    BY DEF IInv, TypeOK, ReadAsListed, EmptyAnswer, PageOf, Listed
  <1> QED
    BY <1>1, <1>2 DEF IInv, EmptyAnswer, DraftsWritten, CalmSyncIsRight

LEMMA ListingsReadKeeps ==
    ASSUME IInv, ListingsRead
    PROVE  IInv'
  <1> USE DEF provider, rows, ghosts
  <1>1. TypeOK'
    BY DraftsAreItems DEF IInv, TypeOK, ListingsRead
  <1>2. ReadAsListed'
    BY DEF IInv, ReadAsListed, ListingsRead, NoPages
  <1>3. DraftsWritten'
    BY DEF IInv, DraftsWritten, ListingsRead, Drafts, Read, Kinds
  <1> QED
    BY <1>1, <1>2, <1>3 DEF IInv, ListingsRead, CalmSyncIsRight

\* The rows a chunk of series inserts have ids of their own, or the chunk fails.
LEMMA SyncSeriesKeeps ==
    ASSUME IInv, NEW c \in Chunks(Series), SyncSeries(c)
    PROVE  IInv'
  <1> USE DEF provider, ghosts
  <1>1. c \subseteq left[Series] /\ c \subseteq Series /\ Series \in Kinds
    BY DraftsAreItems DEF Chunks, SyncSeries, IInv, DraftsWritten, Kinds
  <1>2. ASSUME NEW s \in shows', NEW t \in shows', s # t
        PROVE  ~SameId(Tmdb, s, t) /\ ~SameId(Tvdb, s, t)
    <2>1. s \in Nat /\ t \in Nat
      BY <1>1, SyncAssumption DEF SyncSeries, Inserted, IInv, TypeOK, SyncAssumption, Items
    <2>2. ASSUME SameId(Tmdb, s, t) PROVE FALSE
      <3>1. SameId(Tmdb, t, s)
        BY <2>2 DEF SameId
      <3>2. CASE s \in shows /\ t \in shows
        BY <1>2, <2>2, <3>2 DEF IInv, TypeOK
      <3>3. CASE s \in Inserted(c) /\ (t \in shows \/ t < s)
        BY <2>2, <3>3 DEF Inserted, SyncSeries
      <3>4. CASE t \in Inserted(c) /\ (s \in shows \/ s < t)
        BY <3>1, <3>4 DEF Inserted, SyncSeries
      <3> QED
        BY <1>2, <2>1, <3>2, <3>3, <3>4 DEF SyncSeries
    <2>3. ASSUME SameId(Tvdb, s, t) PROVE FALSE
      <3>1. SameId(Tvdb, t, s)
        BY <2>3 DEF SameId
      <3>2. CASE s \in shows /\ t \in shows
        BY <1>2, <2>3, <3>2 DEF IInv, TypeOK
      <3>3. CASE s \in Inserted(c) \/ t \in Inserted(c)
        BY <1>2, <2>3, <3>1, <3>3 DEF SeriesClash, SyncSeries
      <3> QED
        BY <3>2, <3>3 DEF SyncSeries
    <2> QED
      BY <2>2, <2>3
  <1>3. TypeOK'
    <2>1. known' \subseteq Series /\ shows' \subseteq known'
      BY <1>1 DEF SyncSeries, Inserted, IInv, TypeOK
    <2>2. left' \in [Kinds -> SUBSET Items]
      BY DEF SyncSeries, IInv, TypeOK
    <2> QED
      BY <1>2, <2>1, <2>2 DEF SyncSeries, IInv, TypeOK
  <1>4. DraftsWritten'
    <2>1. \A K \in Kinds : left'[K] = IF K = Series THEN left[K] \ c ELSE left[K]
      BY DEF SyncSeries, IInv, TypeOK
    <2>2. Series \notin {Movies, Episodes}
      BY <1>1, SyncAssumption DEF SyncSeries, SyncAssumption
    <2> QED
      BY <1>1, <2>1, <2>2
         DEF SyncSeries, IInv, DraftsWritten, Drafts, Read, MapsToMovie, MapsToEpisode, Kinds
  <1> QED
    BY <1>3, <1>4 DEF IInv, SyncSeries, ReadAsListed, CalmSyncIsRight, PageOf, Listed

LEMMA WriteChunkKeeps ==
    ASSUME IInv, NEW K \in {Movies, Episodes}, NEW c \in Chunks(K), WriteChunk(K, c)
    PROVE  IInv'
  <1> USE DEF provider, ghosts, WritesFiles
  <1>1. c \subseteq left[K] /\ c \subseteq Drafts(K) /\ c \subseteq K /\ c \subseteq Files
    BY DraftsAreRead DEF Chunks, WriteChunk, IInv, DraftsWritten
  <1>2. \A i \in c : got[i] \in Paths
    <2>1. \A i \in c : got[i] # None /\ i \in Items
      BY <1>1, DraftsAreRead DEF Items
    <2> QED
      BY <2>1 DEF IInv, TypeOK, Listing
  <1>3. path' \in [Files -> Paths \cup {None}]
    BY <1>1, <1>2 DEF IInv, TypeOK, WriteChunk
  <1>4. ASSUME NEW i \in Files, NEW j \in Files, path'[i] = path'[j], path'[i] # None,
               i # j
        PROVE  FALSE
    <2>1. i \in Nat /\ j \in Nat
      BY SyncAssumption DEF SyncAssumption, Items
    <2>2. /\ path'[i] = IF i \in c THEN got[i] ELSE path[i]
          /\ path'[j] = IF j \in c THEN got[j] ELSE path[j]
      BY DEF WriteChunk
    <2>3. CASE i \notin c /\ j \notin c
      BY <1>4, <2>2, <2>3 DEF IInv, TypeOK
    <2>4. CASE i \in c /\ j \notin c
      BY <1>4, <2>2, <2>4 DEF WriteChunk, Clashes
    <2>5. CASE i \notin c /\ j \in c
      BY <1>4, <2>2, <2>5 DEF WriteChunk, Clashes
    <2>6. CASE i \in c /\ j \in c /\ j < i
      BY <1>4, <2>2, <2>6 DEF WriteChunk, Clashes
    <2>7. CASE i \in c /\ j \in c /\ i < j
      BY <1>4, <2>2, <2>7 DEF WriteChunk, Clashes
    <2> QED
      BY <1>4, <2>1, <2>3, <2>4, <2>5, <2>6, <2>7
  <1>5. \A i \in missing' \cup done' \cup seen' : path'[i] # None
    <2>1. \A i \in missing \cup done \cup seen : i \in Files /\ path[i] # None
      BY DEF IInv, TypeOK
    <2>2. \A i \in c : i \in Files /\ got[i] # None
      BY <1>1, <1>2, SyncAssumption DEF SyncAssumption
    <2> QED
      BY <2>1, <2>2 DEF WriteChunk
  <1>6. TypeOK'
    <2>1. missing' \subseteq Files /\ done' \subseteq Files /\ seen' \subseteq Files
      BY <1>1 DEF IInv, TypeOK, WriteChunk
    <2>2. left' \in [Kinds -> SUBSET Items]
      BY DEF IInv, TypeOK, WriteChunk
    <2> QED
      BY <1>3, <1>4, <1>5, <2>1, <2>2 DEF IInv, TypeOK, WriteChunk
  <1>7. DraftsWritten'
    <2> SUFFICES
          /\ left'[Series] \subseteq Drafts(Series)
          /\ seen' \subseteq Drafts(Movies) \cup Drafts(Episodes)
          /\ \A L \in {Movies, Episodes} :
               /\ left'[L] \subseteq Drafts(L)
               /\ \A i \in Drafts(L) \ left'[L] :
                    /\ i \in seen' /\ i \notin missing'
                    /\ L \notin disturbed => path'[i] = got[i]
                    /\ L = Movies => MapsToMovie(i)
      BY DEF WriteChunk, DraftsWritten, Drafts, Read, MapsToMovie
    <2>1. left'[Series] \subseteq Drafts(Series)
      BY DEF IInv, DraftsWritten, TypeOK, WriteChunk, Kinds
    <2>2. seen' \subseteq Drafts(Movies) \cup Drafts(Episodes)
      BY <1>1 DEF IInv, DraftsWritten, WriteChunk
    <2>3. ASSUME NEW L \in {Movies, Episodes}
          PROVE  /\ left'[L] \subseteq Drafts(L)
                 /\ left'[L] = IF L = K THEN left[L] \ c ELSE left[L]
      BY DEF IInv, DraftsWritten, TypeOK, WriteChunk, Kinds
    <2>4. ASSUME NEW L \in {Movies, Episodes}, NEW i \in Drafts(L) \ left'[L]
          PROVE  /\ i \in seen' /\ i \notin missing'
                 /\ L \notin disturbed => path'[i] = got[i]
                 /\ L = Movies => MapsToMovie(i)
      <3>1. i \in Files
        BY <2>4, DraftsAreRead
      <3>2. CASE i \in c
        <4>1. L = K
          BY <1>1, <3>2, DraftsAreRead, SyncAssumption DEF SyncAssumption
        <4> QED
          BY <1>1, <3>1, <3>2, <4>1 DEF WriteChunk
      <3>3. CASE i \notin c
        <4>1. i \in Drafts(L) \ left[L]
          BY <2>3, <3>3
        <4> QED
          BY <3>1, <3>3, <4>1 DEF IInv, DraftsWritten, WriteChunk
      <3> QED
        BY <3>2, <3>3
    <2> QED
      BY <2>1, <2>2, <2>3, <2>4
  <1> QED
    BY <1>6, <1>7 DEF IInv, WriteChunk, ReadAsListed, CalmSyncIsRight, PageOf, Listed

\* What a sync that reaches the reconciliation has read and written.
LEMMA AtReconcile ==
    ASSUME IInv, phase = "write", left = NoDrafts
    PROVE  /\ seen = Drafts(Movies) \cup Drafts(Episodes)
           /\ \A i \in seen : i \notin missing
           /\ Movies \notin disturbed => Drafts(Movies) = Readable \cap Movies
           /\ {Episodes, Series} \cap disturbed = {} =>
                Drafts(Episodes) = Readable \cap Episodes
           /\ \A K \in {Movies, Episodes} \ disturbed : \A i \in Drafts(K) :
                path[i] = got[i] /\ got[i] = listed[i]
  <1>1. left[Movies] = {} /\ left[Episodes] = {}
    BY DEF NoDrafts, Kinds
  <1>2. ASSUME NEW K \in Kinds \ disturbed, NEW i \in K PROVE got[i] = listed[i]
    BY DEF IInv, ReadAsListed
  <1>3. \A K \in {Movies, Episodes} : K \in Kinds
    BY DEF Kinds
  <1>4. seen = Drafts(Movies) \cup Drafts(Episodes) /\ \A i \in seen : i \notin missing
    BY <1>1 DEF IInv, DraftsWritten
  <1>5. ASSUME Movies \notin disturbed PROVE Drafts(Movies) = Readable \cap Movies
    <2>1. \A i \in Movies : got[i] = listed[i] /\ i \in Files /\ i \notin Episodes
      BY <1>2, <1>3, <1>5, SyncAssumption DEF SyncAssumption, Files
    <2>2. \A i \in Drafts(Movies) : i \in Movies /\ i \notin Unreadable
      BY <1>1, DraftsAreRead DEF IInv, DraftsWritten, MapsToMovie
    <2> QED
      BY <2>1, <2>2 DEF Readable, Drafts, Read
  <1>6. ASSUME {Episodes, Series} \cap disturbed = {}
        PROVE  Drafts(Episodes) = Readable \cap Episodes
    <2>1. \A i \in Episodes : got[i] = listed[i] /\ i \in Files /\ Parent[i] \in Series
      BY <1>2, <1>3, <1>6, SyncAssumption DEF SyncAssumption, Files
    <2>2. \A i \in Series : got[i] = listed[i]
      BY <1>2, <1>6 DEF Kinds
    <2>3. CASE Episodes = Movies
      BY <2>3, SyncAssumption DEF SyncAssumption, Drafts, Read, Readable
    <2>4. CASE Episodes # Movies
      BY <2>1, <2>2, <2>4 DEF Readable, Drafts, Read, MapsToEpisode
    <2> QED
      BY <2>3, <2>4
  <1>7. ASSUME NEW K \in {Movies, Episodes} \ disturbed, NEW i \in Drafts(K)
        PROVE  path[i] = got[i] /\ got[i] = listed[i]
    BY <1>1, <1>2, <1>3, DraftsAreRead DEF IInv, DraftsWritten
  <1> QED
    BY <1>4, <1>5, <1>6, <1>7


LEMMA ReconcileKeeps ==
    ASSUME IInv, Reconcile
    PROVE  IInv'
  <1> USE DEF provider, ghosts
  <1>1. Unseen \subseteq Files /\ \A i \in Unseen : path[i] # None
    BY DEF Unseen
  <1>2. TypeOK'
    BY <1>1, ConstantTypes DEF IInv, TypeOK, Reconcile, EndSync
  <1>3. ASSUME disturbed = {} PROVE Synced'
    <2>1. /\ seen = Drafts(Movies) \cup Drafts(Episodes)
          /\ \A i \in seen : i \notin missing
          /\ Drafts(Movies) = Readable \cap Movies
          /\ Drafts(Episodes) = Readable \cap Episodes
          /\ \A i \in Drafts(Movies) \cup Drafts(Episodes) : path[i] = listed[i]
      BY <1>3, AtReconcile DEF Reconcile
    <2>2. seen = Readable
      BY <2>1 DEF Readable, Files
    <2>3. Readable' = Readable
      BY DEF Reconcile, EndSync, Readable
    <2>4. ASSUME NEW i \in Files, i \in Readable
          PROVE  path'[i] = listed'[i] /\ i \notin missing'
      BY <2>1, <2>2, <2>4 DEF Reconcile, EndSync, Unseen
    <2>5. ASSUME NEW i \in Files, i \notin Readable
          PROVE  path'[i] = None \/ i \in missing' \/ Readable = {}
      BY <2>1, <2>2, <2>5 DEF Reconcile, EndSync, Unseen
    <2> QED
      BY <2>3, <2>4, <2>5 DEF Synced
  <1> QED
    BY <1>2, <1>3
       DEF IInv, Reconcile, EndSync, ReadAsListed, DraftsWritten, CalmSyncIsRight

-----------------------------------------------------------------------------
(* Around the sync.                                                        *)

LEMMA LibraryChangesKeeps ==
    ASSUME IInv, NEW i \in Items, LibraryChanges(i)
    PROVE  IInv'
  <1> USE DEF rows, sync
  <1>1. /\ disturbed' = disturbed \cup {K \in Kinds : i \in K}
        /\ \A j \in Items \ {i} : listed'[j] = listed[j]
        /\ disturbed' # {}
    <2>1. \E K \in Kinds : i \in K
      BY DEF Items, Files, Kinds
    <2> QED
      BY <2>1 DEF LibraryChanges, Disturb, IInv, TypeOK, Listing
  <1>2. TypeOK'
    <2>1. listed' \in Listing
      BY SyncAssumption DEF IInv, TypeOK, Listing, LibraryChanges, SyncAssumption
    <2> QED
      BY <1>1, <2>1, SyncAssumption DEF IInv, TypeOK, LibraryChanges, SyncAssumption
  <1>3. ReadAsListed'
    <2>1. ASSUME NEW K \in Kinds \ disturbed', NEW j \in K
          PROVE  /\ K \in Kinds \ disturbed /\ listed'[j] = listed[j]
                 /\ Listed(K)' = Listed(K)
      <3>1. \A k \in K : k \in Items \ {i}
        BY <1>1, <2>1 DEF Kinds, Items, Files
      <3> QED
        BY <1>1, <2>1, <3>1 DEF Listed
    <2> QED
      BY <2>1 DEF IInv, ReadAsListed, LibraryChanges, PageOf
  <1>4. DraftsWritten'
    BY <1>1 DEF IInv, DraftsWritten, LibraryChanges, Drafts, Read, MapsToMovie
  <1> QED
    BY <1>1, <1>2, <1>3, <1>4 DEF IInv, CalmSyncIsRight

LEMMA CompleteTranscodeKeeps ==
    ASSUME IInv, NEW i \in Files, CompleteTranscode(i)
    PROVE  IInv'
  <1> USE DEF provider, sync
  <1>1. /\ disturbed' = disturbed \cup {K \in Kinds : i \in K}
        /\ disturbed' # {}
        /\ \A j \in Files \ {i} : path'[j] = path[j]
        /\ path'[i] \in Paths
    <2>1. \E K \in Kinds : i \in K
      BY DEF Files, Kinds
    <2> QED
      BY <2>1, SyncAssumption
         DEF CompleteTranscode, Disturb, IInv, TypeOK, SyncAssumption
  <1>2. TypeOK'
    <2>1. path' \in [Files -> Paths \cup {None}] /\ path'[i] # None
      BY <1>1, SyncAssumption DEF IInv, TypeOK, CompleteTranscode, SyncAssumption
    <2>2. ASSUME NEW j \in Files, NEW k \in Files, path'[j] = path'[k], path'[j] # None
          PROVE  j = k
      BY <1>1, <2>2 DEF IInv, TypeOK, CompleteTranscode
    <2> QED
      BY <1>1, <2>1, <2>2 DEF IInv, TypeOK, CompleteTranscode
  <1>3. ReadAsListed'
    BY <1>1 DEF IInv, ReadAsListed, CompleteTranscode, PageOf, Listed
  <1>4. DraftsWritten'
    <2> SUFFICES ASSUME phase = "write", NEW K \in {Movies, Episodes},
                        NEW j \in Drafts(K) \ left[K], K \notin disturbed'
                 PROVE  path'[j] = got[j]
      BY DEF IInv, DraftsWritten, CompleteTranscode, Drafts, Read, MapsToMovie
    <2>1. j \in K /\ j \in Files /\ K \in Kinds
      BY DraftsAreRead DEF Kinds
    <2>2. j # i /\ K \notin disturbed
      BY <1>1, <2>1
    <2> QED
      BY <1>1, <2>1, <2>2 DEF IInv, DraftsWritten
  <1> QED
    BY <1>1, <1>2, <1>3, <1>4 DEF IInv, CalmSyncIsRight

LEMMA CrashKeeps ==
    ASSUME IInv, Crash
    PROVE  IInv'
  <1> USE DEF provider, rows, ghosts
  <1>1. TypeOK'
    <2>1. faults' \in 0..MaxFaults
      BY SyncAssumption DEF IInv, TypeOK, Crash, SyncAssumption
    <2> QED
      BY <2>1, ConstantTypes DEF IInv, TypeOK, Crash
  <1> QED
    BY <1>1 DEF IInv, Crash, ReadAsListed, DraftsWritten, CalmSyncIsRight

LEMMA TakeTriggerKeeps ==
    ASSUME IInv, TakeTrigger
    PROVE  IInv'
  BY DEF IInv, TypeOK, TakeTrigger, provider, rows, ghosts, ReadAsListed,
         DraftsWritten, CalmSyncIsRight

\* The webhook and a stuttering step touch nothing but the permit.
LEMMA PermitKeeps ==
    ASSUME IInv, UNCHANGED <<provider, rows, sync, ok, disturbed, faults>>,
           trigger' \in BOOLEAN, owed' \in BOOLEAN
    PROVE  IInv'
  <1> USE DEF provider, rows, sync
  <1>1. TypeOK'
    BY DEF IInv, TypeOK
  <1>2. ReadAsListed'
    BY DEF IInv, ReadAsListed, PageOf, Listed
  <1>3. DraftsWritten'
    BY DEF IInv, DraftsWritten, Drafts, Read, MapsToMovie
  <1>4. CalmSyncIsRight'
    BY DEF IInv, CalmSyncIsRight, Synced, Readable
  <1> QED
    BY <1>1, <1>2, <1>3, <1>4 DEF IInv

-----------------------------------------------------------------------------
(* The whole specification.                                                *)

LEMMA InitInv == Init => IInv
  <1> SUFFICES ASSUME Init PROVE IInv
    OBVIOUS
  <1>1. TypeOK
    <2>1. listed \in Listing /\ got \in Listing
      BY ConstantTypes DEF Init
    <2>2. /\ path \in [Files -> Paths \cup {None}]
          /\ \A i \in Files : path[i] = None
      BY DEF Init
    <2>3. changes \in 0..MaxChanges /\ faults \in 0..MaxFaults
      BY SyncAssumption DEF Init, SyncAssumption
    <2>4. phase \in {"startup"} /\ {trigger, ok, owed} \subseteq BOOLEAN
      BY DEF Init
    <2>5. /\ pages \in [Kinds -> SUBSET (0..Cardinality(Items))]
          /\ left \in [Kinds -> SUBSET Items]
      BY ConstantTypes DEF Init
    <2> QED
      BY <2>1, <2>2, <2>3, <2>4, <2>5 DEF Init, TypeOK
  <1> QED
    BY <1>1 DEF Init, IInv, ReadAsListed, DraftsWritten, CalmSyncIsRight

LEMMA InvStep == IInv /\ [Next]_vars => IInv'
  <1> SUFFICES ASSUME IInv, [Next]_vars PROVE IInv'
    OBVIOUS
  <1>1. trigger \in BOOLEAN /\ owed \in BOOLEAN /\ faults \in 0..MaxFaults
    BY DEF IInv, TypeOK
  <1>2. CASE StartupSync \/ DebounceOver \/ Tick
    BY <1>1, <1>2, BeginKeeps DEF StartupSync, DebounceOver, Tick
  <1>3. ASSUME NEW K \in Kinds, NEW n \in pages[K], ReadPage(K, n) PROVE IInv'
    BY <1>3, ReadPageKeeps
  <1>4. CASE ListingsRead
    BY <1>4, ListingsReadKeeps
  <1>5. ASSUME NEW c \in Chunks(Series), SyncSeries(c) PROVE IInv'
    BY <1>5, SyncSeriesKeeps
  <1>6. ASSUME NEW c \in Chunks(Series), SeriesClashes(c) PROVE IInv'
    BY <1>1, <1>6, FailKeeps DEF SeriesClashes
  <1>7. CASE MovieUnreadable
    BY <1>1, <1>7, FailKeeps DEF MovieUnreadable
  <1>8. ASSUME NEW K \in {Movies, Episodes}, NEW c \in Chunks(K), WriteChunk(K, c)
        PROVE  IInv'
    BY <1>8, WriteChunkKeeps
  <1>9. ASSUME NEW K \in {Movies, Episodes}, NEW c \in Chunks(K), ChunkClashes(K, c)
        PROVE  IInv'
    BY <1>1, <1>9, FailKeeps DEF ChunkClashes
  <1>10. CASE Reconcile
    BY <1>10, ReconcileKeeps
  <1>11. CASE TakeTrigger
    BY <1>11, TakeTriggerKeeps
  <1>12. CASE Webhook
    BY <1>1, <1>12, PermitKeeps DEF Webhook
  <1>13. CASE SyncFails
    <2>1. faults' \in 0..MaxFaults
      BY <1>1, <1>13, SyncAssumption DEF SyncFails, SyncAssumption
    <2> QED
      BY <1>13, <2>1, FailKeeps DEF SyncFails
  <1>14. ASSUME NEW K \in Kinds, EmptyAnswer(K) PROVE IInv'
    BY <1>14, EmptyAnswerKeeps
  <1>15. ASSUME NEW i \in Items, LibraryChanges(i) PROVE IInv'
    BY <1>15, LibraryChangesKeeps
  <1>16. ASSUME NEW i \in Files, CompleteTranscode(i) PROVE IInv'
    BY <1>16, CompleteTranscodeKeeps
  <1>17. CASE Crash
    BY <1>17, CrashKeeps
  <1>18. CASE UNCHANGED vars
    BY <1>1, <1>18, PermitKeeps DEF vars, ghosts
  <1> QED
    BY <1>2, <1>3, <1>4, <1>5, <1>6, <1>7, <1>8, <1>9, <1>10, <1>11, <1>12, <1>13,
       <1>14, <1>15, <1>16, <1>17, <1>18 DEF Next, Step

\* What every reachable state satisfies: rows, listing read and drafts left agree.
THEOREM Invariance == Spec => []IInv
  BY InitInv, InvStep, PTL DEF Spec

\* Every variable stays in its domain; in particular no two rows ever have one
\* path, which media_files demands (migrations/1_init.sql), and no page is
\* asked for beyond the listing.
THEOREM TypeCorrect == Spec => []TypeOK
  <1>1. IInv => TypeOK
    BY DEF IInv
  <1> QED
    BY <1>1, Invariance, PTL

\* A sync that succeeds while neither the library nor a path changes leaves
\* every file the provider lists present at its path, and every other one
\* flagged, however the pages were read and the chunks written
\* (SyncOrchestrator::sync).
THEOREM CalmSyncLeavesRowsRight == Spec => []CalmSyncIsRight
  <1>1. IInv => CalmSyncIsRight
    BY DEF IInv
  <1> QED
    BY <1>1, Invariance, PTL

\* Only the reconciliation flags a file, only after a sync that wrote another
\* row, and never one the provider listed, in a form that maps, all the while
\* (reconcile_missing_files).
THEOREM OnlyUnlistedIsFlagged == Spec => FlagsOnlyUnlisted
  <1> DEFINE Right(i) ==
        /\ seen # {}
        /\ \/ i \notin Readable
           \/ i \in Movies /\ Movies \in disturbed
           \/ i \in Episodes /\ {Episodes, Series} \cap disturbed # {}
  <1>1. ASSUME IInv, [Next]_vars, NEW i \in missing' \ missing PROVE Right(i)
    <2>1. CASE Reconcile
      <3>1. i \in Unseen /\ seen = Drafts(Movies) \cup Drafts(Episodes) /\ seen # {}
        BY <1>1, <2>1, AtReconcile DEF Reconcile
      <3>2. i \in Files /\ i \notin Drafts(Movies) /\ i \notin Drafts(Episodes)
        BY <3>1 DEF Unseen
      <3>3. CASE i \in Movies
        BY <1>1, <2>1, <3>1, <3>2, <3>3, AtReconcile DEF Reconcile
      <3>4. CASE i \in Episodes
        BY <1>1, <2>1, <3>1, <3>2, <3>4, AtReconcile DEF Reconcile
      <3> QED
        BY <3>2, <3>3, <3>4 DEF Files
    <2>2. CASE missing' \subseteq missing
      BY <1>1, <2>2
    <2> QED
      BY <1>1, <2>1, <2>2
         DEF Next, Step, StartupSync, DebounceOver, Tick, BeginSync, ReadPage, ListingsRead,
             SyncSeries, SeriesClashes, MovieUnreadable, WriteChunk, ChunkClashes, TakeTrigger, Webhook, SyncFails,
             EmptyAnswer, LibraryChanges, CompleteTranscode, Crash, rows, vars
  <1>2. IInv /\ [Next]_vars => [\A i \in missing' \ missing : Right(i)]_vars
    BY <1>1
  <1> QED
    BY <1>2, Invariance, PTL DEF Spec, FlagsOnlyUnlisted

=============================================================================
