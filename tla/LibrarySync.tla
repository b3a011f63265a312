----------------------------- MODULE LibrarySync -----------------------------
(***************************************************************************)
(* The library sync and its scheduler: one sync at a time, started at      *)
(* start-up, by the ticker or by a webhook, reads the provider's listing   *)
(* page by page, upserts a row per item in chunks of one transaction, and  *)
(* flags as missing the rows no upsert touched.  Meanwhile the provider's  *)
(* library changes, the transcode worker moves files, requests fail and    *)
(* the process crashes.                                                    *)
(*                                                                         *)
(* Abstracted: titles and ratings.  A series matters as the parent an      *)
(* episode is skipped without, and for the external ids its row is found   *)
(* by; an item's ids do not change.                                        *)
(***************************************************************************)
EXTENDS Integers, FiniteSets

CONSTANTS
    Series, Movies, Episodes, \* provider ids, in the order it lists them
    Parent,                   \* the series of an episode
    Tmdb, Tvdb,               \* the external ids of a series, None without one
    Paths,
    Homes,                    \* the paths an item may be listed at
    Final,                    \* where the encode of the file at a path is put
    None,
    Unreadable,               \* items that do not map to a draft
    PageSize,                 \* items per page of a listing; the code's is 200
    ChunkSize,                \* drafts per transaction; the code's is 500
    Periodic,                 \* the ticker is on
    MaxChanges,               \* bound on the changes of the provider's library
    MaxFaults                 \* bound on failures and crashes

Files == Movies \cup Episodes
Items == Series \cup Files
Kinds == {Series, Movies, Episodes}

ASSUME SyncAssumption ==
    /\ IsFiniteSet(Items) /\ Items \subseteq Nat
    /\ Series \cap Movies = {} /\ Series \cap Episodes = {} /\ Movies \cap Episodes = {}
    /\ Parent \in [Episodes -> Series]
    /\ DOMAIN Tmdb = Series /\ DOMAIN Tvdb = Series
    /\ Homes \in [Items -> SUBSET Paths]
    /\ Final \in [Paths -> Paths]
    /\ None \notin Paths
    /\ Unreadable \subseteq Files
    /\ PageSize \in Nat \ {0} /\ ChunkSize \in Nat \ {0}
    /\ Periodic \in BOOLEAN
    /\ MaxChanges \in Nat /\ MaxFaults \in Nat

VARIABLES
    listed,  \* the provider's library: the path of each item
    known,   \* series with a row in series_provider_refs
    shows,   \* series whose draft was inserted into series, with its ids
    path,    \* file_path of each row, None without a row
    missing, \* rows with file_status 'missing'
    done,    \* rows whose file is transcoded
    seen,    \* rows whose last_seen_at is not before the cutoff
    phase,   \* where the scheduler's task is
    pages,   \* pages of each kind this sync has still to read
    got,     \* the listing this sync has read so far
    left,    \* drafts this sync has still to write
    trigger, \* the permit stored in the Notify
    ok,      \* the last sync returned Ok
    owed,    \* a webhook was accepted and no sync has started since
    disturbed, \* kinds that changed, or were wrongly answered to be empty,
               \* since this sync started
    changes,
    faults

provider == <<listed, changes>>
rows == <<known, shows, path, missing, done>>
sync == <<phase, pages, got, left, seen>>
ghosts == <<owed, disturbed>>
vars == <<provider, rows, sync, trigger, ok, ghosts, faults>>

SameId(id, s, t) == id[s] # None /\ id[s] = id[t]

Listing == [Items -> Paths \cup {None}]

TypeOK ==
    /\ listed \in Listing /\ got \in Listing
    /\ known \subseteq Series /\ shows \subseteq known
    /\ \A s, t \in shows : s # t => ~SameId(Tmdb, s, t) /\ ~SameId(Tvdb, s, t)
    /\ path \in [Files -> Paths \cup {None}]
    /\ missing \subseteq Files /\ done \subseteq Files /\ seen \subseteq Files
    /\ \A i \in missing \cup done \cup seen : path[i] # None
    /\ \A i, j \in Files : path[i] = path[j] /\ path[i] # None => i = j
    /\ phase \in {"startup", "idle", "debounce", "fetch", "write"}
    /\ pages \in [Kinds -> SUBSET (0..Cardinality(Items))]
    /\ left \in [Kinds -> SUBSET Items]
    /\ {trigger, ok, owed} \subseteq BOOLEAN
    /\ disturbed \subseteq Kinds
    /\ changes \in 0..MaxChanges /\ faults \in 0..MaxFaults

NoDrafts == [K \in Kinds |-> {}]
NoPages == [K \in Kinds |-> {}]
Nothing == [i \in Items |-> None]

Init ==
    /\ listed \in {l \in Listing : \A i \in Items : l[i] \in Homes[i] \cup {None}}
    /\ \A i, j \in Items : listed[i] = listed[j] /\ listed[i] # None => i = j
    /\ known = {} /\ shows = {}
    /\ path = [i \in Files |-> None]
    /\ missing = {} /\ done = {} /\ seen = {}
    /\ phase = "startup"
    /\ pages = NoPages /\ got = Nothing /\ left = NoDrafts
    /\ trigger = FALSE /\ ok = FALSE
    /\ owed = FALSE /\ disturbed = {}
    /\ changes = 0 /\ faults = 0

-----------------------------------------------------------------------------
(* The scheduler.                                                          *)

\* sync(): the cutoff is taken before anything is read, so every row is now
\* untouched, and the three listings start together.
BeginSync ==
    /\ phase' = "fetch"
    /\ seen' = {}
    /\ pages' = [K \in Kinds |-> {0}]
    /\ got' = Nothing
    /\ owed' = FALSE /\ disturbed' = {}
    /\ UNCHANGED <<provider, rows, left, ok, faults>>

StartupSync ==
    /\ phase = "startup"
    /\ BeginSync
    /\ UNCHANGED trigger

\* Mutant: a failed sync stops the ticker.
Tick_StopsOnError ==
    /\ Periodic
    /\ phase = "idle" /\ ok
    /\ BeginSync
    /\ UNCHANGED trigger

Tick ==
    /\ Periodic
    /\ phase = "idle"
    /\ BeginSync
    /\ UNCHANGED trigger

TakeTrigger ==
    /\ phase = "idle" /\ trigger
    /\ trigger' = FALSE
    /\ phase' = "debounce"
    /\ UNCHANGED <<provider, rows, pages, got, left, seen, ok, ghosts, faults>>

DebounceOver ==
    /\ phase = "debounce"
    /\ BeginSync
    /\ UNCHANGED trigger

\* POST /sync with the right token; further permits coalesce into one.
Webhook ==
    /\ trigger' = TRUE /\ owed' = TRUE
    /\ UNCHANGED <<provider, rows, sync, ok, disturbed, faults>>

\* Mutant: the permit is cleared when a sync ends.
EndSync_DropsPermit(result) ==
    /\ phase' = "idle"
    /\ ok' = result
    /\ pages' = NoPages /\ got' = Nothing /\ left' = NoDrafts /\ seen' = {}
    /\ trigger' = FALSE
    /\ UNCHANGED <<provider, ghosts>>

\* run_sync swallows the error and waits for the next tick or trigger.
EndSync(result) ==
    /\ phase' = "idle"
    /\ ok' = result
    /\ pages' = NoPages /\ got' = Nothing /\ left' = NoDrafts /\ seen' = {}
    /\ UNCHANGED <<provider, trigger, ghosts>>

-----------------------------------------------------------------------------
(* Reading the library.                                                    *)

Listed(K) == {i \in K : listed[i] # None}

\* The items a page holds when it is asked for: a page is a range of
\* positions, and an item's position depends on the items before it.
Page(K, n) ==
    {i \in Listed(K) : Cardinality({j \in Listed(K) : j < i}) \div PageSize = n}

\* The first page tells how many there are; the others are read in any order.
ReadPage(K, n) ==
    /\ phase = "fetch" /\ n \in pages[K]
    /\ got' = [i \in Items |-> IF i \in Page(K, n) THEN listed[i] ELSE got[i]]
    /\ pages' = [pages EXCEPT ![K] =
           IF n # 0 THEN @ \ {n}
           ELSE 1..((Cardinality(Listed(K)) - 1) \div PageSize)]
    /\ UNCHANGED <<provider, rows, phase, left, seen, trigger, ok, ghosts, faults>>

\* The provider answers, and wrongly says it has no item of a kind.
EmptyAnswer(K) ==
    /\ faults < MaxFaults
    /\ phase = "fetch" /\ pages[K] = {0} /\ Listed(K) # {}
    /\ pages' = [pages EXCEPT ![K] = {}]
    /\ disturbed' = disturbed \cup {K}
    /\ faults' = faults + 1
    /\ UNCHANGED <<provider, rows, phase, got, left, seen, trigger, ok, owed>>

\* A request, a statement or a commit fails: try_join! drops what is still
\* running, and the committed chunks stay.
SyncFails ==
    /\ faults < MaxFaults
    /\ phase \in {"fetch", "write"}
    /\ EndSync(FALSE)
    /\ faults' = faults + 1
    /\ UNCHANGED rows

-----------------------------------------------------------------------------
(* Writing the rows.                                                       *)

Read(K) == {i \in K : got[i] # None}

\* Items that lack what their draft needs map to none.
MapsToEpisode(i) == i \in Episodes \ Unreadable
MapsToMovie(i) == i \in Movies \ Unreadable

\* An episode that does not map, or whose series was not listed, is skipped.
Drafts(K) ==
    IF K = Episodes
    THEN {i \in Read(Episodes) : MapsToEpisode(i) /\ got[Parent[i]] # None}
    ELSE Read(K)

\* The three listings are there.
ListingsRead ==
    /\ phase = "fetch" /\ pages = NoPages
    /\ phase' = "write"
    /\ left' = [K \in Kinds |-> Drafts(K)]
    /\ UNCHANGED <<provider, rows, pages, got, seen, trigger, ok, ghosts, faults>>

Chunks(K) ==
    {c \in SUBSET left[K] :
        Cardinality(c) = IF Cardinality(left[K]) < ChunkSize
                         THEN Cardinality(left[K]) ELSE ChunkSize}

\* find_or_create_series: the drafts of a chunk no row is found for, neither by
\* their tmdb id, when their turn comes, nor by their reference.
Inserted(c) ==
    {s \in c \ known : \A t \in shows \cup {t \in c \ known : t < s} : ~SameId(Tmdb, s, t)}

\* The insert does not look the tvdb id up.
SeriesClash(c) ==
    \E s \in Inserted(c) : \E t \in (shows \cup Inserted(c)) \ {s} : SameId(Tvdb, s, t)

\* insert_series_batched, before any file is written.
SyncSeries(c) ==
    /\ phase = "write" /\ c # {}
    /\ ~SeriesClash(c)
    /\ shows' = shows \cup Inserted(c)
    /\ known' = known \cup c
    /\ left' = [left EXCEPT ![Series] = @ \ c]
    /\ UNCHANGED <<provider, path, missing, done, phase, pages, got, seen, trigger, ok,
                   ghosts, faults>>

SeriesClashes(c) ==
    /\ phase = "write" /\ c # {}
    /\ SeriesClash(c)
    /\ EndSync(FALSE)
    /\ UNCHANGED <<rows, faults>>

\* Then the movies and the episodes are written concurrently.
WritesFiles == phase = "write" /\ left[Series] = {}

\* One movie that does not map fails the collect, and with it the sync.
MovieUnreadable ==
    /\ WritesFiles
    /\ \E i \in left[Movies] : ~MapsToMovie(i)
    /\ EndSync(FALSE)
    /\ UNCHANGED <<rows, faults>>

\* The upsert resolves a conflict on the provider's id only: the path of a
\* draft may still be another row's, as it is when the draft's turn comes.
Clashes(c) ==
    \E i \in c : \E j \in Files \ {i} :
        got[i] = IF j \in c /\ j < i THEN got[j] ELSE path[j]

\* Mutant: the upsert does not undo the 'missing' mark.
WriteChunk_StaysMissing(K, c) ==
    /\ WritesFiles /\ c # {}
    /\ K = Movies => \A i \in left[K] : MapsToMovie(i)
    /\ ~Clashes(c)
    /\ path' = [i \in Files |-> IF i \in c THEN got[i] ELSE path[i]]
    /\ seen' = seen \cup c
    /\ left' = [left EXCEPT ![K] = @ \ c]
    /\ UNCHANGED <<provider, known, shows, missing, done, phase, pages, got, trigger, ok,
                   ghosts, faults>>

\* upsert_movie_file, upsert_episode_file: a row the provider lists is seen,
\* has the listed path and is present again.
WriteChunk(K, c) ==
    /\ WritesFiles /\ c # {}
    /\ K = Movies => \A i \in left[K] : MapsToMovie(i)
    /\ ~Clashes(c)
    /\ path' = [i \in Files |-> IF i \in c THEN got[i] ELSE path[i]]
    /\ seen' = seen \cup c
    /\ missing' = missing \ c
    /\ left' = [left EXCEPT ![K] = @ \ c]
    /\ UNCHANGED <<provider, known, shows, done, phase, pages, got, trigger, ok, ghosts,
                   faults>>

ChunkClashes(K, c) ==
    /\ WritesFiles /\ c # {}
    /\ K = Movies => \A i \in left[K] : MapsToMovie(i)
    /\ Clashes(c)
    /\ EndSync(FALSE)
    /\ UNCHANGED <<rows, faults>>

\* Rows whose last_seen_at is before the cutoff.
Unseen == {i \in Files : path[i] # None /\ i \notin seen}

\* Mutant: a sync that read nothing reconciles too.
Reconcile_Unguarded ==
    /\ phase = "write" /\ left = NoDrafts
    /\ missing' = missing \cup Unseen
    /\ EndSync(TRUE)
    /\ UNCHANGED <<known, shows, path, done, faults>>

\* reconcile_missing_files, unless the listings held nothing at all.
Reconcile ==
    /\ phase = "write" /\ left = NoDrafts
    /\ missing' = IF Drafts(Movies) \cup Drafts(Episodes) = {} THEN missing
                  ELSE missing \cup Unseen
    /\ EndSync(TRUE)
    /\ UNCHANGED <<known, shows, path, done, faults>>

-----------------------------------------------------------------------------
(* Around the sync.                                                        *)

Disturb(i) == disturbed' = disturbed \cup {K \in Kinds : i \in K}

\* The provider imports an item, drops one or finds one elsewhere.
LibraryChanges(i) ==
    /\ changes < MaxChanges
    /\ \E p \in Homes[i] \cup {None} :
         /\ p # listed[i]
         /\ p # None => \A j \in Items : listed[j] # p
         /\ listed' = [listed EXCEPT ![i] = p]
    /\ changes' = changes + 1
    /\ Disturb(i)
    /\ UNCHANGED <<rows, sync, trigger, ok, owed, faults>>

\* Mutant: the row takes a path another row has.
CompleteTranscode_Unchecked(i) ==
    /\ path[i] # None /\ i \notin missing \cup done
    /\ Final[path[i]] # path[i]
    /\ path' = [path EXCEPT ![i] = Final[@]]
    /\ done' = done \cup {i}
    /\ Disturb(i)
    /\ UNCHANGED <<provider, known, shows, missing, sync, trigger, ok, owed, faults>>

\* complete_transcode: the encode has another extension, so another path.
CompleteTranscode(i) ==
    /\ path[i] # None /\ i \notin missing \cup done
    /\ Final[path[i]] # path[i]
    /\ \A j \in Files : path[j] # Final[path[i]]
    /\ path' = [path EXCEPT ![i] = Final[@]]
    /\ done' = done \cup {i}
    /\ Disturb(i)
    /\ UNCHANGED <<provider, known, shows, missing, sync, trigger, ok, owed, faults>>

\* The permit is in memory; the restarted process syncs first thing.
Crash ==
    /\ faults < MaxFaults
    /\ phase # "startup"
    /\ phase' = "startup"
    /\ trigger' = FALSE /\ ok' = FALSE
    /\ pages' = NoPages /\ got' = Nothing /\ left' = NoDrafts /\ seen' = {}
    /\ faults' = faults + 1
    /\ UNCHANGED <<provider, rows, ghosts>>

-----------------------------------------------------------------------------
Step ==
    \/ StartupSync
    \/ DebounceOver
    \/ \E K \in Kinds : \E n \in pages[K] : ReadPage(K, n)
    \/ ListingsRead
    \/ \E c \in Chunks(Series) : SyncSeries(c) \/ SeriesClashes(c)
    \/ MovieUnreadable
    \/ \E K \in {Movies, Episodes} : \E c \in Chunks(K) :
           WriteChunk(K, c) \/ ChunkClashes(K, c)
    \/ Reconcile

Next ==
    \/ Step
    \/ Tick
    \/ TakeTrigger
    \/ Webhook
    \/ SyncFails
    \/ \E K \in Kinds : EmptyAnswer(K)
    \/ \E i \in Items : LibraryChanges(i)
    \/ \E i \in Files : CompleteTranscode(i)
    \/ Crash

\* A sync that runs is awaited to its end, and the ticker ticks.
Spec == Init /\ [][Next]_vars /\ WF_vars(Step) /\ WF_vars(Tick)

-----------------------------------------------------------------------------
(* Properties.                                                             *)

\* The items a sync of the library as it is now would write.
Readable ==
    {i \in Files : /\ listed[i] # None /\ i \notin Unreadable
                   /\ i \in Episodes => listed[Parent[i]] # None}

\* Every item the provider lists has a present row at its path, and no other
\* row is present, unless there is no item and reconcile holds back.
Synced ==
    \A i \in Files :
        IF i \in Readable THEN path[i] = listed[i] /\ i \notin missing
        ELSE path[i] = None \/ i \in missing \/ Readable = {}

\* A sync that succeeded while nothing changed left the rows as the provider
\* lists them (SyncOrchestrator::sync, sync.rs:35).
CalmSyncIsRight ==
    phase = "idle" /\ ok /\ disturbed = {} => Synced

\* An accepted webhook is answered by a sync that lists the library after it:
\* until then its permit is stored, or the scheduler is about to sync
\* (SyncScheduler::run, scheduler.rs:60).
NoTriggerLost ==
    owed => trigger \/ phase \in {"startup", "debounce"}

\* A file is flagged missing only by a sync that saw another one, and only if
\* the provider does not list it (it, or its series, in a form that maps), if
\* the library was changing while it was read, or if the provider gave an
\* empty answer for its kind (reconcile_missing_files, store/mod.rs:442).
FlagsOnlyUnlisted ==
    [][\A i \in missing' \ missing :
          /\ seen # {}
          /\ \/ i \notin Readable
             \/ i \in Movies /\ Movies \in disturbed
             \/ i \in Episodes /\ {Episodes, Series} \cap disturbed # {}]_vars

\* A movie that does not map, an item listed at the path of another row, or a
\* series no row is found for, whose tvdb id another one has.
Blocked ==
    \/ Listed(Movies) \cap Unreadable # {}
    \/ \E i \in Readable : \E j \in Files \ {i} : path[j] = listed[i]
    \/ \E s \in Listed(Series) \ known :
         /\ \A t \in shows : ~SameId(Tmdb, s, t)
         /\ \E t \in (shows \cup (Listed(Series) \ known)) \ {s} :
              SameId(Tvdb, s, t) /\ ~SameId(Tmdb, s, t)

\* With the ticker on, once the library stops changing the rows end up as it
\* lists them, unless an item no sync can write makes every sync fail: the
\* promise of the periodic sync (README.md:46), and where it ends.
ConvergesUnlessBlocked == <>[](Synced \/ Blocked)
=============================================================================
