SPECIFICATION Spec
CONSTANTS
    Series = {1, 6, 7}
    Movies = {2, 3, 4}
    Episodes = {5}
    Parent <- MCParent
    Tmdb <- MCTmdb
    Tvdb <- MCTvdb
    Paths = {"dir", "dir2", "dir3", "mp4", "mkv", "ep", "iso"}
    Homes <- MCHomes
    Final <- MCFinal
    None = None
    Unreadable = {4}
    PageSize = 2
    ChunkSize = 2
    Periodic = TRUE
    MaxChanges = 1
    MaxFaults = 1
INVARIANTS TypeOK CalmSyncIsRight NoTriggerLost
PROPERTIES FlagsOnlyUnlisted ConvergesUnlessBlocked
CHECK_DEADLOCK FALSE
