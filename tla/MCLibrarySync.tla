---------------------------- MODULE MCLibrarySync ----------------------------
EXTENDS LibrarySync

MCParent == [e \in Episodes |-> 1]
\* Series 7 is series 1 under a new id; series 6 has its tvdb id and no other.
MCTmdb == [s \in Series |-> IF s # 6 THEN 10 ELSE None]
MCTvdb == [s \in Series |-> 20]
MCHomes == [i \in Items |-> CASE i = 1 -> {"dir"}
                              [] i = 6 -> {"dir2"}
                              [] i \in Series -> {"dir3"}
                              [] i \in Episodes -> {"ep"}
                              [] i \in Unreadable -> {"iso"}
                              [] i = 3 -> {"mkv"}
                              [] OTHER -> {"mp4", "mkv"}]
MCFinal == [p \in Paths |-> IF p = "mp4" THEN "mkv" ELSE p]
=============================================================================
