------------------------------ MODULE Recovery ------------------------------
(***************************************************************************)
(* Recovering the end of a song.  A recorder (external) sometimes writes   *)
(* only the first sector of a song's allocation table: the song claims     *)
(* more audio blocks than its table has.  When such a song is selected,    *)
(* the clusters that are in use and belong to no song are appended to the  *)
(* table, in memory; in maintenance mode the user may save the result.     *)
(*                                                                         *)
(* A table is the sequence of its entries.  That a table with more entries *)
(* than a song record has room for is written behind the record is not     *)
(* modelled.                                                               *)
(***************************************************************************)
EXTENDS Integers, Sequences, FiniteSets, Functions

CONSTANTS
    RecSongs,          \* the songs of the drive: 1 .. n
    RecClusters,       \* clusters of the drive
    BlocksPerCluster,
    TableLimit,        \* entries in a sector of the table (64)
    MaxBlocks,         \* the most blocks of a song (MAX_BLOCKS_IN_SONG)
    RecTables          \* the tables recordings may have

RecEntry == [cluster : 0 .. RecClusters - 1, blocks : Nat \ {0}]

ASSUME RecoveryAssumption ==
    /\ IsFiniteSet(RecSongs) /\ RecSongs = 1 .. Cardinality(RecSongs)
    /\ RecClusters \in Nat \ {0} /\ BlocksPerCluster \in Nat \ {0}
    /\ TableLimit \in Nat \ {0} /\ MaxBlocks \in Nat
    /\ RecTables \subseteq Seq(RecEntry) \ {<<>>}

VARIABLES
    recDisk,    \* the song records: tables and the number of blocks claimed
    recUsage,   \* the drive usage table: clusters in use
    recMem,     \* the selected song: currsong
    recAsking,  \* the user is asked whether to save it
    recMade     \* history: the tables as recorded

recVars == <<recDisk, recUsage, recMem, recAsking, recMade>>

------------------------------------------------------------------------------
(* Tables. *)

\* The clusters of an entry; the last one may be used in part.
ClustersOf(e) == (e.blocks + BlocksPerCluster - 1) \div BlocksPerCluster

\* The clusters of a table, in the order of the audio.
InOrder(table) ==
    LET upto[i \in 0 .. Len(table)] ==
          IF i = 0 THEN <<>>
          ELSE upto[i - 1] \o [k \in 1 .. ClustersOf(table[i]) |-> table[i].cluster + k - 1]
    IN  upto[Len(table)]

\* What unmark_used_clusters marks free.
CoverOf(table) == {InOrder(table)[i] : i \in DOMAIN InOrder(table)}

\* A recorder (external) gives a recording free clusters, each of them once.
ASSUME RecordingAssumption ==
    \A t \in RecTables : IsInjective(InOrder(t))

\* The audio blocks of a table; the program takes any number beyond MaxBlocks
\* for that number (audioblocks_in_alloctable, is_fixable_unexpected_end).
Capped(blocks) == IF blocks > MaxBlocks THEN MaxBlocks ELSE blocks
BlocksInTable(table) ==
    LET upto[i \in 0 .. Len(table)] == IF i = 0 THEN 0 ELSE upto[i - 1] + table[i].blocks
    IN  upto[Len(table)]

\* has_unexpected_end, and that it is one of the kind that can be repaired.
UnexpectedEnd(r) == Capped(BlocksInTable(r.table)) < r.blocks
Fixable(r) ==
    /\ UnexpectedEnd(r) /\ Capped(BlocksInTable(r.table)) < Capped(r.blocks)
    /\ Len(r.table) = TableLimit

\* Mutant: the last song is not looked at.
MutOrphans ==
    recUsage \ UNION {CoverOf(recDisk[s].table) : s \in RecSongs \ {Cardinality(RecSongs)}}

\* findorphanclusters: in use, and in the table of no song on the drive.
Orphans == recUsage \ UNION {CoverOf(recDisk[s].table) : s \in RecSongs}

\* Mutant: a run ends before its last cluster.
MutRunLength(set, c) == Cardinality({d \in set : d > c /\ c .. d \subseteq set})

\* The clusters of a set that follow each other from c on.
RunLength(set, c) == Cardinality({d \in set : d >= c /\ c .. d \subseteq set})

\* appendorphanclusters: the entries it appends, one for each run of clusters.
RunEntries(set) ==
    LET starts == {c \in set : c - 1 \notin set}
    IN  [i \in 1 .. Cardinality(starts) |->
           LET c == CHOOSE c \in starts : Cardinality({d \in starts : d <= c}) = i
           IN  [cluster |-> c, blocks |-> BlocksPerCluster * RunLength(set, c)]]

------------------------------------------------------------------------------
NoRecord == [table |-> <<>>, blocks |-> 0]
NotSelected == [song |-> 0, table |-> <<>>, blocks |-> 0]

RecoveryInit ==
    /\ recDisk = [s \in RecSongs |-> NoRecord]
    /\ recUsage = {}
    /\ recMem = NotSelected
    /\ recAsking = FALSE
    /\ recMade = [s \in RecSongs |-> <<>>]

\* The recorder records a song, with all of its table or only the first
\* sector; the program is not running then.
RecordSong(s, table, cut) ==
    /\ ~recAsking
    /\ recMade[s] = <<>> /\ CoverOf(table) \cap recUsage = {}
    /\ cut => Len(table) > TableLimit
    /\ recDisk' = [recDisk EXCEPT ![s] =
                     [table |-> IF cut THEN SubSeq(table, 1, TableLimit) ELSE table,
                      blocks |-> BlocksInTable(table)]]
    /\ recUsage' = recUsage \cup CoverOf(table)
    /\ recMade' = [recMade EXCEPT ![s] = table]
    /\ recMem' = NotSelected
    /\ UNCHANGED recAsking

\* A song is selected.
SelectSong(s, maintenance) ==
    /\ ~recAsking /\ recDisk[s].table # <<>>
    /\ LET r == recDisk[s]
           t == r.table \o RunEntries(Orphans)
       IN  IF Fixable(r)
           THEN /\ recMem' = [song |-> s, table |-> t,
                              blocks |-> Capped(BlocksInTable(t))]
                /\ recAsking' = maintenance
           ELSE /\ recMem' = [song |-> s, table |-> r.table, blocks |-> r.blocks]
                /\ UNCHANGED recAsking
    /\ UNCHANGED <<recDisk, recUsage, recMade>>

\* The user answers whether the recovered song is to be saved.
AnswerSave(yes) ==
    /\ recAsking /\ recAsking' = FALSE
    /\ recDisk' = IF yes
                  THEN [recDisk EXCEPT ![recMem.song] =
                          [table |-> recMem.table, blocks |-> recMem.blocks]]
                  ELSE recDisk
    /\ UNCHANGED <<recUsage, recMem, recMade>>

\* The selected song is deleted: the clusters of its table on the drive, not
\* those it has lost, are free again.
DeleteSelected ==
    /\ ~recAsking /\ recMem.song # 0
    /\ recUsage' = recUsage \ CoverOf(recDisk[recMem.song].table)
    /\ recDisk' = [recDisk EXCEPT ![recMem.song] = NoRecord]
    /\ recMem' = NotSelected
    /\ UNCHANGED <<recAsking, recMade>>

RecoveryNext ==
    \/ \E s \in RecSongs, t \in RecTables, cut \in BOOLEAN : RecordSong(s, t, cut)
    \/ \E s \in RecSongs, maintenance \in BOOLEAN : SelectSong(s, maintenance)
    \/ \E yes \in BOOLEAN : AnswerSave(yes)
    \/ DeleteSelected

RecoverySpec == RecoveryInit /\ [][RecoveryNext]_recVars

------------------------------------------------------------------------------
(* Properties. *)

LostBy(s) == CoverOf(recMade[s]) \ CoverOf(recDisk[s].table)

\* The entries the recorder did not write lead upwards over the drive.
LostInOrder(s) ==
    LET c == InOrder(recMade[s])
        n == Len(InOrder(recDisk[s].table))
    IN  \A i, j \in DOMAIN c : n < i /\ i < j => c[i] < c[j]

\* When a damaged song is the only reason for clusters that belong to no
\* song, it is given back all it lost and nothing else, in the right order if
\* the lost part lies in one direction on the drive; what was not lost stays
\* in place, and the song can be read to the end again.
RecoveryIsExact ==
    [][\A s \in RecSongs :
         (recMem'.song = s /\ recMem' # recMem
            /\ Fixable(recDisk[s]) /\ Orphans = LostBy(s)) =>
         /\ CoverOf(recMem'.table) = CoverOf(recMade[s])
         /\ SubSeq(recMem'.table, 1, TableLimit) = recDisk[s].table
         /\ LostInOrder(s) => InOrder(recMem'.table) = InOrder(recMade[s])
         /\ ~UnexpectedEnd(recMem')
         /\ recMem'.blocks >= Capped(BlocksInTable(recMade[s]))
      ]_recVars

\* However many songs are damaged, recovered, saved or deleted: no cluster
\* comes to belong to two songs, and none that belongs to a song is free.
NoClusterShared ==
    /\ \A s \in RecSongs : CoverOf(recDisk[s].table) \subseteq recUsage
    /\ \A s, u \in RecSongs :
         s # u => CoverOf(recDisk[s].table) \cap CoverOf(recDisk[u].table) = {}
=============================================================================
