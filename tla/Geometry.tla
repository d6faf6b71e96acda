------------------------------ MODULE Geometry ------------------------------
(***************************************************************************)
(* How a drive is divided: the superblock that a format computes from the  *)
(* drive's last sector, and the clusters that the usage table then offers. *)
(* In front is the file system, behind it the undo area, then audio up to  *)
(* the copy of the file system at the end of the drive.                    *)
(***************************************************************************)
EXTENDS Integers, FiniteSets

CONSTANTS
    FsSectors,      \* sectors of the file system (0x10c76)
    DataArea,       \* the first audio sector (0x1397f6)
    BlockSectors,   \* sectors of an audio block (0x480)
    MaxClusters,    \* bits in the usage table in front of its checksum (61376)
    LastSectors     \* the last sectors that drives may have

ASSUME GeometryAssumption ==
    /\ FsSectors \in Nat \ {0} /\ DataArea \in Nat /\ FsSectors <= DataArea
    /\ BlockSectors \in Nat \ {0} /\ MaxClusters \in Nat \ {0}
    /\ LastSectors \subseteq Nat

TableBits == 0 .. MaxClusters - 1

VARIABLES
    geoLast,   \* the last sector of the drive; -1: not formatted
    geoBoot,   \* the superblock's numbers
    geoUsed    \* the bits that are set in the usage table

geoVars == <<geoLast, geoBoot, geoUsed>>

------------------------------------------------------------------------------
(* The superblock. *)

\* Sectors that neither a file system nor the undo area takes.
Allocatable(last) == last - (DataArea + FsSectors - 1)
AudioBlocksOf(last) == Allocatable(last) \div BlockSectors

\* Mutant: rounded down, there can be more clusters than bits.
MutPerCluster(last) ==
    IF AudioBlocksOf(last) < MaxClusters THEN 1 ELSE AudioBlocksOf(last) \div MaxClusters

\* Blocks of a cluster: as few as there are bits for.
PerCluster(last) ==
    (AudioBlocksOf(last) \div MaxClusters)
    + (IF AudioBlocksOf(last) % MaxClusters > 0 THEN 1 ELSE 0)

\* useinternalboot.
Superblock(last) ==
    [allocatable |-> Allocatable(last), perCluster |-> PerCluster(last),
     free |-> AudioBlocksOf(last) \div PerCluster(last)]

\* clustercount, which does not use the count of clusters in the superblock.
ClusterSectors == BlockSectors * geoBoot.perCluster
ClusterCount == geoBoot.allocatable \div ClusterSectors

\* cluster2sector and sector2cluster.
FirstSectorOf(c) == DataArea + ClusterSectors * c
ClusterAt(s) ==
    LET offset == s - DataArea
    IN  (offset - (offset % ClusterSectors)) \div ClusterSectors

\* freeclustercount.
FreeBits == TableBits \ geoUsed

------------------------------------------------------------------------------
GeometryInit ==
    /\ geoLast = -1
    /\ geoBoot = [allocatable |-> 0, perCluster |-> 1, free |-> 0]
    /\ geoUsed = TableBits

\* resetdriveusage: as many free clusters as the superblock says.
NewUsage(free) == TableBits \ (0 .. free - 1)

\* quickformat of a drive, refused if there is no room for an audio block.
FormatDrive(last) ==
    /\ last >= DataArea + BlockSectors + FsSectors - 1
    /\ geoLast' = last
    /\ geoBoot' = Superblock(last)
    /\ geoUsed' = NewUsage(geoBoot'.free)

\* allocatecluster and freecluster, for a song.
TakeCluster(c) ==
    /\ c \in FreeBits /\ geoUsed' = geoUsed \cup {c}
    /\ UNCHANGED <<geoLast, geoBoot>>

GiveCluster(c) ==
    /\ c \in geoUsed /\ c < ClusterCount /\ geoUsed' = geoUsed \ {c}
    /\ UNCHANGED <<geoLast, geoBoot>>

\* savedriveusage brings the superblock's count of free clusters up to date.
SaveUsage ==
    /\ geoLast # -1
    /\ geoBoot' = [geoBoot EXCEPT !.free = Cardinality(FreeBits)]
    /\ UNCHANGED <<geoLast, geoUsed>>

GeometryNext ==
    \/ \E last \in LastSectors : FormatDrive(last)
    \/ \E c \in TableBits : TakeCluster(c) \/ GiveCluster(c)
    \/ SaveUsage

GeometrySpec == GeometryInit /\ [][GeometryNext]_geoVars

------------------------------------------------------------------------------
(* Properties. *)

\* On a drive of any size, and after any use of it, what the table offers are
\* clusters of the audio area: behind the undo area and in front of the copy
\* of the file system; each of their sectors is found to belong to them.  No
\* cluster is without a bit, and no cluster larger than that requires.
ClustersFit ==
    geoLast # -1 =>
      /\ \A c \in FreeBits :
           /\ FirstSectorOf(c) >= DataArea
           /\ FirstSectorOf(c) + ClusterSectors - 1 <= geoLast - FsSectors
           /\ \A k \in 0 .. ClusterSectors - 1 : ClusterAt(FirstSectorOf(c) + k) = c
      /\ ClusterCount <= MaxClusters
      /\ (geoBoot.perCluster - 1) * MaxClusters < AudioBlocksOf(geoLast)
=============================================================================
