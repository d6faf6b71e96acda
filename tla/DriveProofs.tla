----------------------------- MODULE DriveProofs -----------------------------
(***************************************************************************)
(* Proofs about whole drives: Geometry, that clusters fit on drives of     *)
(* every size; DriveCopy, for drives and headers of any size, any number   *)
(* of copies and writes, and any number of errors; and DriveScan, for any  *)
(* number of device names and any number of devices that come and go.      *)
(***************************************************************************)
EXTENDS Geometry, DriveCopy, DriveScan, FiniteSetTheorems, SequenceTheorems,
        WellFoundedInduction, TLAPS

------------------------------------------------------------------------------
(* Geometry: division. *)

\* The quotient is the largest number of times that b fits into a.
LEMMA DivBounds ==
    ASSUME NEW a \in Nat, NEW b \in Nat \ {0}
    PROVE  /\ a \div b \in Nat
           /\ (a \div b) * b <= a
           /\ a < (a \div b) * b + b
BY SMT

\* A number is what its quotient and its remainder say.
LEMMA DivMod ==
    ASSUME NEW a \in Nat, NEW b \in Nat \ {0}
    PROVE  a % b \in 0 .. b - 1 /\ a = (a \div b) * b + (a % b)
BY SMT

\* Quotient and remainder of a multiple and something less than b.
LEMMA DivUnique ==
    ASSUME NEW c \in Nat, NEW b \in Nat \ {0}, NEW r \in 0 .. b - 1
    PROVE  (c * b + r) \div b = c /\ (c * b + r) % b = r
BY SMT

LEMMA DivExact ==
    ASSUME NEW c \in Nat, NEW b \in Nat \ {0}
    PROVE  (c * b) \div b = c
BY SMT

LEMMA TimesMonotone ==
    ASSUME NEW a \in Int, NEW b \in Int, a <= b, NEW k \in Nat
    PROVE  a * k <= b * k
BY SMT

LEMMA TimesCancel ==
    ASSUME NEW a \in Int, NEW b \in Int, NEW k \in Nat \ {0}, a * k < b * k
    PROVE  a < b
BY SMT

------------------------------------------------------------------------------
(* The superblock of a drive with room for an audio block. *)

Formattable(last) == last \in Nat /\ last >= DataArea + BlockSectors + FsSectors - 1

\* There is at least one block to give away.
LEMMA SomeBlocks ==
    ASSUME NEW last, Formattable(last)
    PROVE  /\ Allocatable(last) \in Nat
           /\ AudioBlocksOf(last) \in Nat \ {0}
           /\ AudioBlocksOf(last) * BlockSectors <= Allocatable(last)
           /\ Allocatable(last) < AudioBlocksOf(last) * BlockSectors + BlockSectors
<1> USE GeometryAssumption
<1>1. Allocatable(last) \in Nat /\ Allocatable(last) >= BlockSectors
  BY DEF Formattable, Allocatable
<1> DEFINE a == Allocatable(last)
           n == a \div BlockSectors
<1>2. n \in Nat /\ n * BlockSectors <= a /\ a < n * BlockSectors + BlockSectors
  BY <1>1, DivBounds
<1>3. n # 0
  BY <1>1, <1>2
<1> QED BY <1>1, <1>2, <1>3 DEF AudioBlocksOf

\* Blocks of a cluster: enough for the bits to do, and no more than that.
LEMMA ClusterSize ==
    ASSUME NEW last, Formattable(last)
    PROVE  /\ PerCluster(last) \in Nat \ {0}
           /\ AudioBlocksOf(last) <= PerCluster(last) * MaxClusters
           /\ (PerCluster(last) - 1) * MaxClusters < AudioBlocksOf(last)
<1> USE GeometryAssumption
<1> DEFINE n == AudioBlocksOf(last)
           q == n \div MaxClusters
           r == n % MaxClusters
<1>1. n \in Nat \ {0}
  BY SomeBlocks
<1>2. q \in Nat /\ r \in 0 .. MaxClusters - 1 /\ n = q * MaxClusters + r
  BY <1>1, DivBounds, DivMod
<1>3. PerCluster(last) = q + (IF r > 0 THEN 1 ELSE 0)
  BY DEF PerCluster
<1> HIDE DEF n, q, r
<1>4. q * MaxClusters \in Nat /\ (q + 1) * MaxClusters = q * MaxClusters + MaxClusters
      /\ (q - 1) * MaxClusters = q * MaxClusters - MaxClusters
  BY <1>2
<1>5. CASE r > 0
  <2>1. PerCluster(last) = q + 1
    BY <1>3, <1>5
  <2> QED BY <1>2, <1>4, <1>5, <2>1 DEF n
<1>6. CASE r = 0
  <2>1. PerCluster(last) = q
    BY <1>2, <1>3, <1>6
  <2>2. q # 0
    BY <1>1, <1>2, <1>6
  <2> QED BY <1>1, <1>2, <1>4, <1>6, <2>1, <2>2 DEF n
<1> QED BY <1>2, <1>5, <1>6

\* The count in the superblock is the one that clustercount computes anew; the
\* clusters have bits, and they fit into the allocatable sectors.
LEMMA ClusterNumber ==
    ASSUME NEW last, Formattable(last)
    PROVE  LET per == PerCluster(last)
               k   == Superblock(last).free
           IN  /\ k \in Nat
               /\ k <= MaxClusters
               /\ BlockSectors * per \in Nat \ {0}
               /\ k * (BlockSectors * per) <= Allocatable(last)
               /\ Allocatable(last) \div (BlockSectors * per) = k
<1> USE GeometryAssumption
<1> DEFINE n == AudioBlocksOf(last)
           p == PerCluster(last)
           a == Allocatable(last)
           k == n \div p
           s == BlockSectors * p
           m == a \div s
<1>1. /\ n \in Nat \ {0} /\ a \in Nat
      /\ n * BlockSectors <= a /\ a < n * BlockSectors + BlockSectors
  BY SomeBlocks
<1>2. p \in Nat \ {0} /\ n <= p * MaxClusters
  BY ClusterSize
<1>3. k \in Nat /\ k * p <= n /\ n < k * p + p
  BY <1>1, <1>2, DivBounds
<1>4. s \in Nat \ {0}
  BY <1>2
<1>5. m \in Nat /\ m * s <= a /\ a < m * s + s
  BY <1>1, <1>4, DivBounds
<1> HIDE DEF n, p, a, k, m
<1>6. k <= MaxClusters
  <2>1. k * p < (MaxClusters + 1) * p
    <3>1. (MaxClusters + 1) * p = p * MaxClusters + p /\ p * MaxClusters \in Nat
      BY <1>2
    <3>2. k * p \in Nat /\ n \in Nat
      BY <1>1, <1>2, <1>3
    <3> QED BY <1>2, <1>3, <3>1, <3>2
  <2>2. k < MaxClusters + 1
    BY <1>2, <1>3, <2>1, TimesCancel
  <2> QED BY <1>3, <2>2
<1>7. k * s <= a
  <2>1. (k * p) * BlockSectors <= n * BlockSectors
    BY <1>1, <1>2, <1>3, TimesMonotone
  <2>2. k * s = (k * p) * BlockSectors
    BY <1>2, <1>3
  <2> QED BY <1>1, <1>2, <1>3, <1>4, <2>1, <2>2
<1>8. k <= m
  <2>1. k * s < (m + 1) * s
    BY <1>1, <1>3, <1>4, <1>5, <1>7
  <2>2. k < m + 1
    BY <1>3, <1>4, <1>5, <2>1, TimesCancel
  <2> QED BY <1>3, <1>5, <2>2
<1>9. m <= k
  <2>1. m * s = (m * p) * BlockSectors
    BY <1>2, <1>5
  <2>2. (m * p) * BlockSectors < (n + 1) * BlockSectors
    BY <1>1, <1>2, <1>4, <1>5, <2>1
  <2>3. m * p \in Nat
    BY <1>2, <1>5
  <2>4. m * p < n + 1
    BY <1>1, <2>2, <2>3, TimesCancel
  <2>5. m * p < (k + 1) * p
    BY <1>1, <1>2, <1>3, <2>3, <2>4
  <2>6. m < k + 1
    BY <1>2, <1>3, <1>5, <2>5, TimesCancel
  <2> QED BY <1>3, <1>5, <2>6
<1>10. Superblock(last).free = k
  BY DEF Superblock, n, p, k
<1>11. a \div s = k
  BY <1>3, <1>5, <1>8, <1>9 DEF m
<1>12. Allocatable(last) = a /\ BlockSectors * PerCluster(last) = s
  BY DEF a, s, p
<1> HIDE DEF s
<1> QED BY <1>3, <1>4, <1>6, <1>7, <1>10, <1>11, <1>12

------------------------------------------------------------------------------
(* The invariant: a formatted drive has the numbers of its superblock, and    *)
(* no bit behind its clusters is ever free.                                   *)

GeometryInv ==
    geoLast # -1 =>
      /\ Formattable(geoLast)
      /\ geoBoot.allocatable = Allocatable(geoLast)
      /\ geoBoot.perCluster = PerCluster(geoLast)
      /\ \A c \in FreeBits : c < Superblock(geoLast).free

LEMMA GeometryInvHolds == GeometrySpec => []GeometryInv
<1> USE GeometryAssumption
<1>1. GeometryInit => GeometryInv
  BY DEF GeometryInit, GeometryInv
<1>2. GeometryInv /\ [GeometryNext]_geoVars => GeometryInv'
  <2> SUFFICES ASSUME GeometryInv, [GeometryNext]_geoVars
               PROVE  GeometryInv'
    OBVIOUS
  <2>1. ASSUME NEW last \in LastSectors, FormatDrive(last)
        PROVE  GeometryInv'
    <3>1. Formattable(last)
      BY <2>1 DEF FormatDrive, Formattable
    <3>2. geoLast' = last /\ geoBoot' = Superblock(last)
          /\ geoUsed' = TableBits \ (0 .. geoBoot'.free - 1)
      BY <2>1 DEF FormatDrive, NewUsage
    <3>3. geoBoot'.allocatable = Allocatable(last) /\ geoBoot'.perCluster = PerCluster(last)
      BY <3>2 DEF Superblock
    <3>4. Superblock(last).free \in Nat
      BY <3>1, ClusterNumber
    <3>5. ASSUME NEW c \in TableBits, c \notin geoUsed'
          PROVE  c < Superblock(last).free
      BY <3>2, <3>4, <3>5
    <3> QED BY <3>1, <3>2, <3>3, <3>5 DEF GeometryInv, FreeBits
  <2>2. ASSUME NEW c \in TableBits, TakeCluster(c)
        PROVE  GeometryInv'
    BY <2>2 DEF GeometryInv, TakeCluster, FreeBits
  <2>3. ASSUME NEW c \in TableBits, GiveCluster(c)
        PROVE  GeometryInv'
    <3> SUFFICES ASSUME geoLast # -1  PROVE GeometryInv'
      BY <2>3 DEF GiveCluster, GeometryInv
    <3>1. geoLast' = geoLast /\ geoBoot' = geoBoot /\ c < ClusterCount /\ geoUsed' = geoUsed \ {c}
      BY <2>3 DEF GiveCluster
    <3>2. ClusterCount = Superblock(geoLast).free
      BY ClusterNumber DEF GeometryInv, ClusterCount, ClusterSectors
    <3> QED BY <3>1, <3>2 DEF GeometryInv, FreeBits
  <2>4. CASE SaveUsage
    <3>1. geoLast' = geoLast /\ geoUsed' = geoUsed
          /\ geoBoot' = [geoBoot EXCEPT !.free = Cardinality(FreeBits)]
      BY <2>4 DEF SaveUsage
    <3>2. geoBoot'.allocatable = geoBoot.allocatable /\ geoBoot'.perCluster = geoBoot.perCluster
      BY <3>1
    <3> QED BY <3>1, <3>2 DEF GeometryInv, FreeBits
  <2>5. CASE UNCHANGED geoVars
    BY <2>5 DEF GeometryInv, geoVars, FreeBits
  <2> QED BY <2>1, <2>2, <2>3, <2>4, <2>5 DEF GeometryNext
<1> QED BY <1>1, <1>2, PTL DEF GeometrySpec

\* The sectors of a free cluster.
LEMMA FreeClusterFits ==
    ASSUME GeometryInv, geoLast # -1, NEW c \in FreeBits
    PROVE  /\ FirstSectorOf(c) >= DataArea
           /\ FirstSectorOf(c) + ClusterSectors - 1 <= geoLast - FsSectors
           /\ \A k \in 0 .. ClusterSectors - 1 : ClusterAt(FirstSectorOf(c) + k) = c
<1> USE GeometryAssumption
<1> DEFINE s == ClusterSectors
           n == Superblock(geoLast).free
<1>1. /\ Formattable(geoLast) /\ c < n
      /\ s = BlockSectors * PerCluster(geoLast)
  BY DEF GeometryInv, ClusterSectors
<1>2. n \in Nat /\ s \in Nat \ {0} /\ n * s <= Allocatable(geoLast)
  BY <1>1, ClusterNumber
<1>3. c \in Nat /\ Allocatable(geoLast) \in Nat
  BY <1>1, SomeBlocks DEF FreeBits, TableBits
<1>4. geoLast \in Nat
  BY <1>1 DEF Formattable
<1>5. FirstSectorOf(c) = DataArea + s * c
  BY DEF FirstSectorOf
<1> HIDE DEF s, n
<1>6. c * s \in Nat /\ s * c = c * s /\ (c + 1) * s = c * s + s
  BY <1>2, <1>3
<1>7. (c + 1) * s <= n * s
  BY <1>1, <1>2, <1>3, TimesMonotone
<1>8. DataArea + s * c + s - 1 <= geoLast - FsSectors
  BY <1>2, <1>3, <1>4, <1>6, <1>7 DEF Allocatable
<1>9. ASSUME NEW k \in 0 .. s - 1
      PROVE  ClusterAt(DataArea + s * c + k) = c
  <2>1. (DataArea + s * c + k) - DataArea = c * s + k
    BY <1>2, <1>6
  <2>2. (c * s + k) % s = k
    BY <1>2, <1>3, DivUnique
  <2>3. (c * s + k) - k = c * s
    BY <1>2, <1>6
  <2>4. (c * s) \div s = c
    BY <1>2, <1>3, DivExact
  <2> QED BY <2>1, <2>2, <2>3, <2>4 DEF ClusterAt, s
<1> QED BY <1>2, <1>3, <1>5, <1>6, <1>8, <1>9 DEF s

\* On drives of every size, with a file system, blocks and a usage table of
\* every size, free clusters lie between the undo area and the copy of the
\* file system, their sectors are found to be theirs, and the table has a bit
\* for each cluster without clusters being larger than that requires.
THEOREM ClustersAlwaysFit == GeometrySpec => []ClustersFit
<1> USE GeometryAssumption
<1>1. GeometryInv => ClustersFit
  <2> SUFFICES ASSUME GeometryInv, geoLast # -1  PROVE ClustersFit
    BY DEF ClustersFit
  <2>1. Formattable(geoLast)
    BY DEF GeometryInv
  <2>2. ClusterCount <= MaxClusters
    <3>1. ClusterCount = Superblock(geoLast).free
      BY <2>1, ClusterNumber DEF GeometryInv, ClusterCount, ClusterSectors
    <3> QED BY <2>1, <3>1, ClusterNumber
  <2>3. (geoBoot.perCluster - 1) * MaxClusters < AudioBlocksOf(geoLast)
    BY <2>1, ClusterSize DEF GeometryInv
  <2> QED BY <2>2, <2>3, FreeClusterFits DEF ClustersFit
<1> QED BY <1>1, GeometryInvHolds, PTL

------------------------------------------------------------------------------
(* DriveCopy: what is held, and what is written where. *)

\* A file of sectors of the drive ends behind its last sector, so that its
\* size is a number.
LEMMA FileSizeIsNumber ==
  ASSUME NEW file, DOMAIN file \subseteq Sectors
  PROVE  /\ FileSize(file) \in Nat
         /\ FileSize(file) = 0 \/ FileSize(file) - 1 \in DOMAIN file
<1> USE CopyAssumption DEF Sectors
<1>1. CASE DOMAIN file = {}
  BY <1>1 DEF FileSize
<1>2. CASE DOMAIN file # {}
  <2> DEFINE Behind(s) == s + 1 .. LastSector
             T == {Behind(s) : s \in DOMAIN file}
  <2>1. \A n \in Nat : IsFiniteSet(n + 1 .. LastSector)
    BY FS_Interval
  <2>2. T \subseteq FiniteSubsetsOf(Sectors) /\ T # {}
    BY <1>2, <2>1 DEF FiniteSubsetsOf
  <2>3. PICK x \in T : \A y \in T : <<y, x>> \notin StrictSubsetOrdering(Sectors)
    <3> HIDE DEF T, Sectors
    <3> QED BY <2>2, FS_StrictSubsetOrderingWellFounded, WFMin, Zenon
  <2>4. PICK s \in DOMAIN file : x = Behind(s)
    BY <2>3
  <2>5. ASSUME NEW t \in DOMAIN file
        PROVE  t <= s
    <3> SUFFICES ASSUME s < t PROVE FALSE
      OBVIOUS
    <3>1. Behind(t) \subseteq Behind(s) /\ t \in Behind(s) /\ t \notin Behind(t)
      OBVIOUS
    <3>2. <<Behind(t), Behind(s)>> \in StrictSubsetOrdering(Sectors)
      BY <3>1 DEF StrictSubsetOrdering
    <3> QED BY <2>3, <2>4, <3>2
  <2>6. (CHOOSE r \in DOMAIN file : \A t \in DOMAIN file : t <= r) \in DOMAIN file
    BY <2>5
  <2> DEFINE last == CHOOSE r \in DOMAIN file : \A t \in DOMAIN file : t <= r
  <2>7. FileSize(file) = 1 + last
    BY <1>2 DEF FileSize
  <2>8. last \in DOMAIN file /\ last \in Nat
    BY <2>6
  <2> HIDE DEF last
  <2> QED BY <2>7, <2>8
<1> QED BY <1>1, <1>2

\* What the program expects of a sector is where readsectors looks for it.
HeldIsRead ==
    \A t \in Sectors :
      cpHeld[t] = IF t < cpHeader THEN InFile(cpFile["used"], t) ELSE OnDrive(t)

HeaderInv ==
    /\ cpHeader \in Nat
    /\ DOMAIN cpFile = {"image", "header", "new", "used"}
    /\ DOMAIN cpFile["header"] \subseteq Sectors
    /\ cpJob = [of |-> cpJob.of, at |-> cpJob.at, end |-> cpJob.end, result |-> cpJob.result]
    /\ cpJob.of \in {"none", "image", "header", "new"}
    /\ cpJob.of = "header" => cpJob.at \in Nat /\ cpJob.end = HeaderEnd
    /\ HeldIsRead

LEMMA HeaderInvInit == CopyInit => HeaderInv
<1> SUFFICES ASSUME CopyInit PROVE HeaderInv
  OBVIOUS
<1>1. HeldIsRead
  BY DEF CopyInit, HeldIsRead, Sectors, OnDrive
<1>2. cpFile["header"] = <<>> /\ DOMAIN cpFile = {"image", "header", "new", "used"}
  BY DEF CopyInit
<1>3. DOMAIN cpFile["header"] = {}
  BY <1>2
<1> QED BY <1>1, <1>2, <1>3 DEF CopyInit, HeaderInv, NoCopy

LEMMA HeaderInvStep == HeaderInv /\ [CopyNext]_copyVars => HeaderInv'
<1> SUFFICES ASSUME HeaderInv, [CopyNext]_copyVars
             PROVE  HeaderInv'
  OBVIOUS
\* A step that leaves the drive and the header in use alone.
<1>1. ASSUME UNCHANGED <<cpDrive, cpHeader, cpHeld>>, cpFile'["used"] = cpFile["used"]
      PROVE  HeldIsRead'
  BY <1>1 DEF HeaderInv, HeldIsRead, InFile, OnDrive
<1>2. ASSUME NEW of \in {"image", "header", "new"}, BeginCopy(of)
      PROVE  HeaderInv'
  <2>1. cpFile' = [cpFile EXCEPT ![of] = <<>>] /\ UNCHANGED <<cpDrive, cpHeader, cpHeld>>
        /\ cpJob' = [of |-> of, at |-> 0, result |-> 0,
                     end |-> IF of = "header" THEN HeaderEnd ELSE LastSector]
    BY <1>2 DEF BeginCopy
  <2>2. /\ DOMAIN cpFile' = DOMAIN cpFile /\ cpFile'["used"] = cpFile["used"]
        /\ DOMAIN cpFile'["header"] \subseteq Sectors
    BY <2>1 DEF HeaderInv
  <2> QED BY <1>1, <2>1, <2>2 DEF HeaderInv
<1>3. CASE CopySector
  <2>1. PICK read \in {"all", "error"}, write \in {"all", "error", "none"} : CopyRun(read, write)
    BY <1>3 DEF CopySector
  <2> DEFINE piece == cpJob.at .. cpJob.at + Run - 1
  <2>2. /\ UNCHANGED <<cpDrive, cpHeader, cpHeld>>
        /\ cpJob' = [cpJob EXCEPT !.at = IF write = "none" THEN @ ELSE @ + Run,
                                  !.result = IF write = "none" THEN 1 ELSE 0]
        /\ cpJob.of # "none" /\ cpJob.at <= cpJob.end
    BY <2>1 DEF CopyRun
  <2>3. \/ cpFile' = cpFile
        \/ cpFile' = [cpFile EXCEPT ![cpJob.of] = Written(@, [s \in piece |-> cpBuf'])]
    BY <2>1 DEF CopyRun
  <2>4. /\ cpJob'.of = cpJob.of /\ cpJob'.end = cpJob.end
        /\ cpJob'.at = IF write = "none" THEN cpJob.at ELSE cpJob.at + Run
        /\ cpJob' = [of |-> cpJob'.of, at |-> cpJob'.at,
                     end |-> cpJob'.end, result |-> cpJob'.result]
    BY <2>2 DEF HeaderInv
  <2>5. /\ DOMAIN cpFile' = DOMAIN cpFile /\ cpFile'["used"] = cpFile["used"]
        /\ cpJob.of # "header" => cpFile'["header"] = cpFile["header"]
    BY <2>2, <2>3 DEF HeaderInv
  <2>6. ASSUME cpJob.of = "header"
        PROVE  DOMAIN cpFile'["header"] \subseteq Sectors /\ cpJob'.at \in Nat
    <3>1. /\ cpJob.at \in Nat /\ cpJob.at <= HeaderEnd /\ HeaderEnd <= LastSector
          /\ HeaderEnd \in Nat /\ LastSector \in Nat /\ Run = 1
      BY <2>2, <2>6, CopyAssumption DEF HeaderInv, Run, Sectors
    <3>2. piece = {cpJob.at} /\ cpJob.at \in Sectors
      BY <3>1 DEF Sectors
    <3>3. \/ cpFile'["header"] = cpFile["header"]
          \/ cpFile'["header"] = Written(cpFile["header"], [s \in piece |-> cpBuf'])
      BY <2>3, <2>6 DEF HeaderInv
    <3>4. DOMAIN cpFile'["header"] \subseteq DOMAIN cpFile["header"] \cup piece
      <4> HIDE DEF piece
      <4> QED BY <3>3 DEF Written
    <3>5. cpJob'.at \in Nat
      BY <2>4, <3>1
    <3> QED BY <3>2, <3>4, <3>5 DEF HeaderInv
  <2>7. DOMAIN cpFile'["header"] \subseteq Sectors
    BY <2>5, <2>6 DEF HeaderInv
  <2> QED BY <1>1, <2>2, <2>4, <2>5, <2>6, <2>7 DEF HeaderInv
<1>4. CASE EndCopy
  <2>1. /\ cpFile' = [cpFile EXCEPT !["image"] = <<>>, !["new"] = <<>>]
        /\ cpJob' = NoCopy /\ UNCHANGED <<cpDrive, cpHeader, cpHeld>>
    BY <1>4 DEF EndCopy
  <2>2. /\ DOMAIN cpFile' = DOMAIN cpFile /\ cpFile'["used"] = cpFile["used"]
        /\ cpFile'["header"] = cpFile["header"]
    BY <2>1 DEF HeaderInv
  <2> QED BY <1>1, <2>1, <2>2 DEF HeaderInv, NoCopy
<1>5. CASE UseHeader
  <2>1. /\ cpHeader' = FileSize(cpFile["header"])
        /\ cpFile' = [cpFile EXCEPT !["used"] = cpFile["header"]]
        /\ cpHeld' = [s \in Sectors |-> IF s < cpHeader' THEN InFile(cpFile["header"], s)
                                        ELSE OnDrive(s)]
        /\ UNCHANGED <<cpDrive, cpJob>>
    BY <1>5 DEF UseHeader
  <2>2. cpHeader' \in Nat
    BY <2>1, FileSizeIsNumber DEF HeaderInv
  <2>3. /\ DOMAIN cpFile' = DOMAIN cpFile /\ cpFile'["used"] = cpFile["header"]
        /\ cpFile'["header"] = cpFile["header"]
    BY <2>1 DEF HeaderInv
  <2>4. HeldIsRead'
    BY <2>1, <2>3 DEF HeldIsRead, InFile, OnDrive
  <2> QED BY <2>1, <2>2, <2>3, <2>4 DEF HeaderInv
<1>6. ASSUME NEW s \in Sectors, NEW n \in 1 .. 2, WriteSectors(s, n)
      PROVE  HeaderInv'
  <2> DEFINE piece == s .. s + n - 1
             new == cpWrites + 1
             Other == [t \in piece |-> <<t, new>>]
  <2>1. /\ cpDrive' = IF WriteTo(s) = "drive"
                      THEN [t \in Sectors |-> IF t \in piece THEN new ELSE cpDrive[t]]
                      ELSE cpDrive
        /\ cpFile' = IF WriteTo(s) = "header"
                     THEN [cpFile EXCEPT !["used"] = Written(@, Other)] ELSE cpFile
        /\ cpHeld' = [t \in Sectors |->
             IF t \in piece /\ (cpHeader = 0 \/ t < cpHeader) THEN <<t, new>> ELSE cpHeld[t]]
        /\ UNCHANGED <<cpJob, cpHeader>>
    BY <1>6 DEF WriteSectors
  <2>2. s \in Nat /\ cpHeader \in Nat /\ Sectors \subseteq Nat
    BY CopyAssumption DEF HeaderInv, Sectors
  <2>3. /\ DOMAIN cpFile' = DOMAIN cpFile /\ cpFile'["header"] = cpFile["header"]
        /\ cpFile'["used"] = IF WriteTo(s) = "header" THEN Written(cpFile["used"], Other)
                             ELSE cpFile["used"]
    BY <2>1 DEF HeaderInv
  <2>4. ASSUME NEW t \in Sectors
        PROVE  cpHeld'[t] = IF t < cpHeader THEN InFile(cpFile'["used"], t) ELSE OnDrive(t)'
    <3>1. cpHeld'[t] = IF t \in piece /\ (cpHeader = 0 \/ t < cpHeader) THEN <<t, new>>
                       ELSE cpHeld[t]
      BY <2>1
    <3>2. cpHeld[t] = IF t < cpHeader THEN InFile(cpFile["used"], t) ELSE OnDrive(t)
      BY DEF HeaderInv, HeldIsRead
    <3>3. t \in Nat /\ (t \in piece => s <= t)
      BY <2>2
    <3>4. InFile(Written(cpFile["used"], Other), t)
            = IF t \in piece THEN <<t, new>> ELSE InFile(cpFile["used"], t)
      <4> HIDE DEF piece, new
      <4> QED BY DEF InFile, Written
    <3>5. OnDrive(t)' = IF WriteTo(s) = "drive" /\ t \in piece THEN <<t, new>> ELSE OnDrive(t)
      BY <2>1 DEF OnDrive
    <3> HIDE DEF piece, new, Other
    <3> QED BY <2>2, <2>3, <3>1, <3>2, <3>3, <3>4, <3>5 DEF WriteTo
  <2>5. HeldIsRead'
    BY <2>1, <2>4 DEF HeldIsRead
  <2> QED BY <2>1, <2>3, <2>5 DEF HeaderInv
<1>7. CASE UNCHANGED copyVars
  BY <1>1, <1>7 DEF copyVars, HeaderInv
<1> QED BY <1>2, <1>3, <1>4, <1>5, <1>6, <1>7 DEF CopyNext

\* On a drive and a header of any size, whatever is copied and written and
\* whatever fails, as long as no copy is saved on top of the header file in
\* use (BeginCopy): in header mode the drive stays as it is, and every sector
\* reads as what was last written to it.
THEOREM HeaderModeStaysSafe == CopySpec => []HeaderModeIsSafe
<1>1. CopySpec => []HeaderInv
  BY HeaderInvInit, HeaderInvStep, PTL DEF CopySpec
<1>2. HeaderInv => HeaderModeIsSafe
  BY CopyAssumption DEF HeaderInv, HeldIsRead, HeaderModeIsSafe, ReadFrom, Sectors
<1> QED BY <1>1, <1>2, PTL

------------------------------------------------------------------------------
(* Copies. *)

\* What a copy is a copy of: the content of a sector at some time since it
\* began.
IsCopyOf(content, s, since, now) ==
    content[1] = s /\ content[2] \in Nat /\ since <= content[2] /\ content[2] <= now

\* The file of the job: it ends before the sector the job is at, and holds
\* every sector before that which met no error.
FileGrows ==
    LET file == cpFile[cpJob.of]
    IN  /\ DOMAIN file \subseteq 0 .. cpJob.at - 1
        /\ \A s \in 0 .. cpJob.at - 1 : s \notin cpBad =>
             /\ s \in DOMAIN file
             /\ IF cpJob.of = "new" THEN file[s] = Zeros
                ELSE IsCopyOf(file[s], s, cpSince[s], cpDrive[s])

\* Every write has a number of its own, and no job goes beyond its end.
CopyInv ==
    /\ cpWrites \in Nat
    /\ cpDrive \in [Sectors -> 0 .. cpWrites]
    /\ cpJob.of # "none" =>
         /\ cpJob.at \in Nat /\ cpJob.end \in Sectors /\ cpJob.at <= cpJob.end + 1
         /\ cpJob.of = "new" => cpBuf = Zeros
         /\ \A s \in Sectors : cpSince[s] \in 0 .. cpDrive[s]
         /\ FileGrows

LEMMA CopyInvInit == CopyInit => CopyInv
  BY DEF CopyInit, CopyInv, NoCopy

\* A turn of the loop copies a piece that ends before the end of the job.
LEMMA PieceFits ==
  ASSUME cpJob.at \in Nat, cpJob.end \in Sectors, cpJob.at <= cpJob.end
  PROVE  /\ Run \in Nat \ {0} /\ cpJob.at + Run <= cpJob.end + 1
         /\ cpJob.of # "new" => Run = 1
  BY CopyAssumption DEF Run, Sectors

\* Each turn of the loop leaves the file with what the job has come past.
LEMMA CopyRunInv ==
  ASSUME HeaderInv, CopyInv,
         NEW read \in {"all", "error"}, NEW write \in {"all", "error", "none"},
         CopyRun(read, write), cpJob.of = "new" => read = "all"
  PROVE  CopyInv'
<1> DEFINE of == cpJob.of
           piece == cpJob.at .. cpJob.at + Run - 1
           file == cpFile[of]
<1>1. /\ of \in {"image", "header", "new"} /\ cpJob.at \in Nat /\ cpJob.end \in Sectors
      /\ cpJob.at <= cpJob.end /\ (of = "new" => cpBuf = Zeros)
      /\ \A s \in Sectors : cpSince[s] \in 0 .. cpDrive[s]
      /\ FileGrows
  BY DEF HeaderInv, CopyInv, CopyRun
<1>2. /\ UNCHANGED <<cpDrive, cpWrites, cpSince>>
      /\ cpBuf' = IF of # "new" /\ read = "all" THEN OnDrive(cpJob.at) ELSE cpBuf
      /\ cpFile' = IF write = "all"
                   THEN [cpFile EXCEPT ![of] = Written(@, [s \in piece |-> cpBuf'])]
                   ELSE cpFile
      /\ cpBad' = IF read = "all" /\ write = "all" THEN cpBad ELSE cpBad \cup piece
  BY DEF CopyRun
<1>3. /\ cpJob'.of = of /\ cpJob'.end = cpJob.end
      /\ cpJob'.at = IF write = "none" THEN cpJob.at ELSE cpJob.at + Run
  <2>1. cpJob' = [cpJob EXCEPT !.at = IF write = "none" THEN @ ELSE @ + Run,
                               !.result = IF write = "none" THEN 1 ELSE 0]
    BY DEF CopyRun
  <2>2. cpJob = [of |-> cpJob.of, at |-> cpJob.at, end |-> cpJob.end, result |-> cpJob.result]
    BY DEF HeaderInv
  <2> QED BY <2>1, <2>2
<1>4. Run \in Nat \ {0} /\ cpJob.at + Run <= cpJob.end + 1 /\ (of # "new" => Run = 1)
  BY <1>1, PieceFits
<1>5. cpJob'.at \in Nat /\ cpJob'.at <= cpJob'.end + 1 /\ cpJob.at <= cpJob'.at
  <2>1. cpJob.end \in Nat
    BY <1>1, CopyAssumption DEF Sectors
  <2> QED BY <1>1, <1>3, <1>4, <2>1
<1>6. cpJob'.of = "new" => cpBuf' = Zeros
  BY <1>1, <1>2, <1>3
<1>7. cpFile'[of] = IF write = "all" THEN Written(file, [s \in piece |-> cpBuf']) ELSE file
  <2>1. of \in DOMAIN cpFile
    BY <1>1 DEF HeaderInv
  <2> HIDE DEF piece
  <2> QED BY <1>2, <2>1
<1>8. write = "all" => /\ DOMAIN cpFile'[of] = DOMAIN file \cup piece
                       /\ \A s \in DOMAIN file \cup piece :
                            cpFile'[of][s] = IF s \in piece THEN cpBuf' ELSE file[s]
  <2> HIDE DEF piece, file
  <2> QED BY <1>7 DEF Written
<1>9. DOMAIN cpFile'[of] \subseteq 0 .. cpJob'.at - 1
  <2>1. DOMAIN file \subseteq 0 .. cpJob.at - 1
    BY <1>1 DEF FileGrows
  <2>2. CASE write = "all"
    <3>1. piece \subseteq 0 .. cpJob'.at - 1 /\ 0 .. cpJob.at - 1 \subseteq 0 .. cpJob'.at - 1
      BY <1>1, <1>3, <1>4, <2>2
    <3> HIDE DEF piece, file
    <3> QED BY <1>8, <2>1, <2>2, <3>1
  <2>3. CASE write # "all"
    <3>1. 0 .. cpJob.at - 1 \subseteq 0 .. cpJob'.at - 1
      BY <1>1, <1>5
    <3> HIDE DEF file
    <3> QED BY <1>7, <2>1, <2>3, <3>1
  <2> QED BY <2>2, <2>3
<1>10. ASSUME NEW s \in 0 .. cpJob'.at - 1, s \notin cpBad'
       PROVE  /\ s \in DOMAIN cpFile'[of]
              /\ IF of = "new" THEN cpFile'[of][s] = Zeros
                 ELSE IsCopyOf(cpFile'[of][s], s, cpSince[s], cpDrive[s])
  <2>1. s \notin cpBad /\ (s \in piece => read = "all" /\ write = "all")
    <3> HIDE DEF piece
    <3> QED BY <1>2, <1>10
  <2>2. s \in Sectors
    BY <1>1, <1>3, <1>5, CopyAssumption DEF Sectors
  <2>4. CASE s \in piece
    <3>1. s \in DOMAIN cpFile'[of] /\ cpFile'[of][s] = cpBuf'
      <4> HIDE DEF piece, file
      <4> QED BY <1>8, <2>1, <2>4
    <3>2. CASE of = "new"
      BY <1>3, <1>6, <3>1, <3>2
    <3>3. CASE of # "new"
      <4>1. s = cpJob.at
        BY <1>1, <1>4, <2>4, <3>3
      <4>2. cpBuf' = <<s, cpDrive[s]>>
        BY <1>2, <2>1, <2>4, <3>3, <4>1 DEF OnDrive
      <4>3. cpDrive[s] \in Nat /\ cpSince[s] \in 0 .. cpDrive[s]
        BY <1>1, <2>2 DEF CopyInv
      <4>4. IsCopyOf(cpBuf', s, cpSince[s], cpDrive[s])
        BY <4>2, <4>3 DEF IsCopyOf
      <4> QED BY <3>1, <3>3, <4>4
    <3> QED BY <3>2, <3>3
  <2>5. CASE s \notin piece
    <3>1. s \in 0 .. cpJob.at - 1
      <4>1. cpJob'.at \in {cpJob.at, cpJob.at + Run}
        BY <1>3
      <4> QED BY <1>1, <1>4, <2>5, <4>1
    <3>2. s \in DOMAIN file /\ (IF of = "new" THEN file[s] = Zeros
                                ELSE IsCopyOf(file[s], s, cpSince[s], cpDrive[s]))
      BY <1>1, <2>1, <3>1 DEF FileGrows
    <3>3. s \in DOMAIN cpFile'[of] /\ cpFile'[of][s] = file[s]
      <4> HIDE DEF piece, file
      <4> QED BY <1>7, <1>8, <2>5, <3>2
    <3> QED BY <3>2, <3>3
  <2> QED BY <2>4, <2>5
<1>11. FileGrows'
  <2> HIDE DEF file, piece
  <2> QED BY <1>2, <1>3, <1>9, <1>10 DEF FileGrows
<1> QED BY <1>1, <1>2, <1>3, <1>5, <1>6, <1>11 DEF CopyInv

LEMMA CopyInvStep == HeaderInv /\ CopyInv /\ [CopyNext]_copyVars => CopyInv'
<1> SUFFICES ASSUME HeaderInv, CopyInv, [CopyNext]_copyVars
             PROVE  CopyInv'
  OBVIOUS
<1>1. ASSUME NEW of \in {"image", "header", "new"}, BeginCopy(of)
      PROVE  CopyInv'
  <2>1. /\ cpJob' = [of |-> of, at |-> 0, result |-> 0,
                     end |-> IF of = "header" THEN HeaderEnd ELSE LastSector]
        /\ cpFile' = [cpFile EXCEPT ![of] = <<>>] /\ cpBuf' = Zeros
        /\ cpSince' = cpDrive /\ UNCHANGED <<cpDrive, cpWrites>>
    BY <1>1 DEF BeginCopy
  <2>2. /\ cpJob'.of = of /\ cpJob'.at = 0
        /\ cpJob'.end = IF of = "header" THEN HeaderEnd ELSE LastSector
    BY <2>1
  <2>3. cpJob'.end \in Sectors /\ 0 \in Nat /\ 0 <= cpJob'.end + 1
    BY <2>2, CopyAssumption DEF Sectors
  <2>4. cpFile'[of] = <<>>
    BY <1>1, <2>1 DEF HeaderInv
  <2>5. FileGrows'
    BY <2>2, <2>4 DEF FileGrows
  <2>6. \A s \in Sectors : cpSince'[s] \in 0 .. cpDrive'[s]
    BY <2>1 DEF CopyInv
  <2> QED BY <2>1, <2>2, <2>3, <2>5, <2>6 DEF CopyInv
<1>2. CASE CopySector
  <2>1. PICK read \in {"all", "error"}, write \in {"all", "error", "none"} :
          CopyRun(read, write) /\ (cpJob.of = "new" => read = "all")
    BY <1>2 DEF CopySector
  <2> QED BY <2>1, CopyRunInv
<1>3. CASE EndCopy
  BY <1>3 DEF EndCopy, CopyInv, NoCopy
<1>4. CASE UseHeader
  BY <1>4 DEF UseHeader, CopyInv
<1>5. ASSUME NEW s \in Sectors, NEW n \in 1 .. 2, WriteSectors(s, n)
      PROVE  CopyInv'
  <2> DEFINE piece == s .. s + n - 1
             new == cpWrites + 1
             Other == [t \in piece |-> <<t, new>>]
  <2>1. /\ cpDrive' = IF WriteTo(s) = "drive"
                      THEN [t \in Sectors |-> IF t \in piece THEN new ELSE cpDrive[t]]
                      ELSE cpDrive
        /\ cpFile' = IF WriteTo(s) = "header"
                     THEN [cpFile EXCEPT !["used"] = Written(@, Other)] ELSE cpFile
        /\ cpWrites' = new /\ UNCHANGED <<cpJob, cpBuf, cpBad, cpSince>>
    BY <1>5 DEF WriteSectors
  <2>2. \A t \in Sectors : /\ cpDrive[t] \in Nat /\ cpDrive[t] <= cpWrites
                           /\ cpDrive'[t] \in {cpDrive[t], new}
    <3> HIDE DEF piece, new
    <3> QED BY <2>1 DEF CopyInv
  <2>3. /\ cpWrites' \in Nat /\ cpDrive' \in [Sectors -> 0 .. cpWrites']
        /\ \A t \in Sectors : cpDrive[t] <= cpDrive'[t] /\ cpDrive'[t] \in Nat
    <3>1. DOMAIN cpDrive' = Sectors /\ cpDrive' = [t \in Sectors |-> cpDrive'[t]]
      <4> HIDE DEF piece, new
      <4> QED BY <2>1 DEF CopyInv
    <3>2. cpWrites \in Nat
      BY DEF CopyInv
    <3>3. \A t \in Sectors : cpDrive'[t] \in 0 .. cpWrites' /\ cpDrive[t] <= cpDrive'[t]
      BY <2>1, <2>2, <3>2
    <3> QED BY <2>1, <3>1, <3>2, <3>3
  <2>4. ASSUME cpJob.of # "none"
        PROVE  /\ \A t \in Sectors : cpSince'[t] \in 0 .. cpDrive'[t]
               /\ FileGrows'
    <3>1. cpFile'[cpJob.of] = cpFile[cpJob.of]
      <4> HIDE DEF Other
      <4> QED BY <2>1, <2>4 DEF HeaderInv
    <3>2. \A t \in Sectors : cpSince[t] \in 0 .. cpDrive[t]
      BY <2>4 DEF CopyInv
    <3>3. \A content : \A t \in Sectors : IsCopyOf(content, t, cpSince[t], cpDrive[t])
                                          => IsCopyOf(content, t, cpSince'[t], cpDrive'[t])
      BY <2>1, <2>2, <2>3, <3>2 DEF IsCopyOf
    <3>4. FileGrows /\ 0 .. cpJob.at - 1 \subseteq Sectors
      BY <2>4, CopyAssumption DEF CopyInv, Sectors
    <3>5. FileGrows'
      BY <2>1, <3>1, <3>3, <3>4 DEF FileGrows
    <3>6. ASSUME NEW t \in Sectors
          PROVE  cpSince'[t] \in 0 .. cpDrive'[t]
      BY <2>1, <2>2, <2>3, <3>2
    <3> QED BY <3>5, <3>6
  <2> QED BY <2>1, <2>3, <2>4 DEF CopyInv
<1>6. CASE UNCHANGED copyVars
  BY <1>6 DEF copyVars, CopyInv, FileGrows, IsCopyOf
<1> QED BY <1>1, <1>2, <1>3, <1>4, <1>5, <1>6 DEF CopyNext

\* On a drive of any size, with writes to it while the copy is made and with
\* any number of sectors that cannot be read or written: every other sector
\* of a copy is the drive's, of a time since the copy began, and no copy is
\* longer than what it is a copy of.
THEOREM CopiesAreExact == CopySpec => []CopyIsExact
<1>1. CopySpec => [](HeaderInv /\ CopyInv)
  <2>1. CopyInit => HeaderInv /\ CopyInv
    BY HeaderInvInit, CopyInvInit
  <2>2. HeaderInv /\ CopyInv /\ [CopyNext]_copyVars => (HeaderInv /\ CopyInv)'
    BY HeaderInvStep, CopyInvStep
  <2> QED BY <2>1, <2>2, PTL DEF CopySpec
<1>2. HeaderInv /\ CopyInv => CopyIsExact
  <2> SUFFICES ASSUME HeaderInv, CopyInv, cpJob.of # "none"
               PROVE  LET file == cpFile[cpJob.of]
                      IN  /\ FileSize(file) <= cpJob.end + 1
                          /\ cpJob.at <= cpJob.end + 1
                          /\ \A s \in 0 .. cpJob.at - 1 : s \notin cpBad =>
                               IF cpJob.of = "new" THEN s \in DOMAIN file /\ file[s] = Zeros
                               ELSE /\ InFile(file, s)[1] = s
                                    /\ InFile(file, s)[2] \in {v \in 0 .. cpDrive[s] : v >= cpSince[s]}
    BY DEF CopyIsExact
  <2> DEFINE file == cpFile[cpJob.of]
  <2>1. /\ cpJob.at \in Nat /\ cpJob.end \in Sectors /\ cpJob.at <= cpJob.end + 1
        /\ \A s \in Sectors : cpSince[s] \in 0 .. cpDrive[s]
        /\ FileGrows
    BY DEF CopyInv
  <2>2. 0 .. cpJob.at - 1 \subseteq Sectors /\ cpJob.end \in Nat
    BY <2>1, CopyAssumption DEF Sectors
  <2>3. DOMAIN file \subseteq 0 .. cpJob.at - 1
    BY <2>1 DEF FileGrows
  <2>4. FileSize(file) \in Nat /\ (FileSize(file) = 0 \/ FileSize(file) - 1 \in DOMAIN file)
    <3> HIDE DEF file
    <3> QED BY <2>2, <2>3, FileSizeIsNumber
  <2>5. FileSize(file) <= cpJob.end + 1
    <3> HIDE DEF file
    <3> QED BY <2>1, <2>2, <2>3, <2>4
  <2>6. ASSUME NEW s \in 0 .. cpJob.at - 1, s \notin cpBad
        PROVE  IF cpJob.of = "new" THEN s \in DOMAIN file /\ file[s] = Zeros
               ELSE /\ InFile(file, s)[1] = s
                    /\ InFile(file, s)[2] \in {v \in 0 .. cpDrive[s] : v >= cpSince[s]}
    <3>1. s \in DOMAIN file /\ (IF cpJob.of = "new" THEN file[s] = Zeros
                                ELSE IsCopyOf(file[s], s, cpSince[s], cpDrive[s]))
      BY <2>1, <2>6 DEF FileGrows
    <3>2. InFile(file, s) = file[s]
      <4> HIDE DEF file
      <4> QED BY <3>1 DEF InFile
    <3>3. cpDrive[s] \in Nat /\ cpSince[s] \in Nat
      BY <2>1, <2>2 DEF CopyInv
    <3>4. CASE cpJob.of = "new"
      BY <3>1, <3>4
    <3>5. CASE cpJob.of # "new"
      BY <3>1, <3>2, <3>3, <3>5 DEF IsCopyOf
    <3> QED BY <3>4, <3>5
  <2> HIDE DEF file
  <2> QED BY <2>1, <2>5, <2>6 DEF file
<1> QED BY <1>1, <1>2, PTL

------------------------------------------------------------------------------
(* DriveScan: the least of some numbers, for induction over the probes. *)

\* A set of natural numbers that is not empty has a least element.  The proof
\* goes through the finite sets 0 .. n, which strict inclusion orders well.
LEMMA LeastNumber ==
    ASSUME NEW S \in SUBSET Nat, S # {}
    PROVE  \E x \in S : \A y \in S : x <= y
<1> DEFINE Upto == {0 .. n : n \in S}
<1>1. \A n \in Nat : IsFiniteSet(0 .. n) /\ 0 .. n \subseteq Nat
  BY FS_Interval
<1>2. Upto \subseteq FiniteSubsetsOf(Nat) /\ Upto # {}
  BY <1>1 DEF FiniteSubsetsOf
<1>3. PICK X \in Upto : \A Y \in Upto : <<Y, X>> \notin StrictSubsetOrdering(Nat)
  <2> HIDE DEF Upto
  <2> QED BY <1>2, FS_StrictSubsetOrderingWellFounded, WFMin, Zenon
<1>4. PICK x \in S : X = 0 .. x
  BY <1>3
<1>5. ASSUME NEW y \in S, y < x PROVE FALSE
  <2>1. 0 .. y \in Upto /\ 0 .. y \in SUBSET Nat /\ X \in SUBSET Nat
    BY <1>1, <1>4
  <2>2. x \in X /\ x \notin 0 .. y /\ 0 .. y \subseteq X
    BY <1>4, <1>5
  <2>3. <<0 .. y, X>> \in StrictSubsetOrdering(Nat)
    BY <2>1, <2>2 DEF StrictSubsetOrdering
  <2> QED BY <2>1, <2>3, <1>3
<1> QED BY <1>4, <1>5

------------------------------------------------------------------------------
(* DriveScan: one probe after the other. *)

\* What a probe makes of what was found before: the body of Probes.
After(devices, k, was, own) ==
    LET hard == k > ScanNames
        dev  == IF hard THEN k - ScanNames ELSE k
        seen == Seen(devices[dev], was.smart, own)
        now  == IF seen = "image" /\ ~hard THEN "probe" ELSE "none"
    IN  IF devices[dev] = "absent" THEN was
        ELSE [smart |-> now,
              found |-> IF IsDrive(seen, hard)
                        THEN Append(was.found,
                               [dev |-> dev, smart |-> IF now = "probe" THEN "own" ELSE "none"])
                        ELSE was.found]

GoesOn(f, devices, n, smart, own) ==
    f = [k \in 0 .. n |-> IF k = 0 THEN [found |-> <<>>, smart |-> smart]
                          ELSE After(devices, k, f[k - 1], own)]
GoesOnExists(devices, n, smart, own) == \E f : GoesOn(f, devices, n, smart, own)

LEMMA ProbesExist ==
    \A devices, smart, own : \A n \in Nat : GoesOnExists(devices, n, smart, own)
<1> SUFFICES ASSUME NEW devices, NEW smart, NEW own
             PROVE  \A n \in Nat : GoesOnExists(devices, n, smart, own)
  OBVIOUS
<1> DEFINE Bad == {n \in Nat : ~GoesOnExists(devices, n, smart, own)}
<1> SUFFICES ASSUME Bad # {} PROVE FALSE
  OBVIOUS
<1>1. PICK m \in Bad : \A n \in Bad : m <= n
  BY LeastNumber
<1>2. m # 0
  <2> DEFINE f == [k \in 0 .. 0 |-> [found |-> <<>>, smart |-> smart]]
  <2>1. GoesOn(f, devices, 0, smart, own)
    BY DEF GoesOn
  <2> QED BY <1>1, <2>1 DEF GoesOnExists
<1>3. m - 1 \in Nat /\ m \in Nat
  BY <1>1, <1>2
<1>4. GoesOnExists(devices, m - 1, smart, own)
  BY <1>1, <1>3
<1>5. PICK f : GoesOn(f, devices, m - 1, smart, own)
  BY <1>4 DEF GoesOnExists
<1> DEFINE g == [k \in 0 .. m |-> IF k = m THEN After(devices, m, f[m - 1], own) ELSE f[k]]
<1>6. ASSUME NEW k \in 0 .. m
      PROVE  g[k] = IF k = 0 THEN [found |-> <<>>, smart |-> smart]
                    ELSE After(devices, k, g[k - 1], own)
  <2>1. CASE k = m
    <3>1. g[k] = After(devices, m, f[m - 1], own) /\ g[m - 1] = f[m - 1]
      BY <1>3, <2>1
    <3> QED BY <1>2, <2>1, <3>1
  <2>2. CASE k # m
    <3>1. k \in 0 .. m - 1 /\ g[k] = f[k]
      BY <1>3, <2>2
    <3>2. f[k] = IF k = 0 THEN [found |-> <<>>, smart |-> smart]
                 ELSE After(devices, k, f[k - 1], own)
      BY <1>5, <3>1 DEF GoesOn
    <3>3. k # 0 => g[k - 1] = f[k - 1]
      BY <1>3, <2>2, <3>1
    <3> QED BY <3>1, <3>2, <3>3
  <2> QED BY <2>1, <2>2
<1>7. GoesOn(g, devices, m, smart, own)
  <2>1. g = [k \in 0 .. m |-> g[k]]
    OBVIOUS
  <2> HIDE DEF g
  <2> QED BY <1>6, <2>1 DEF GoesOn
<1> QED BY <1>1, <1>7 DEF GoesOnExists

ProbesGoOn(devices, smart, own) ==
    /\ Probes(devices, 0, smart, own) = [found |-> <<>>, smart |-> smart]
    /\ \A k \in 1 .. 2 * ScanNames :
         Probes(devices, k, smart, own)
           = After(devices, k, Probes(devices, k - 1, smart, own), own)

LEMMA ProbesUnfold == \A devices, smart, own : ProbesGoOn(devices, smart, own)
<1> SUFFICES ASSUME NEW devices, NEW smart, NEW own PROVE ProbesGoOn(devices, smart, own)
  OBVIOUS
<1> DEFINE g == CHOOSE f : GoesOn(f, devices, 2 * ScanNames, smart, own)
<1>1. 2 * ScanNames \in Nat
  BY ScanAssumption
<1>2. GoesOn(g, devices, 2 * ScanNames, smart, own)
  BY <1>1, ProbesExist DEF GoesOnExists
<1>3. \A k : Probes(devices, k, smart, own) = g[k]
  BY DEF Probes, GoesOn, After
<1> HIDE DEF g
<1>4. \A k \in 0 .. 2 * ScanNames :
        g[k] = IF k = 0 THEN [found |-> <<>>, smart |-> smart]
               ELSE After(devices, k, g[k - 1], own)
  BY <1>2 DEF GoesOn
<1>5. ASSUME NEW k \in 1 .. 2 * ScanNames PROVE g[k] = After(devices, k, g[k - 1], own)
  <2>1. k \in 0 .. 2 * ScanNames /\ k # 0
    BY <1>1
  <2> QED BY <1>4, <2>1
<1>6. g[0] = [found |-> <<>>, smart |-> smart]
  BY <1>1, <1>4
<1> QED BY <1>3, <1>5, <1>6 DEF ProbesGoOn

ScanInv == scDevices \in [Devices -> DeviceKinds]

LEMMA ScanInvHolds == ScanSpec => []ScanInv
<1>1. ScanInit => ScanInv
  BY DEF ScanInit, ScanInv, DeviceKinds
<1>2. ScanInv /\ [ScanNext]_scanVars => ScanInv'
  BY DEF ScanInv, ScanNext, scanVars, Replug, Detect, Populate, Choose
<1> QED BY <1>1, <1>2, PTL DEF ScanSpec

Found == [dev : Devices, smart : {"none", "own"}]
Finding == [found : Seq(Found), smart : {"none", "probe"}]

\* What one more device adds in the first pass.
LEMMA FirstPassStep ==
    ASSUME ScanInv, NEW d \in Devices, NEW was \in Finding, NEW own,
           NEW kind, kind = scDevices[d],
           NEW next, next = After(scDevices, d, was, own)
    PROVE  /\ next \in Finding
           /\ kind = "absent" => next = was
           /\ kind # "absent" =>
                (next.smart = "probe" <=> kind = "smart" /\ was.smart = "none")
           /\ kind \notin {"adat", "smart"} => next.found = was.found
           /\ kind \in {"adat", "smart"} =>
                \/ next.found = was.found /\ was.smart = "probe"
                \/ /\ next.found = Append(was.found, [dev |-> d, smart |-> "none"])
                   /\ kind = "smart" => was.smart = "probe"
                \/ /\ next.found = Append(was.found, [dev |-> d, smart |-> "own"])
                   /\ kind = "smart"
<1>1. kind \in {"absent", "other", "adat", "backup", "stale", "smart"}
  BY DEF ScanInv, DeviceKinds
<1>2. ScanNames \in Nat \ {0} /\ d \in Int /\ ~(d > ScanNames)
  BY ScanAssumption DEF Devices
<1>3. was.smart \in {"none", "probe"} /\ was.found \in Seq(Found)
      /\ was = [found |-> was.found, smart |-> was.smart]
  BY DEF Finding
<1>4. /\ [dev |-> d, smart |-> "none"] \in Found /\ [dev |-> d, smart |-> "own"] \in Found
  BY DEF Found
<1>5. /\ Append(was.found, [dev |-> d, smart |-> "none"]) \in Seq(Found)
      /\ Append(was.found, [dev |-> d, smart |-> "own"]) \in Seq(Found)
  BY <1>3, <1>4
<1> DEFINE seen == Seen(kind, was.smart, own)
           now == IF seen = "image" THEN "probe" ELSE "none"
<1>6. next = IF kind = "absent" THEN was
             ELSE [smart |-> now,
                   found |-> IF seen \in {"adat", "image"}
                             THEN Append(was.found,
                                    [dev |-> d, smart |-> IF now = "probe" THEN "own" ELSE "none"])
                             ELSE was.found]
  BY <1>2 DEF After, IsDrive
<1>7. CASE kind = "absent"
  BY <1>3, <1>6, <1>7 DEF Finding
<1>8. CASE kind # "absent" /\ was.smart = "none"
  <2>1. seen = IF kind = "smart" THEN "image" ELSE kind
    BY <1>8 DEF Seen
  <2>2. CASE kind = "smart"
    <3>1. next = [smart |-> "probe", found |-> Append(was.found, [dev |-> d, smart |-> "own"])]
      BY <1>6, <2>1, <2>2
    <3> HIDE DEF now, seen
    <3> QED BY <1>5, <1>8, <2>2, <3>1 DEF Finding
  <2>3. CASE kind = "adat"
    <3>1. next = [smart |-> "none", found |-> Append(was.found, [dev |-> d, smart |-> "none"])]
      BY <1>6, <2>1, <2>3
    <3> HIDE DEF now, seen
    <3> QED BY <1>5, <1>8, <2>3, <3>1 DEF Finding
  <2>4. CASE kind \in {"other", "backup", "stale"}
    <3>1. next = [smart |-> "none", found |-> was.found]
      BY <1>6, <2>1, <2>4
    <3> HIDE DEF now, seen
    <3> QED BY <1>3, <1>8, <2>4, <3>1 DEF Finding
  <2> QED BY <1>1, <1>8, <2>2, <2>3, <2>4
<1>9. CASE kind # "absent" /\ was.smart = "probe"
  <2>1. seen = IF kind = "smart" THEN "adat" ELSE "other"
    BY <1>9 DEF Seen
  <2>2. CASE kind = "smart"
    <3>1. next = [smart |-> "none", found |-> Append(was.found, [dev |-> d, smart |-> "none"])]
      BY <1>6, <2>1, <2>2
    <3> HIDE DEF now, seen
    <3> QED BY <1>5, <1>9, <2>2, <3>1 DEF Finding
  <2>3. CASE kind # "smart"
    <3>1. next = [smart |-> "none", found |-> was.found]
      BY <1>6, <1>9, <2>1, <2>3
    <3> HIDE DEF now, seen
    <3> QED BY <1>3, <1>9, <2>3, <3>1 DEF Finding
  <2> QED BY <2>2, <2>3
<1> QED BY <1>3, <1>7, <1>8, <1>9

\* What the second pass adds, when no device is a smart image.
LEMMA SecondPassStep ==
    ASSUME ScanInv, NEW d \in Devices, NEW was \in Finding, was.smart = "none", NEW own,
           NEW kind, kind = scDevices[d],
           NEW next, next = After(scDevices, ScanNames + d, was, own)
    PROVE  /\ next \in Finding /\ next.smart = "none"
           /\ next.found = was.found \/ next.found = Append(was.found, [dev |-> d, smart |-> "none"])
           /\ kind \notin {"adat", "smart"} =>
                next.found = IF kind = "backup"
                             THEN Append(was.found, [dev |-> d, smart |-> "none"])
                             ELSE was.found
<1> DEFINE seen == Seen(kind, was.smart, own)
<1>1. kind \in {"absent", "other", "adat", "backup", "stale", "smart"}
  BY DEF ScanInv, DeviceKinds
<1>2. /\ ScanNames \in Nat \ {0} /\ d \in Int /\ ScanNames + d > ScanNames
      /\ (ScanNames + d) - ScanNames = d
  BY ScanAssumption DEF Devices
<1>3. was.found \in Seq(Found) /\ was = [found |-> was.found, smart |-> "none"]
  BY DEF Finding
<1>4. Append(was.found, [dev |-> d, smart |-> "none"]) \in Seq(Found)
  BY <1>3 DEF Found
<1>5. next = IF kind = "absent" THEN was
             ELSE [smart |-> "none",
                   found |-> IF seen \in {"adat", "backup"}
                             THEN Append(was.found, [dev |-> d, smart |-> "none"])
                             ELSE was.found]
  BY <1>2 DEF After, IsDrive
<1>6. seen = IF kind = "smart" THEN "image" ELSE kind
  BY DEF Seen
<1>7. CASE kind = "absent"
  BY <1>3, <1>5, <1>7 DEF Finding
<1>8. CASE kind \in {"adat", "backup"}
  <2>1. next = [smart |-> "none", found |-> Append(was.found, [dev |-> d, smart |-> "none"])]
    BY <1>5, <1>6, <1>8
  <2> HIDE DEF seen
  <2>2. /\ next \in Finding /\ next.smart = "none"
        /\ next.found = Append(was.found, [dev |-> d, smart |-> "none"])
    BY <1>4, <2>1 DEF Finding
  <2>3. kind \notin {"adat", "smart"} => kind = "backup"
    BY <1>8
  <2> QED BY <2>2, <2>3
<1>9. CASE kind \in {"other", "stale", "smart"}
  <2>1. next = [smart |-> "none", found |-> was.found]
    BY <1>5, <1>6, <1>9
  <2> HIDE DEF seen
  <2> QED BY <1>3, <1>9, <2>1 DEF Finding
<1> QED BY <1>1, <1>7, <1>8, <1>9

LEMMA FirstPassType ==
    ASSUME ScanInv, NEW d \in Devices, NEW was \in Finding, NEW own
    PROVE  After(scDevices, d, was, own) \in Finding
<1>1. PICK kind : kind = scDevices[d]
  OBVIOUS
<1>2. PICK next : next = After(scDevices, d, was, own)
  OBVIOUS
<1>3. next \in Finding
  BY <1>1, <1>2, FirstPassStep
<1> QED BY <1>2, <1>3

LEMMA SecondPassType ==
    ASSUME ScanInv, NEW d \in Devices, NEW was \in Finding, NEW own
    PROVE  After(scDevices, ScanNames + d, was, own) \in Finding
<1> DEFINE next == After(scDevices, ScanNames + d, was, own)
           x == [dev |-> d, smart |-> "none"]
<1>1. /\ ScanNames \in Nat \ {0} /\ d \in Int /\ ScanNames + d > ScanNames
      /\ (ScanNames + d) - ScanNames = d
  BY ScanAssumption DEF Devices
<1>2. was.found \in Seq(Found) /\ x \in Found
  BY DEF Finding, Found
<1>3. \/ next = was
      \/ next = [smart |-> "none", found |-> was.found]
      \/ next = [smart |-> "none", found |-> Append(was.found, x)]
  BY <1>1 DEF After
<1> HIDE DEF next, x
<1>4. Append(was.found, x) \in Seq(Found)
  BY <1>2
<1>5. next \in Finding
  BY <1>2, <1>3, <1>4 DEF Finding
<1> QED BY <1>5 DEF next

Probed(k) == Probes(scDevices, k, "none", "absent")

\* Which device the probing object has open does not matter to it: it reads
\* through what it met last, or through nothing.
LEMMA ProbesSame ==
    ASSUME ScanInv, NEW own
    PROVE  \A k \in 0 .. 2 * ScanNames :
             Probes(scDevices, k, "none", own) = Probed(k) /\ Probed(k) \in Finding
<1> DEFINE Good(k) == Probes(scDevices, k, "none", own) = Probed(k) /\ Probed(k) \in Finding
           Bad == {k \in 0 .. 2 * ScanNames : ~Good(k)}
<1> SUFFICES ASSUME Bad # {} PROVE FALSE
  OBVIOUS
<1>1. ScanNames \in Nat /\ 2 * ScanNames \in Nat /\ Bad \in SUBSET Nat
  BY ScanAssumption
<1>2. PICK m \in Bad : \A k \in Bad : m <= k
  <2> HIDE DEF Bad
  <2> QED BY <1>1, LeastNumber
<1>3. Good(0)
  <2>1. [found |-> <<>>, smart |-> "none"] \in Finding
    BY DEF Finding
  <2>2. ProbesGoOn(scDevices, "none", own) /\ ProbesGoOn(scDevices, "none", "absent")
    BY ProbesUnfold
  <2> QED BY <2>1, <2>2 DEF Probed, ProbesGoOn
<1>4. m \in 1 .. 2 * ScanNames /\ m - 1 \in 0 .. 2 * ScanNames
  BY <1>1, <1>2, <1>3
<1>5. Good(m - 1)
  <2>1. m - 1 \notin Bad
    BY <1>1, <1>2, <1>4
  <2> QED BY <1>4, <2>1
<1>6. /\ Probes(scDevices, m, "none", own) = After(scDevices, m, Probes(scDevices, m - 1, "none", own), own)
      /\ Probed(m) = After(scDevices, m, Probed(m - 1), "absent")
  <2>1. ProbesGoOn(scDevices, "none", own) /\ ProbesGoOn(scDevices, "none", "absent")
    BY ProbesUnfold
  <2> QED BY <1>4, <2>1 DEF Probed, ProbesGoOn
<1>7. Probed(m - 1).smart # "own"
  BY <1>5 DEF Finding
<1>8. After(scDevices, m, Probed(m - 1), own) = After(scDevices, m, Probed(m - 1), "absent")
  BY <1>7 DEF After, Seen
<1>9. Probed(m) \in Finding
  <2>1. Probed(m - 1) \in Finding
    BY <1>5
  <2>2. After(scDevices, m, Probed(m - 1), "absent") \in Finding
    <3>1. CASE m <= ScanNames
      <4>1. m \in Devices
        BY <1>1, <1>4, <3>1 DEF Devices
      <4> QED BY <2>1, <4>1, FirstPassType
    <3>2. CASE ~(m <= ScanNames)
      <4>1. PICK d \in Devices : m = ScanNames + d
        <5>1. m - ScanNames \in Devices /\ m = ScanNames + (m - ScanNames)
          BY <1>1, <1>4, <3>2 DEF Devices
        <5> QED BY <5>1
      <4> QED BY <2>1, <4>1, SecondPassType
    <3> QED BY <3>1, <3>2
  <2> QED BY <1>6, <2>2
<1> QED BY <1>2, <1>5, <1>6, <1>8, <1>9

LEMMA ProbedType == ScanInv => \A k \in 0 .. 2 * ScanNames : Probed(k) \in Finding
BY ProbesSame, ScanAssumption

\* The drives found by the first pass up to a device.
RisingDevs(s) == \A i, j \in DOMAIN s : i < j => s[i].dev < s[j].dev
FirstFound(k) ==
    /\ Probed(k).smart = "probe" =>
         \E e \in 1 .. k : /\ scDevices[e] = "smart"
                           /\ \A c \in e + 1 .. k : scDevices[c] = "absent"
    /\ \A i \in DOMAIN Probed(k).found : /\ Probed(k).found[i].dev \in Drives
                                         /\ Probed(k).found[i].dev <= k
    /\ RisingDevs(Probed(k).found)
    /\ \A d \in Drives : d <= k /\ ~BehindSmart(d) =>
         \E i \in DOMAIN Probed(k).found : Probed(k).found[i] = Healthy(d)

AppendsRising(s, x, t) ==
    /\ RisingDevs(t)
    /\ DOMAIN t = 1 .. Len(s) + 1 /\ DOMAIN s = 1 .. Len(s) /\ Len(s) \in Nat
    /\ t[Len(s) + 1] = x
    /\ \A i \in DOMAIN s : t[i] = s[i]

LEMMA RisingDevsAppended ==
    ASSUME NEW s \in Seq(Found), RisingDevs(s), NEW x \in Found,
           \A i \in DOMAIN s : s[i].dev < x.dev
    PROVE  AppendsRising(s, x, Append(s, x))
<1>1. /\ DOMAIN Append(s, x) = 1 .. Len(s) + 1 /\ DOMAIN s = 1 .. Len(s) /\ Len(s) \in Nat
      /\ Append(s, x)[Len(s) + 1] = x
      /\ \A i \in 1 .. Len(s) : Append(s, x)[i] = s[i]
  OBVIOUS
<1>2. ASSUME NEW i \in 1 .. Len(s) + 1, NEW j \in 1 .. Len(s) + 1, i < j
      PROVE  Append(s, x)[i].dev < Append(s, x)[j].dev
  <2>1. i \in 1 .. Len(s)
    BY <1>1, <1>2
  <2>2. CASE j = Len(s) + 1
    BY <1>1, <2>1, <2>2
  <2>3. CASE j # Len(s) + 1
    <3>1. j \in 1 .. Len(s)
      BY <1>1, <2>3
    <3> QED BY <1>1, <1>2, <2>1, <3>1 DEF RisingDevs
  <2> QED BY <2>2, <2>3
<1> QED BY <1>1, <1>2 DEF AppendsRising, RisingDevs

LEMMA FirstPassFinds ==
    ASSUME ScanInv
    PROVE  \A k \in 0 .. ScanNames : FirstFound(k)
<1> DEFINE Bad == {k \in 0 .. ScanNames : ~FirstFound(k)}
<1> SUFFICES ASSUME Bad # {} PROVE FALSE
  OBVIOUS
<1>1. ScanNames \in Nat /\ 2 * ScanNames \in Nat /\ Bad \in SUBSET Nat
  BY ScanAssumption
<1>2. PICK m \in Bad : \A k \in Bad : m <= k
  <2> HIDE DEF Bad
  <2> QED BY <1>1, LeastNumber
<1>3. FirstFound(0)
  <2>1. Probed(0).found = <<>> /\ Probed(0).smart = "none"
    BY ProbesUnfold DEF Probed, ProbesGoOn
  <2>2. \A d \in Drives : ~(d <= 0)
    BY DEF Drives, Devices
  <2> QED BY <2>1, <2>2 DEF FirstFound, RisingDevs
<1>4. /\ m \in 1 .. ScanNames /\ m - 1 \in 0 .. ScanNames /\ m \in Devices /\ m \in 1 .. 2 * ScanNames
      /\ m \in Nat
  BY <1>1, <1>2, <1>3 DEF Devices
<1>5. FirstFound(m - 1)
  <2>1. m - 1 \notin Bad
    BY <1>1, <1>2, <1>4
  <2> QED BY <1>4, <2>1
<1> DEFINE was == Probed(m - 1)
           next == Probed(m)
           kind == scDevices[m]
<1>6. was \in Finding
  <2>1. m - 1 \in 0 .. 2 * ScanNames
    BY <1>1, <1>4
  <2> QED BY <2>1, ProbedType
<1>7. next = After(scDevices, m, was, "absent")
  <2>1. ProbesGoOn(scDevices, "none", "absent")
    BY ProbesUnfold
  <2> QED BY <1>4, <2>1 DEF Probed, ProbesGoOn
<1>8. /\ next \in Finding
      /\ kind = "absent" => next = was
      /\ kind # "absent" =>
           (next.smart = "probe" <=> kind = "smart" /\ was.smart = "none")
      /\ kind \notin {"adat", "smart"} => next.found = was.found
      /\ kind \in {"adat", "smart"} =>
           \/ next.found = was.found /\ was.smart = "probe"
           \/ /\ next.found = Append(was.found, [dev |-> m, smart |-> "none"])
              /\ kind = "smart" => was.smart = "probe"
           \/ /\ next.found = Append(was.found, [dev |-> m, smart |-> "own"])
              /\ kind = "smart"
  BY <1>4, <1>6, <1>7, FirstPassStep
<1> HIDE DEF next, was
<1>9. /\ was.smart = "probe" =>
           \E e \in 1 .. m - 1 : /\ scDevices[e] = "smart"
                                 /\ \A c \in e + 1 .. m - 1 : scDevices[c] = "absent"
      /\ \A i \in DOMAIN was.found : was.found[i].dev \in Drives /\ was.found[i].dev <= m - 1
      /\ RisingDevs(was.found)
      /\ \A d \in Drives : d <= m - 1 /\ ~BehindSmart(d) =>
           \E i \in DOMAIN was.found : was.found[i] = Healthy(d)
  BY <1>5 DEF FirstFound, was
<1>10. was.found \in Seq(Found) /\ was.smart \in {"none", "probe"}
  BY <1>6 DEF Finding
<1>11. \A d \in Drives : d \in Nat
  BY DEF Drives, Devices
<1>12. was.smart = "probe" => BehindSmart(m)
  BY <1>9 DEF BehindSmart
<1>13. next.smart = "probe" =>
         \E e \in 1 .. m : /\ scDevices[e] = "smart"
                           /\ \A c \in e + 1 .. m : scDevices[c] = "absent"
  <2> SUFFICES ASSUME next.smart = "probe"
               PROVE  \E e \in 1 .. m : /\ scDevices[e] = "smart"
                                        /\ \A c \in e + 1 .. m : scDevices[c] = "absent"
    OBVIOUS
  <2>1. CASE kind = "absent"
    <3>1. PICK e \in 1 .. m - 1 : /\ scDevices[e] = "smart"
                                  /\ \A c \in e + 1 .. m - 1 : scDevices[c] = "absent"
      BY <1>8, <1>9, <2>1
    <3>2. e \in 1 .. m /\ \A c \in e + 1 .. m : c \in e + 1 .. m - 1 \/ c = m
      BY <1>4
    <3> QED BY <2>1, <3>1, <3>2
  <2>2. CASE kind # "absent"
    <3>1. scDevices[m] = "smart"
      BY <1>8, <2>2
    <3>2. m \in 1 .. m /\ m + 1 .. m = {}
      BY <1>4
    <3> QED BY <3>1, <3>2
  <2> QED BY <2>1, <2>2
<1>14. ASSUME next.found = was.found, m \in Drives => BehindSmart(m) PROVE FALSE
  <2>1. \A i \in DOMAIN next.found : next.found[i].dev \in Drives /\ next.found[i].dev <= m
    BY <1>4, <1>9, <1>11, <1>14
  <2>2. ASSUME NEW d \in Drives, d <= m, ~BehindSmart(d)
        PROVE  \E i \in DOMAIN next.found : next.found[i] = Healthy(d)
    <3>1. d # m /\ d \in Nat
      BY <1>11, <1>14, <2>2
    <3>2. d <= m - 1
      BY <1>4, <2>2, <3>1
    <3> QED BY <1>9, <1>14, <2>2, <3>2
  <2>3. FirstFound(m)
    BY <1>9, <1>13, <1>14, <2>1, <2>2 DEF FirstFound, next
  <2> QED BY <1>2, <2>3
<1>15. ASSUME NEW x \in Found, next.found = Append(was.found, x), x.dev = m, m \in Drives,
              BehindSmart(m) \/ x = Healthy(m)
       PROVE  FALSE
  <2>1. \A i \in DOMAIN was.found : was.found[i].dev < x.dev
    <3> SUFFICES ASSUME NEW i \in DOMAIN was.found PROVE was.found[i].dev < m
      BY <1>15
    <3>1. was.found[i].dev <= m - 1 /\ was.found[i].dev \in Nat
      BY <1>9, <1>11
    <3> QED BY <1>4, <3>1
  <2>2. /\ RisingDevs(next.found)
        /\ DOMAIN next.found = 1 .. Len(was.found) + 1 /\ DOMAIN was.found = 1 .. Len(was.found)
        /\ Len(was.found) \in Nat
        /\ next.found[Len(was.found) + 1] = x
        /\ \A i \in DOMAIN was.found : next.found[i] = was.found[i]
    <3>1. AppendsRising(was.found, x, Append(was.found, x))
      BY <1>9, <1>10, <1>15, <2>1, RisingDevsAppended
    <3>2. next.found = Append(was.found, x)
      BY <1>15
    <3> QED BY <3>1, <3>2 DEF AppendsRising
  <2>3. \A i \in DOMAIN next.found : i \in DOMAIN was.found \/ i = Len(was.found) + 1
    BY <2>2
  <2>4. \A i \in DOMAIN next.found : next.found[i].dev \in Drives /\ next.found[i].dev <= m
    <3> SUFFICES ASSUME NEW i \in DOMAIN next.found
                 PROVE  next.found[i].dev \in Drives /\ next.found[i].dev <= m
      OBVIOUS
    <3>1. CASE i \in DOMAIN was.found
      <4>1. was.found[i].dev \in Drives /\ was.found[i].dev <= m - 1 /\ was.found[i].dev \in Nat
        BY <1>9, <1>11, <3>1
      <4> QED BY <1>4, <2>2, <3>1, <4>1
    <3>2. CASE i = Len(was.found) + 1
      BY <1>4, <1>15, <2>2, <3>2
    <3> QED BY <2>3, <3>1, <3>2
  <2>5. ASSUME NEW d \in Drives, d <= m, ~BehindSmart(d)
        PROVE  \E i \in DOMAIN next.found : next.found[i] = Healthy(d)
    <3>1. CASE d = m
      <4>1. Len(was.found) + 1 \in DOMAIN next.found
        BY <2>2
      <4> QED BY <1>15, <2>2, <2>5, <3>1, <4>1
    <3>2. CASE d # m
      <4>1. d <= m - 1
        BY <1>4, <1>11, <2>5, <3>2
      <4>2. PICK i \in DOMAIN was.found : was.found[i] = Healthy(d)
        BY <1>9, <2>5, <4>1
      <4>3. i \in DOMAIN next.found
        BY <2>2
      <4> QED BY <2>2, <4>2, <4>3
    <3> QED BY <3>1, <3>2
  <2>6. FirstFound(m)
    BY <1>13, <2>2, <2>4, <2>5 DEF FirstFound, next
  <2> QED BY <1>2, <2>6
<1>16. CASE kind \notin {"adat", "smart"}
  <2>1. m \notin Drives
    BY <1>16 DEF Drives
  <2> QED BY <1>8, <1>14, <1>16, <2>1
<1>17. CASE kind \in {"adat", "smart"}
  <2>1. m \in Drives
    BY <1>4, <1>17 DEF Drives
  <2>2. CASE next.found = was.found /\ was.smart = "probe"
    BY <1>12, <1>14, <2>2
  <2>3. CASE /\ next.found = Append(was.found, [dev |-> m, smart |-> "none"])
             /\ kind = "smart" => was.smart = "probe"
    <3>1. [dev |-> m, smart |-> "none"] \in Found
      BY <1>4 DEF Found
    <3>2. BehindSmart(m) \/ [dev |-> m, smart |-> "none"] = Healthy(m)
      BY <1>12, <2>3 DEF Healthy
    <3> QED BY <1>15, <2>1, <2>3, <3>1, <3>2
  <2>4. CASE /\ next.found = Append(was.found, [dev |-> m, smart |-> "own"])
             /\ kind = "smart"
    <3>1. [dev |-> m, smart |-> "own"] \in Found
      BY <1>4 DEF Found
    <3>2. [dev |-> m, smart |-> "own"] = Healthy(m)
      BY <2>4 DEF Healthy
    <3> QED BY <1>15, <2>1, <2>4, <3>1, <3>2
  <2> QED BY <1>8, <1>17, <2>2, <2>3, <2>4
<1> QED BY <1>16, <1>17

\* When there is no drive that the first pass can find, the second one finds
\* exactly the damaged ones.
SecondFound(k) ==
    /\ Probed(ScanNames + k) \in Finding /\ Probed(ScanNames + k).smart = "none"
    /\ \A i \in DOMAIN Probed(ScanNames + k).found :
         /\ Probed(ScanNames + k).found[i].dev \in Damaged
         /\ Probed(ScanNames + k).found[i].dev <= k
    /\ RisingDevs(Probed(ScanNames + k).found)
    /\ \A d \in Damaged : d <= k =>
         \E i \in DOMAIN Probed(ScanNames + k).found : Probed(ScanNames + k).found[i] = Healthy(d)

LEMMA SecondPassFinds ==
    ASSUME ScanInv, Drives = {}
    PROVE  \A k \in 0 .. ScanNames : SecondFound(k)
<1> DEFINE Bad == {k \in 0 .. ScanNames : ~SecondFound(k)}
<1> SUFFICES ASSUME Bad # {} PROVE FALSE
  OBVIOUS
<1>1. ScanNames \in Nat /\ 2 * ScanNames \in Nat /\ Bad \in SUBSET Nat
  BY ScanAssumption
<1>2. PICK m \in Bad : \A k \in Bad : m <= k
  <2> HIDE DEF Bad
  <2> QED BY <1>1, LeastNumber
<1>3. SecondFound(0)
  <2>1. FirstFound(ScanNames) /\ Probed(ScanNames) \in Finding /\ ScanNames + 0 = ScanNames
    BY <1>1, FirstPassFinds, ProbedType
  <2>2. DOMAIN Probed(ScanNames).found = {}
    BY <2>1 DEF FirstFound
  <2>3. Probed(ScanNames).smart = "none"
    <3> SUFFICES ASSUME Probed(ScanNames).smart = "probe" PROVE FALSE
      BY <2>1 DEF Finding
    <3>1. PICK e \in 1 .. ScanNames : scDevices[e] = "smart"
      BY <2>1 DEF FirstFound
    <3>2. e \in Drives
      BY <3>1 DEF Drives, Devices
    <3> QED BY <3>2
  <2>4. \A d \in Damaged : ~(d <= 0)
    BY DEF Damaged, Devices
  <2> QED BY <2>1, <2>2, <2>3, <2>4 DEF SecondFound, RisingDevs
<1>4. /\ m \in 1 .. ScanNames /\ m - 1 \in 0 .. ScanNames /\ m \in Devices /\ m \in Nat
      /\ ScanNames + m \in 1 .. 2 * ScanNames /\ (ScanNames + m) - 1 = ScanNames + (m - 1)
  BY <1>1, <1>2, <1>3 DEF Devices
<1>5. SecondFound(m - 1)
  <2>1. m - 1 \notin Bad
    BY <1>1, <1>2, <1>4
  <2> QED BY <1>4, <2>1
<1> DEFINE was == Probed(ScanNames + (m - 1))
           next == Probed(ScanNames + m)
           kind == scDevices[m]
<1>6. next = After(scDevices, ScanNames + m, was, "absent")
  <2>1. ProbesGoOn(scDevices, "none", "absent")
    BY ProbesUnfold
  <2> QED BY <1>4, <2>1 DEF Probed, ProbesGoOn
<1>7. /\ was \in Finding /\ was.smart = "none"
      /\ \A i \in DOMAIN was.found : was.found[i].dev \in Damaged /\ was.found[i].dev <= m - 1
      /\ RisingDevs(was.found)
      /\ \A d \in Damaged : d <= m - 1 =>
           \E i \in DOMAIN was.found : was.found[i] = Healthy(d)
  BY <1>5 DEF SecondFound
<1> HIDE DEF next, was
<1>8. kind \notin {"adat", "smart"}
  BY <1>4 DEF Drives
<1>9. /\ next \in Finding /\ next.smart = "none"
      /\ next.found = IF kind = "backup" THEN Append(was.found, [dev |-> m, smart |-> "none"])
                      ELSE was.found
  BY <1>4, <1>6, <1>7, <1>8, SecondPassStep
<1>10. was.found \in Seq(Found) /\ \A d \in Damaged : d \in Nat
  BY <1>7 DEF Finding, Damaged, Devices
<1>11. CASE kind # "backup"
  <2>1. m \notin Damaged /\ next.found = was.found
    BY <1>9, <1>11 DEF Damaged
  <2>2. \A i \in DOMAIN next.found : next.found[i].dev \in Damaged /\ next.found[i].dev <= m
    BY <1>4, <1>7, <1>10, <2>1
  <2>3. ASSUME NEW d \in Damaged, d <= m
        PROVE  \E i \in DOMAIN next.found : next.found[i] = Healthy(d)
    <3>1. d <= m - 1
      BY <1>4, <1>10, <2>1, <2>3
    <3> QED BY <1>7, <2>1, <3>1
  <2>4. SecondFound(m)
    BY <1>7, <1>9, <2>1, <2>2, <2>3 DEF SecondFound, next
  <2> QED BY <1>2, <2>4
<1>12. CASE kind = "backup"
  <2> DEFINE x == [dev |-> m, smart |-> "none"]
  <2>1. m \in Damaged /\ x \in Found /\ x = Healthy(m) /\ x.dev = m
    BY <1>4, <1>12 DEF Damaged, Found, Healthy
  <2> HIDE DEF x
  <2>2. next.found = Append(was.found, x)
    BY <1>9, <1>12 DEF x
  <2>3. \A i \in DOMAIN was.found : was.found[i].dev < x.dev
    <3> SUFFICES ASSUME NEW i \in DOMAIN was.found PROVE was.found[i].dev < m
      BY <2>1
    <3>1. was.found[i].dev <= m - 1 /\ was.found[i].dev \in Nat
      BY <1>7, <1>10
    <3> QED BY <1>4, <3>1
  <2>4. /\ RisingDevs(next.found)
        /\ DOMAIN next.found = 1 .. Len(was.found) + 1 /\ DOMAIN was.found = 1 .. Len(was.found)
        /\ Len(was.found) \in Nat
        /\ next.found[Len(was.found) + 1] = x
        /\ \A i \in DOMAIN was.found : next.found[i] = was.found[i]
    <3>1. AppendsRising(was.found, x, Append(was.found, x))
      BY <1>7, <1>10, <2>1, <2>3, RisingDevsAppended
    <3>2. next.found = Append(was.found, x)
      BY <2>2
    <3> QED BY <3>1, <3>2 DEF AppendsRising
  <2>5. \A i \in DOMAIN next.found : i \in DOMAIN was.found \/ i = Len(was.found) + 1
    BY <2>4
  <2>6. \A i \in DOMAIN next.found : next.found[i].dev \in Damaged /\ next.found[i].dev <= m
    <3> SUFFICES ASSUME NEW i \in DOMAIN next.found
                 PROVE  next.found[i].dev \in Damaged /\ next.found[i].dev <= m
      OBVIOUS
    <3>1. CASE i \in DOMAIN was.found
      <4>1. /\ was.found[i].dev \in Damaged /\ was.found[i].dev <= m - 1
            /\ was.found[i].dev \in Nat
        BY <1>7, <1>10, <3>1
      <4>2. next.found[i] = was.found[i]
        BY <2>4, <3>1
      <4>3. was.found[i].dev <= m
        BY <1>4, <4>1
      <4> QED BY <4>1, <4>2, <4>3
    <3>2. CASE i = Len(was.found) + 1
      BY <1>4, <2>1, <2>4, <3>2
    <3> QED BY <2>5, <3>1, <3>2
  <2>7. ASSUME NEW d \in Damaged, d <= m
        PROVE  \E i \in DOMAIN next.found : next.found[i] = Healthy(d)
    <3>1. CASE d = m
      <4>1. Len(was.found) + 1 \in DOMAIN next.found
        BY <2>4
      <4> QED BY <2>1, <2>4, <3>1, <4>1
    <3>2. CASE d # m
      <4>1. d <= m - 1
        BY <1>4, <1>10, <2>7, <3>2
      <4>2. PICK i \in DOMAIN was.found : was.found[i] = Healthy(d)
        BY <1>7, <4>1
      <4>3. i \in DOMAIN next.found
        BY <2>4
      <4> QED BY <2>4, <4>2, <4>3
    <3> QED BY <3>1, <3>2
  <2>8. SecondFound(m)
    BY <1>9, <2>4, <2>6, <2>7 DEF SecondFound, next
  <2> QED BY <1>2, <2>8
<1> QED BY <1>11, <1>12

\* What was found stays found, in its place.
BeginsAlike(s, t) == t \in Seq(Found) /\ Len(s) <= Len(t) /\ \A i \in 1 .. Len(s) : s[i] = t[i]

LEMMA FoundStays ==
    ASSUME ScanInv
    PROVE  \A k \in 0 .. ScanNames :
             BeginsAlike(Probed(ScanNames).found, Probed(ScanNames + k).found)
<1> DEFINE first == Probed(ScanNames).found
           Good(k) == BeginsAlike(first, Probed(ScanNames + k).found)
           Bad == {k \in 0 .. ScanNames : ~Good(k)}
<1> SUFFICES ASSUME Bad # {} PROVE FALSE
  OBVIOUS
<1>1. ScanNames \in Nat /\ 2 * ScanNames \in Nat /\ Bad \in SUBSET Nat
  BY ScanAssumption
<1>2. PICK m \in Bad : \A k \in Bad : m <= k
  <2> HIDE DEF Bad
  <2> QED BY <1>1, LeastNumber
<1>3. first \in Seq(Found) /\ Len(first) \in Nat
  <2>1. Probed(ScanNames) \in Finding
    BY <1>1, ProbedType
  <2> QED BY <2>1 DEF Finding
<1>4. Good(0)
  <2>1. ScanNames + 0 = ScanNames
    BY <1>1
  <2> QED BY <1>3, <2>1 DEF BeginsAlike
<1>5. /\ m \in 1 .. ScanNames /\ m - 1 \in 0 .. ScanNames /\ m \in Devices
      /\ ScanNames + m \in 1 .. 2 * ScanNames /\ (ScanNames + m) - 1 = ScanNames + (m - 1)
      /\ ScanNames + m > ScanNames /\ (ScanNames + m) - ScanNames = m
  BY <1>1, <1>2, <1>4 DEF Devices
<1>6. Good(m - 1)
  <2>1. m - 1 \notin Bad
    BY <1>1, <1>2, <1>5
  <2> QED BY <1>5, <2>1
<1> DEFINE was == Probed(ScanNames + (m - 1))
           next == Probed(ScanNames + m)
           x == [dev |-> m, smart |-> "none"]
<1>7. next = After(scDevices, ScanNames + m, was, "absent")
  <2>1. ProbesGoOn(scDevices, "none", "absent")
    BY ProbesUnfold
  <2> QED BY <1>5, <2>1 DEF Probed, ProbesGoOn
<1>8. BeginsAlike(first, was.found)
  BY <1>6
<1> HIDE DEF was, next, first
<1>9. next.found = was.found \/ next.found = Append(was.found, x)
  BY <1>5, <1>7 DEF After
<1>10. x \in Found
  BY <1>5 DEF Found
<1> HIDE DEF x
<1>11. CASE next.found = Append(was.found, x)
  <2>1. /\ was.found \in Seq(Found) /\ Len(first) <= Len(was.found) /\ Len(was.found) \in Nat
        /\ \A i \in 1 .. Len(first) : first[i] = was.found[i]
    BY <1>8 DEF BeginsAlike
  <2>2. /\ next.found \in Seq(Found) /\ Len(next.found) = Len(was.found) + 1
        /\ \A i \in 1 .. Len(was.found) : next.found[i] = was.found[i]
    BY <1>10, <1>11, <2>1
  <2>3. \A i \in 1 .. Len(first) : first[i] = next.found[i]
    BY <1>3, <2>1, <2>2
  <2>4. BeginsAlike(first, next.found)
    BY <1>3, <2>1, <2>2, <2>3 DEF BeginsAlike
  <2> QED BY <1>2, <2>4 DEF next
<1>12. CASE next.found = was.found
  BY <1>2, <1>8, <1>12 DEF next
<1> QED BY <1>9, <1>11, <1>12

LEMMA ProbesAlike ==
    ASSUME ScanInv, NEW own
    PROVE  /\ Probes(scDevices, ScanNames, "none", own) = Probed(ScanNames)
           /\ Probes(scDevices, 2 * ScanNames, "none", own) = Probed(2 * ScanNames)
<1>1. ScanNames \in 0 .. 2 * ScanNames /\ 2 * ScanNames \in 0 .. 2 * ScanNames
  BY ScanAssumption
<1> QED BY <1>1, ProbesSame

\* The first of the drives is not behind a smart image, which would be one.
LEMMA FirstIsFound ==
    ASSUME ScanInv, Drives # {}
    PROVE  Probed(ScanNames).found # <<>>
<1>1. PICK d \in Drives : \A e \in Drives : d <= e
  <2>1. Drives \in SUBSET Nat
    BY DEF Drives, Devices
  <2> QED BY <2>1, LeastNumber
<1>2. ScanNames \in Nat /\ d \in 1 .. ScanNames
  BY ScanAssumption DEF Drives, Devices
<1>3. ~BehindSmart(d)
  <2> SUFFICES ASSUME NEW e \in 1 .. d - 1, scDevices[e] = "smart" PROVE FALSE
    BY DEF BehindSmart
  <2>1. e \in Drives
    BY <1>2 DEF Drives, Devices
  <2>2. ~(d <= e)
    BY <1>2
  <2> QED BY <1>1, <2>1, <2>2
<1>4. FirstFound(ScanNames)
  BY <1>2, FirstPassFinds
<1>5. d <= ScanNames
  BY <1>2
<1>6. PICK i \in DOMAIN Probed(ScanNames).found : Probed(ScanNames).found[i] = Healthy(d)
  BY <1>3, <1>4, <1>5 DEF FirstFound
<1> QED BY <1>6

\* What a list of drives is to be.
RightList(list, wanted) ==
    /\ \A d \in wanted : ~BehindSmart(d) =>
         Cardinality({i \in DOMAIN list : list[i] = Healthy(d)}) = 1
    /\ \A i \in DOMAIN list : list[i].dev \in wanted \/ (wanted = {} /\ list = <<NoDrive>>)
    /\ \A i, j \in DOMAIN list : i < j => list[i].dev < list[j].dev

LEMMA FoundIsRight ==
    ASSUME NEW list \in Seq(Found), NEW wanted \in SUBSET Devices, RisingDevs(list),
           \A i \in DOMAIN list : list[i].dev \in wanted,
           \A d \in wanted : ~BehindSmart(d) => \E i \in DOMAIN list : list[i] = Healthy(d)
    PROVE  RightList(list, wanted)
<1>0. DOMAIN list \subseteq Nat /\ \A i \in DOMAIN list : list[i].dev \in Nat
  BY DEF Found, Devices
<1>1. ASSUME NEW d \in wanted, ~BehindSmart(d)
      PROVE  Cardinality({i \in DOMAIN list : list[i] = Healthy(d)}) = 1
  <2>1. PICK i \in DOMAIN list : list[i] = Healthy(d)
    BY <1>1
  <2>2. ASSUME NEW j \in DOMAIN list, list[j] = Healthy(d), j # i PROVE FALSE
    <3>1. i < j \/ j < i
      BY <1>0, <2>2
    <3>2. list[i].dev < list[j].dev \/ list[j].dev < list[i].dev
      BY <3>1 DEF RisingDevs
    <3> QED BY <1>0, <2>1, <2>2, <3>2
  <2>3. {j \in DOMAIN list : list[j] = Healthy(d)} = {i}
    BY <2>1, <2>2
  <2> QED BY <2>3, FS_Singleton
<1> QED BY <1>1 DEF RightList, RisingDevs

\* The default object is nothing, a drive that was found, or one that was
\* changed in what it reads through.
DefaultIsDrive == \E d, s : scDefault = [dev |-> d, smart |-> s]

LEMMA DefaultHolds == ScanSpec => []DefaultIsDrive
<1>1. ScanInit => DefaultIsDrive
  BY DEF ScanInit, DefaultIsDrive, NoDrive
<1>2. ScanInv /\ DefaultIsDrive /\ [ScanNext]_scanVars => DefaultIsDrive'
  <2> SUFFICES ASSUME ScanInv, DefaultIsDrive, [ScanNext]_scanVars PROVE DefaultIsDrive'
    OBVIOUS
  <2>1. PICK d, s : scDefault = [dev |-> d, smart |-> s]
    BY DEF DefaultIsDrive
  <2>2. CASE Detect
    <3> DEFINE found == Probes(scDevices, 2 * ScanNames, "none", "absent").found
    <3>1. Probed(2 * ScanNames) \in Finding
      BY ProbedType, ScanAssumption
    <3>2. found \in Seq(Found)
      BY <3>1 DEF Probed, Finding
    <3>3. scDefault' = IF 1 \in DOMAIN found THEN found[1] ELSE NoDrive
      BY <2>2 DEF Detect, Opened
    <3> HIDE DEF found
    <3>4. scDefault' \in Found \/ scDefault' = NoDrive
      BY <3>2, <3>3
    <3> QED BY <3>4 DEF Found, NoDrive, DefaultIsDrive
  <2>3. CASE Populate
    <3> DEFINE t == Counting(scDevices, scDefault).smart
    <3>1. scDefault' = [scDefault EXCEPT !.smart = t]
      BY <2>3 DEF Populate
    <3> HIDE DEF t
    <3>2. scDefault' = [dev |-> d, smart |-> t]
      BY <2>1, <3>1
    <3> QED BY <3>2 DEF DefaultIsDrive
  <2>4. CASE UNCHANGED scDefault
    BY <2>1, <2>4 DEF DefaultIsDrive
  <2> QED BY <2>2, <2>3, <2>4 DEF ScanNext, scanVars, Replug, Choose
<1> QED BY <1>1, <1>2, ScanInvHolds, PTL DEF ScanSpec

\* What one refresh of the drive list makes of it: the body of ListIsRight.
ListedRight ==
    LET wanted == IF Drives # {} THEN Drives ELSE Damaged
        list   == scList'
    IN  /\ \A d \in wanted : ~BehindSmart(d) =>
             Cardinality({i \in DOMAIN list : list[i] = Healthy(d)}) = 1
        /\ \A i \in DOMAIN list :
             \/ list[i].dev \in wanted
             \/ wanted = {} /\ list = <<NoDrive>>
        /\ \A i, j \in DOMAIN list : i < j => list[i].dev < list[j].dev
        /\ (\A d \in Drives : scDevices[d] # "smart") => scDefault'.smart = "none"

LEMMA ListedRightParts ==
    ASSUME RightList(scList', IF Drives # {} THEN Drives ELSE Damaged),
           (\A d \in Drives : scDevices[d] # "smart") => scDefault'.smart = "none"
    PROVE  ListedRight
BY DEF ListedRight, RightList

LEMMA PopulateIsRight ==
    ASSUME ScanInv, DefaultIsDrive, Populate, scDefault.smart = "none"
    PROVE  ListedRight
<1> SUFFICES /\ RightList(scList', IF Drives # {} THEN Drives ELSE Damaged)
             /\ (\A d \in Drives : scDevices[d] # "smart") => scDefault'.smart = "none"
  BY ListedRightParts
<1> DEFINE first == Probed(ScanNames)
           all == Probed(2 * ScanNames)
           count == Counting(scDevices, scDefault)
           n == IF count.found = <<>> THEN 1 ELSE Len(count.found)
<1>1. /\ ScanNames \in Nat \ {0} /\ 2 * ScanNames = ScanNames + ScanNames
      /\ ScanNames \in 0 .. ScanNames
  BY ScanAssumption
<1>2. /\ first \in Finding /\ all \in Finding
      /\ first.found \in Seq(Found) /\ all.found \in Seq(Found)
  <2>1. ScanNames \in 0 .. 2 * ScanNames /\ 2 * ScanNames \in 0 .. 2 * ScanNames
    BY <1>1
  <2>2. first \in Finding /\ all \in Finding
    BY <2>1, ProbedType
  <2> HIDE DEF first, all
  <2> QED BY <2>2 DEF Finding
<1>3. count = IF first.found # <<>> THEN first ELSE all
  <2> DEFINE own == IF scDefault.dev = 0 THEN "absent" ELSE scDevices[scDefault.dev]
  <2>1. /\ Probes(scDevices, ScanNames, "none", own) = first
        /\ Probes(scDevices, 2 * ScanNames, "none", own) = all
    BY ProbesAlike
  <2>2. count = IF Probes(scDevices, ScanNames, "none", own).found # <<>>
                THEN Probes(scDevices, ScanNames, "none", own)
                ELSE Probes(scDevices, 2 * ScanNames, "none", own)
    BY DEF Counting
  <2> HIDE DEF own, count, first, all
  <2> QED BY <2>1, <2>2
<1>4. /\ scList' = [i \in 1 .. n |-> Opened(scDevices, i - 1)]
      /\ scDefault' = [scDefault EXCEPT !.smart = count.smart]
  BY DEF Populate
<1>5. \A k : Opened(scDevices, k) = IF k + 1 \in DOMAIN all.found THEN all.found[k + 1] ELSE NoDrive
  BY DEF Opened, Probed
<1>6. FirstFound(ScanNames)
  BY <1>1, FirstPassFinds
<1>7. BeginsAlike(first.found, all.found)
  <2>1. BeginsAlike(Probed(ScanNames).found, Probed(ScanNames + ScanNames).found)
    BY <1>1, FoundStays
  <2> QED BY <1>1, <2>1
<1>8. scDefault'.smart = count.smart
  <2>1. PICK d, s : scDefault = [dev |-> d, smart |-> s]
    BY DEF DefaultIsDrive
  <2> HIDE DEF count
  <2> QED BY <1>4, <2>1
<1>9. Drives \in SUBSET Devices /\ Damaged \in SUBSET Devices
  BY DEF Drives, Damaged
<1> HIDE DEF count
<1>10. CASE first.found # <<>>
  <2>1. count = first /\ n = Len(first.found)
    BY <1>3, <1>10
  <2>2. scList' = first.found
    <3>1. ASSUME NEW i \in 1 .. n PROVE Opened(scDevices, i - 1) = first.found[i]
      <4>1. i \in 1 .. Len(first.found) /\ i \in DOMAIN all.found /\ (i - 1) + 1 = i
        BY <1>2, <1>7, <2>1 DEF BeginsAlike
      <4>2. all.found[i] = first.found[i]
        BY <1>7, <4>1 DEF BeginsAlike
      <4> QED BY <1>5, <4>1, <4>2
    <3>2. first.found = [i \in 1 .. n |-> first.found[i]]
      BY <1>2, <2>1
    <3> HIDE DEF n, first, all
    <3> QED BY <1>4, <3>1, <3>2
  <2>3. \A i \in DOMAIN first.found : first.found[i].dev \in Drives
    BY <1>6 DEF FirstFound
  <2>4. Drives # {}
    <3>1. 1 \in DOMAIN first.found
      BY <1>2, <1>10
    <3> QED BY <2>3, <3>1
  <2>5. \A d \in Drives : d <= ScanNames
    BY <1>1 DEF Drives, Devices
  <2>6. RightList(first.found, Drives)
    <3>1. \A d \in Drives : ~BehindSmart(d) =>
            \E i \in DOMAIN first.found : first.found[i] = Healthy(d)
      BY <1>6, <2>5 DEF FirstFound
    <3>2. RisingDevs(first.found)
      BY <1>6 DEF FirstFound
    <3> HIDE DEF first
    <3> QED BY <1>2, <1>9, <2>3, <3>1, <3>2, FoundIsRight
  <2>7. (\A d \in Drives : scDevices[d] # "smart") => first.smart = "none"
    <3> SUFFICES ASSUME \A d \in Drives : scDevices[d] # "smart", first.smart = "probe" PROVE FALSE
      BY <1>2 DEF Finding
    <3>1. PICK e \in 1 .. ScanNames : scDevices[e] = "smart"
      BY <1>6 DEF FirstFound
    <3>2. e \in Drives
      BY <3>1 DEF Drives, Devices
    <3> QED BY <3>1, <3>2
  <2> QED BY <1>8, <2>1, <2>2, <2>4, <2>6, <2>7
<1>11. CASE first.found = <<>>
  <2>1. Drives = {} /\ count = all
    BY <1>3, <1>11, FirstIsFound
  <2>2. SecondFound(ScanNames)
    BY <1>1, <2>1, SecondPassFinds
  <2>3. /\ all.smart = "none"
        /\ \A i \in DOMAIN all.found : all.found[i].dev \in Damaged
        /\ RisingDevs(all.found)
        /\ \A d \in Damaged : \E i \in DOMAIN all.found : all.found[i] = Healthy(d)
    <3>1. \A d \in Damaged : d <= ScanNames
      BY <1>1 DEF Damaged, Devices
    <3> QED BY <1>1, <2>2, <3>1 DEF SecondFound
  <2> HIDE DEF all
  <2>4. RightList(all.found, Damaged)
    BY <1>2, <1>9, <2>3, FoundIsRight
  <2>5. CASE all.found # <<>>
    <3>1. scList' = all.found
      <4>1. n = Len(all.found)
        BY <2>1, <2>5
      <4>2. ASSUME NEW i \in 1 .. n PROVE Opened(scDevices, i - 1) = all.found[i]
        <5>1. i \in DOMAIN all.found /\ (i - 1) + 1 = i
          BY <1>2, <4>1
        <5> QED BY <1>5, <5>1
      <4>3. all.found = [i \in 1 .. n |-> all.found[i]]
        BY <1>2, <4>1
      <4> HIDE DEF n
      <4> QED BY <1>4, <4>2, <4>3
    <3> QED BY <1>8, <2>1, <2>3, <2>4, <3>1
  <2>6. CASE all.found = <<>>
    <3>1. n = 1 /\ Damaged = {}
      BY <2>1, <2>3, <2>6
    <3>2. \A i \in 1 .. 1 : Opened(scDevices, i - 1) = NoDrive
      BY <1>5, <2>6
    <3>3. scList' = <<NoDrive>>
      <4>1. scList' = [i \in 1 .. 1 |-> NoDrive]
        BY <1>4, <3>1, <3>2
      <4> QED BY <4>1
    <3>4. DOMAIN <<NoDrive>> = {1}
      OBVIOUS
    <3>5. RightList(<<NoDrive>>, {})
      BY <3>4 DEF RightList
    <3> QED BY <1>8, <2>1, <2>3, <3>1, <3>3, <3>5
  <2> QED BY <2>5, <2>6
<1> QED BY <1>10, <1>11

\* With any number of devices, of any kinds and in any order, that come and go
\* while the program runs: the drive list has each drive once, as what it is,
\* in the order of the names, and damaged ones only if there are no others;
\* but for those right behind a smart image (findhd24device, populate_drivelist).
THEOREM DriveListIsRight == ScanSpec => ListIsRight
<1>1. ScanInv /\ DefaultIsDrive /\ [ScanNext]_scanVars =>
        [Populate /\ scDefault.smart = "none" => ListedRight]_scanVars
  BY PopulateIsRight
<1>2. ScanSpec => [][Populate /\ scDefault.smart = "none" => ListedRight]_scanVars
  BY <1>1, ScanInvHolds, DefaultHolds, PTL DEF ScanSpec
<1>3. [][Populate /\ scDefault.smart = "none" => ListedRight]_scanVars => ListIsRight
  <2>1. [Populate /\ scDefault.smart = "none" => ListedRight]_scanVars =>
        [Populate /\ scDefault.smart = "none" =>
             LET wanted == IF Drives # {} THEN Drives ELSE Damaged
                 list   == scList'
             IN  /\ \A d \in wanted : ~BehindSmart(d) =>
                      Cardinality({i \in DOMAIN list : list[i] = Healthy(d)}) = 1
                 /\ \A i \in DOMAIN list :
                      \/ list[i].dev \in wanted
                      \/ wanted = {} /\ list = <<NoDrive>>
                 /\ \A i, j \in DOMAIN list : i < j => list[i].dev < list[j].dev
                 /\ (\A d \in Drives : scDevices[d] # "smart") => scDefault'.smart = "none"
          ]_scanVars
    BY DEF ListedRight
  <2> QED BY <2>1, PTL DEF ListIsRight
<1> QED BY <1>2, <1>3, PTL
==============================================================================
