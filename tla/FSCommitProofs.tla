--------------------------- MODULE FSCommitProofs ---------------------------
(***************************************************************************)
(* What FSCommit keeps for every size of drive and number of songs: every  *)
(* operation ends with all its changes backed up, a commit never writes    *)
(* outside the backup, and one copy of each block survives any stop.       *)
(***************************************************************************)
EXTENDS FSCommit, TLAPS

-----------------------------------------------------------------------------
(* The layout. *)

LEMMA LayoutFacts ==
  /\ Projects \in Nat /\ Projects >= 1 /\ Songs \in Nat /\ Songs >= 1
  /\ FSSectors \in Nat /\ FSSectors >= 28
  /\ DataStart \in Nat /\ LastSector \in Nat
  /\ FSSectors <= DataStart /\ FSSectors <= LastSector + 1
BY LayoutAssumption DEF FSSectors

\* Blocks lie inside the file system.
LEMMA BlockFacts ==
  ASSUME NEW b \in Blocks
  PROVE  /\ b.first \in Nat /\ b.size \in Nat /\ b.size >= 1
         /\ b.first + b.size <= FSSectors
         /\ b = Block(b.first, b.size)
BY LayoutFacts DEF Blocks, Block, ProjectSector, SongSector, FSSectors

\* No two of them overlap.
LEMMA BlocksApart ==
  ASSUME NEW b \in Blocks, NEW c \in Blocks, b # c
  PROVE  b.first + b.size <= c.first \/ c.first + c.size <= b.first
BY LayoutFacts DEF Blocks, Block, ProjectSector, SongSector, FSSectors

\* The kinds of blocks.
LEMMA BlockCases ==
  ASSUME NEW b \in Blocks
  PROVE  \/ b \in {Block(0, 1), Block(1, 1), Block(2, 3), Block(5, 15)}
         \/ \E p \in 1..Projects : b = Block(ProjectSector(p), 1)
         \/ \E s \in 1..Songs : b = Block(SongSector(s), 2)
         \/ \E s \in 1..Songs : b = Block(SongSector(s) + 2, 5)
BY DEF Blocks

LEMMA BlockMembers ==
  /\ Block(0, 1) \in Blocks /\ Block(1, 1) \in Blocks
  /\ Block(2, 3) \in Blocks /\ Block(5, 15) \in Blocks
  /\ \A p \in 1..Projects : Block(ProjectSector(p), 1) \in Blocks
  /\ \A s \in 1..Songs : Block(SongSector(s), 2) \in Blocks
  /\ \A s \in 1..Songs : Block(SongSector(s) + 2, 5) \in Blocks
BY DEF Blocks

\* A sector that is the end of the file system or where a block begins.
Boundary(n) == n = FSSectors \/ \E c \in Blocks : c.first = n

\* Each begins where the one before it ends.
LEMMA NextBlock ==
  ASSUME NEW b \in Blocks
  PROVE  Boundary(b.first + b.size)
<1>1. CASE b \in {Block(0, 1), Block(1, 1), Block(2, 3), Block(5, 15)}
  <2>1. Block(20, 1) \in Blocks
    BY BlockMembers, LayoutFacts, 1 \in 1..Projects DEF ProjectSector
  <2> QED BY <1>1, <2>1, BlockMembers DEF Boundary, Block
<1>2. ASSUME NEW p \in 1..Projects, b = Block(ProjectSector(p), 1)
      PROVE  Boundary(b.first + b.size)
  <2>1. b.first + b.size = 20 + p
    BY <1>2, LayoutFacts DEF Block, ProjectSector
  <2>2. CASE p = Projects
    <3>1. 1 \in 1..Songs /\ SongSector(1) = 20 + Projects
      BY LayoutFacts DEF SongSector
    <3>2. Block(SongSector(1), 2) \in Blocks
      BY <3>1, BlockMembers
    <3> QED BY <2>1, <2>2, <3>1, <3>2 DEF Boundary, Block
  <2>3. CASE p # Projects
    <3>1. p + 1 \in 1..Projects /\ ProjectSector(p + 1) = 20 + p
      BY <2>3, LayoutFacts DEF ProjectSector
    <3> QED BY <2>1, <3>1, BlockMembers DEF Boundary, Block
  <2> QED BY <2>2, <2>3
<1>3. ASSUME NEW s \in 1..Songs, b = Block(SongSector(s), 2)
      PROVE  Boundary(b.first + b.size)
  <2>1. b.first + b.size = SongSector(s) + 2
    BY <1>3 DEF Block
  <2> QED BY <2>1, BlockMembers DEF Boundary, Block
<1>4. ASSUME NEW s \in 1..Songs, b = Block(SongSector(s) + 2, 5)
      PROVE  Boundary(b.first + b.size)
  <2>1. b.first + b.size = 20 + Projects + 7 * s
    BY <1>4, LayoutFacts DEF Block, SongSector
  <2>2. CASE s = Songs
    BY <2>1, <2>2 DEF Boundary, FSSectors
  <2>3. CASE s # Songs
    <3>1. s + 1 \in 1..Songs /\ SongSector(s + 1) = 20 + Projects + 7 * s
      BY <2>3, LayoutFacts DEF SongSector
    <3> QED BY <2>1, <3>1, BlockMembers DEF Boundary, Block
  <2> QED BY <2>2, <2>3
<1> QED BY <1>1, <1>2, <1>3, <1>4, BlockCases

\* A write covers a block or leaves it alone.
LEMMA WritesAligned ==
  ASSUME NEW i \in Instructions, i.op = "write", NEW b \in Blocks
  PROVE  /\ i.first \in Nat /\ i.count \in Nat /\ i.first + i.count <= FSSectors
         /\ i.count >= 1
         /\ \/ i.first <= b.first /\ b.first + b.size <= i.first + i.count
            \/ b.first + b.size <= i.first
            \/ i.first + i.count <= b.first
BY BlockCases, LayoutFacts
   DEF Instructions, Instruction, Block, ProjectSector, SongSector, FSSectors

-----------------------------------------------------------------------------
(* Where the backup lies. *)

\* The backup of a block ends in the drive, above the data area's start.
LEMMA BackupFacts ==
  ASSUME NEW b \in Blocks
  PROVE  /\ BackupFirst(b) \in Int
         /\ BackupFirst(b) + b.size <= LastSector + 1
         /\ BackupFirst(b) > LastSector - FSSectors
         /\ BackupFirst(b) >= 0
         /\ HasBackup(b) => BackupFirst(b) >= FSSectors
BY LayoutFacts, BlockFacts DEF BackupFirst, HasBackup

\* The order of blocks is reversed: backups do not overlap either.
LEMMA BackupsApart ==
  ASSUME NEW b \in Blocks, NEW c \in Blocks, b # c
  PROVE  \/ BackupFirst(b) + b.size <= BackupFirst(c)
         \/ BackupFirst(c) + c.size <= BackupFirst(b)
BY LayoutFacts, BlockFacts, BlocksApart DEF BackupFirst

\* A home sector, its mirror, and the way back.
LEMMA HomeSectors ==
  ASSUME NEW b \in Blocks, NEW s \in Home(b)
  PROVE  /\ s \in Sectors /\ s < FSSectors
         /\ Mirror(b, s) \in Backup(b) /\ Mirror(b, s) \in Sectors
         /\ Source(b, Mirror(b, s)) = s
BY LayoutFacts, BlockFacts, BackupFacts DEF Home, Backup, Mirror, Source, Sectors

LEMMA BackupSectors ==
  ASSUME NEW b \in Blocks, NEW s \in Backup(b)
  PROVE  /\ s \in Sectors /\ s > LastSector - FSSectors
         /\ HasBackup(b) => s >= DataStart /\ s >= FSSectors
         /\ Source(b, s) \in Home(b) /\ Mirror(b, Source(b, s)) = s
BY LayoutFacts, BlockFacts, BackupFacts
   DEF Home, Backup, Mirror, Source, Sectors, HasBackup

\* A sector lies in one block and in one backup at most.
LEMMA OneBlock ==
  ASSUME NEW b \in Blocks, NEW c \in Blocks
  PROVE  /\ \A s \in Home(b) : s \in Home(c) => b = c
         /\ \A s \in Backup(b) : s \in Backup(c) => b = c
BY BlocksApart, BackupsApart, BlockFacts, BackupFacts DEF Home, Backup

-----------------------------------------------------------------------------
(* What a change of the drive leaves as it was. *)

Same(d, e, area) == \A s \in area : e[s] = d[s]

LEMMA FrameWhole ==
  ASSUME NEW d, NEW e, NEW area, Same(d, e, area)
  PROVE  Whole(e, area) <=> Whole(d, area)
BY DEF Same, Whole

LEMMA FrameInStep ==
  ASSUME NEW b \in Blocks, NEW d, NEW e, Same(d, e, Home(b)), Same(d, e, Backup(b))
  PROVE  InStep(e, b) <=> InStep(d, b)
<1>1. \A s \in Home(b) : Mirror(b, s) \in Backup(b)
  BY HomeSectors
<1> QED BY <1>1 DEF Same, InStep

\* The backup of a whole block in step is whole, and the other way round.
LEMMA InStepWhole ==
  ASSUME NEW b \in Blocks, NEW d, InStep(d, b)
  PROVE  Whole(d, Home(b)) <=> Whole(d, Backup(b))
<1>1. ASSUME Whole(d, Home(b)) PROVE Whole(d, Backup(b))
  <2> SUFFICES ASSUME NEW s \in Backup(b), NEW t \in Backup(b) PROVE d[s] = d[t]
    BY DEF Whole
  <2>1. Source(b, s) \in Home(b) /\ Mirror(b, Source(b, s)) = s
    BY BackupSectors
  <2>2. Source(b, t) \in Home(b) /\ Mirror(b, Source(b, t)) = t
    BY BackupSectors
  <2>3. d[Source(b, s)] = d[s] /\ d[Source(b, t)] = d[t]
    BY <2>1, <2>2 DEF InStep
  <2> QED BY <1>1, <2>1, <2>2, <2>3 DEF Whole
<1>2. ASSUME Whole(d, Backup(b)) PROVE Whole(d, Home(b))
  <2> SUFFICES ASSUME NEW s \in Home(b), NEW t \in Home(b) PROVE d[s] = d[t]
    BY DEF Whole
  <2>1. Mirror(b, s) \in Backup(b) /\ Mirror(b, t) \in Backup(b)
    BY HomeSectors
  <2>2. d[s] = d[Mirror(b, s)] /\ d[t] = d[Mirror(b, t)]
    BY DEF InStep
  <2> QED BY <1>2, <2>1, <2>2 DEF Whole
<1> QED BY <1>1, <1>2

\* A write, or the first n sectors of one, touches no backup and covers a
\* block or leaves it alone.
LEMMA WriteEffect ==
  ASSUME NEW i \in Instructions, i.op = "write", NEW c, NEW d, NEW n \in 0..i.count,
         NEW e, e = [s \in Sectors |->
                      IF s \in Written(i) /\ s < i.first + n THEN c ELSE d[s]],
         NEW b \in Blocks
  PROVE  /\ HasBackup(b) => Same(d, e, Backup(b))
         /\ \/ Same(d, e, Home(b))
            \/ /\ b.first <= i.first + i.count - 1
               /\ n = i.count => Whole(e, Home(b))
<1>1. ASSUME HasBackup(b) PROVE Same(d, e, Backup(b))
  <2> SUFFICES ASSUME NEW s \in Backup(b) PROVE e[s] = d[s]
    BY DEF Same
  <2>1. s \in Sectors /\ s >= FSSectors
    BY <1>1, BackupSectors
  <2>2. s \notin Written(i)
    BY <2>1, WritesAligned, LayoutFacts DEF Written, Sectors
  <2> QED BY <2>1, <2>2
<1>2. CASE i.first <= b.first /\ b.first + b.size <= i.first + i.count
  <2>1. b.first <= i.first + i.count - 1
    BY <1>2, BlockFacts, WritesAligned
  <2>2. ASSUME n = i.count PROVE Whole(e, Home(b))
    <3>1. \A s \in Home(b) : s \in Written(i) /\ s < i.first + n
      BY <1>2, <2>2, BlockFacts, WritesAligned DEF Home, Written
    <3>2. \A s \in Home(b) : e[s] = c
      BY <3>1, HomeSectors
    <3> QED BY <3>2 DEF Whole
  <2> QED BY <1>1, <2>1, <2>2
<1>3. CASE b.first + b.size <= i.first \/ i.first + i.count <= b.first
  <2> SUFFICES Same(d, e, Home(b))
    BY <1>1
  <2>1. \A s \in Home(b) : s \in Sectors /\ s \notin Written(i)
    BY <1>3, HomeSectors, BlockFacts, WritesAligned DEF Home, Written
  <2> QED BY <2>1 DEF Same
<1> QED BY <1>2, <1>3, WritesAligned

\* Backing up the first n sectors of a block touches nothing else.
LEMMA BackupEffect ==
  ASSUME NEW b \in Blocks, HasBackup(b), NEW n \in 0..b.size, NEW c \in Blocks
  PROVE  /\ Same(disk, BackedUp(b, n), Home(c))
         /\ c # b => Same(disk, BackedUp(b, n), Backup(c))
         /\ n = b.size => InStep(BackedUp(b, n), b)
<1>1. Same(disk, BackedUp(b, n), Home(c))
  <2> SUFFICES ASSUME NEW s \in Home(c) PROVE BackedUp(b, n)[s] = disk[s]
    BY DEF Same
  <2>1. s \in Sectors /\ s < FSSectors
    BY HomeSectors
  <2>2. s \notin Backup(b)
    BY <2>1, BackupSectors, LayoutFacts DEF Sectors
  <2> QED BY <2>1, <2>2 DEF BackedUp
<1>2. ASSUME c # b PROVE Same(disk, BackedUp(b, n), Backup(c))
  <2> SUFFICES ASSUME NEW s \in Backup(c) PROVE BackedUp(b, n)[s] = disk[s]
    BY DEF Same
  <2>1. s \in Sectors /\ s \notin Backup(b)
    BY <1>2, OneBlock, BackupSectors
  <2> QED BY <2>1 DEF BackedUp
<1>3. ASSUME n = b.size PROVE InStep(BackedUp(b, n), b)
  <2> SUFFICES ASSUME NEW s \in Home(b)
               PROVE  BackedUp(b, n)[s] = BackedUp(b, n)[Mirror(b, s)]
    BY DEF InStep
  <2>1. /\ Mirror(b, s) \in Sectors /\ Mirror(b, s) \in Backup(b)
        /\ Source(b, Mirror(b, s)) = s
    BY HomeSectors
  <2>2. Mirror(b, s) < BackupFirst(b) + n
    BY <1>3, <2>1, BlockFacts, BackupFacts DEF Backup
  <2>3. BackedUp(b, n)[Mirror(b, s)] = disk[s]
    BY <2>1, <2>2 DEF BackedUp
  <2>4. Same(disk, BackedUp(b, n), Home(b))
    <3>1. \A t \in Home(b) : t \in Sectors /\ t \notin Backup(b)
      BY HomeSectors, BackupSectors, LayoutFacts DEF Sectors
    <3> QED BY <3>1 DEF Same, BackedUp
  <2> QED BY <2>3, <2>4 DEF Same
<1> QED BY <1>1, <1>2, <1>3

-----------------------------------------------------------------------------
(* Operations are sequences of instructions that end with a commit. *)

EndsInCommit(j) ==
  j \in Seq(Instructions) /\ j # <<>> /\ j[Len(j)].op = "commit"

LEMMA Joined ==
  ASSUME NEW s \in Seq(Instructions), NEW t \in Seq(Instructions)
  PROVE  s \o t \in Seq(Instructions)
OBVIOUS

LEMMA Concatenation ==
  ASSUME NEW s \in Seq(Instructions), NEW t, EndsInCommit(t)
  PROVE  EndsInCommit(s \o t)
BY DEF EndsInCommit

LEMMA Parts ==
  /\ EndsInCommit(Commit)
  /\ Write(0, 1) \in Seq(Instructions) /\ Write(1, 1) \in Seq(Instructions)
  /\ Write(2, 3) \in Seq(Instructions) /\ Write(5, 15) \in Seq(Instructions)
  /\ \A p \in 1..Projects : /\ Write(ProjectSector(p), 1) \in Seq(Instructions)
                            /\ SongsOf(p) \in Seq(Instructions)
  /\ \A s \in 1..Songs : Write(SongSector(s), 7) \in Seq(Instructions)
<1>1. \A i \in Instructions : <<i>> \in Seq(Instructions)
  OBVIOUS
<1>2. /\ Instruction("write", 0, 1) \in Instructions
      /\ Instruction("write", 1, 1) \in Instructions
      /\ Instruction("write", 2, 3) \in Instructions
      /\ Instruction("write", 5, 15) \in Instructions
      /\ Instruction("commit", 0, 0) \in Instructions
  BY DEF Instructions
<1>3. /\ \A p \in 1..Projects : /\ Instruction("write", ProjectSector(p), 1) \in Instructions
                               /\ Instruction("songs", p, 0) \in Instructions
      /\ \A s \in 1..Songs : Instruction("write", SongSector(s), 7) \in Instructions
  BY DEF Instructions
<1>4. Commit \in Seq(Instructions) /\ Len(Commit) = 1 /\ Commit[1].op = "commit"
  <2>1. Commit = <<Instruction("commit", 0, 0)>>
    BY DEF Commit
  <2>2. Len(Commit) = 1 /\ Commit[1] = Instruction("commit", 0, 0)
    BY <2>1
  <2>3. Instruction("commit", 0, 0).op = "commit"
    BY DEF Instruction
  <2> QED BY <1>1, <1>2, <2>1, <2>2, <2>3
<1>5. EndsInCommit(Commit)
  <2>1. \A i : <<i>> # <<>>
    OBVIOUS
  <2>2. Commit # <<>>
    BY <2>1 DEF Commit
  <2>3. Commit[Len(Commit)].op = "commit"
    BY <1>4
  <2> QED BY <1>4, <2>2, <2>3 DEF EndsInCommit
<1>6. \A f, n : Write(f, n) = <<Instruction("write", f, n)>>
  BY DEF Write
<1>7. \A q : SongsOf(q) = <<Instruction("songs", q, 0)>>
  BY DEF SongsOf
<1>8. \A f, n : Instruction("write", f, n) \in Instructions
                => Write(f, n) \in Seq(Instructions)
  BY <1>1, <1>6
<1>9. \A q : Instruction("songs", q, 0) \in Instructions => SongsOf(q) \in Seq(Instructions)
  BY <1>1, <1>7
<1> QED BY <1>2, <1>3, <1>5, <1>8, <1>9

LEMMA Saves ==
  /\ EndsInCommit(SaveDriveInfo) /\ EndsInCommit(SaveDriveUsage)
  /\ RewriteSongUsage \in Seq(Instructions)
  /\ \A p \in 1..Projects : EndsInCommit(SaveProject(p))
  /\ \A s \in 1..Songs, l \in BOOLEAN : EndsInCommit(SaveSong(s, l))
<1>1. EndsInCommit(SaveDriveInfo)
  BY Parts, Concatenation DEF SaveDriveInfo
<1>2. EndsInCommit(SaveDriveUsage)
  BY Parts, Concatenation DEF SaveDriveUsage, EndsInCommit
<1>3. RewriteSongUsage \in Seq(Instructions)
  BY Parts DEF RewriteSongUsage
<1>4. ASSUME NEW p \in 1..Projects PROVE EndsInCommit(SaveProject(p))
  BY Parts, Concatenation DEF SaveProject
<1>5. ASSUME NEW s \in 1..Songs, NEW l \in BOOLEAN PROVE EndsInCommit(SaveSong(s, l))
  <2>1. (IF l THEN SaveDriveUsage ELSE <<>>) \in Seq(Instructions)
    BY <1>2 DEF EndsInCommit
  <2>2. Write(SongSector(s), 7) \o (IF l THEN SaveDriveUsage ELSE <<>>) \in Seq(Instructions)
    BY <2>1, Parts
  <2> QED BY <2>2, Parts, Concatenation DEF SaveSong
<1> QED BY <1>1, <1>2, <1>3, <1>4, <1>5

LEMMA Operations ==
  /\ \A p \in 1..Projects, s \in 1..Songs :
       /\ EndsInCommit(DeleteSong(p, s))
       /\ \A l \in BOOLEAN : EndsInCommit(CreateSong(p, s, l))
  /\ \A p \in 1..Projects : EndsInCommit(CreateProject(p)) /\ EndsInCommit(DeleteProject(p))
  /\ EndsInCommit(QuickFormat)
<1>1. ASSUME NEW p \in 1..Projects, NEW s \in 1..Songs
      PROVE  EndsInCommit(DeleteSong(p, s))
  <2>1. /\ SaveSong(s, FALSE) \in Seq(Instructions)
        /\ SaveProject(p) \in Seq(Instructions)
        /\ SaveDriveUsage \in Seq(Instructions)
    BY Saves DEF EndsInCommit
  <2>2. SaveSong(s, FALSE) \o SaveProject(p) \o RewriteSongUsage \o SaveDriveUsage
          \in Seq(Instructions)
    <3>1. SaveSong(s, FALSE) \o SaveProject(p) \in Seq(Instructions)
      BY <2>1, Joined
    <3>2. SaveSong(s, FALSE) \o SaveProject(p) \o RewriteSongUsage \in Seq(Instructions)
      BY <3>1, Saves, Joined
    <3> QED BY <2>1, <3>2, Joined
  <2> QED BY <2>2, Parts, Concatenation DEF DeleteSong
<1>2. ASSUME NEW p \in 1..Projects, NEW s \in 1..Songs, NEW l \in BOOLEAN
      PROVE  EndsInCommit(CreateSong(p, s, l))
  <2>1. (IF l THEN SaveProject(p) ELSE <<>>) \in Seq(Instructions)
    BY Saves DEF EndsInCommit
  <2>2. Write(SongSector(s), 7) \o (IF l THEN SaveProject(p) ELSE <<>>)
          \o SaveProject(p) \o RewriteSongUsage \in Seq(Instructions)
    BY <2>1, Parts, Saves DEF EndsInCommit
  <2> QED BY <2>2, Parts, Concatenation DEF CreateSong
<1>3. ASSUME NEW p \in 1..Projects
      PROVE  EndsInCommit(CreateProject(p)) /\ EndsInCommit(DeleteProject(p))
  <2>1. SaveProject(p) \in Seq(Instructions) /\ SongsOf(p) \in Seq(Instructions)
    BY Parts, Saves DEF EndsInCommit
  <2> QED BY <2>1, Saves, Concatenation DEF CreateProject, DeleteProject
<1>4. EndsInCommit(QuickFormat)
  <2>1. 1 \in 1..Projects
    BY LayoutFacts
  <2>2. Write(0, 1) \o Write(1, 1) \o CreateProject(1) \o SaveDriveInfo
          \o Write(2, 3) \o Write(5, 15) \in Seq(Instructions)
    BY <1>3, <2>1, Parts, Saves DEF EndsInCommit
  <2> QED BY <2>2, Parts, Concatenation DEF QuickFormat
<1> QED BY <1>1, <1>2, <1>3, <1>4

\* What is left of an operation after a step of it.
LEMMA Rest ==
  ASSUME EndsInCommit(job)
  PROVE  /\ Head(job) \in Instructions /\ Tail(job) \in Seq(Instructions)
         /\ Tail(job) # <<>> => EndsInCommit(Tail(job))
         /\ Head(job).op # "commit" => Tail(job) # <<>>
<1>1. Head(job) \in Instructions /\ Tail(job) \in Seq(Instructions)
  BY DEF EndsInCommit
<1>2. ASSUME Tail(job) # <<>> PROVE EndsInCommit(Tail(job))
  <2>1. Len(job) \in Nat /\ Len(Tail(job)) = Len(job) - 1 /\ Len(Tail(job)) >= 1
    BY <1>1, <1>2 DEF EndsInCommit
  <2>2. Tail(job)[Len(Tail(job))] = job[Len(job)]
    BY <2>1 DEF EndsInCommit
  <2> QED BY <1>1, <1>2, <2>2 DEF EndsInCommit
<1>3. ASSUME Tail(job) = <<>> PROVE Head(job).op = "commit"
  <2>1. Len(job) \in Nat /\ Len(job) # 0 /\ Len(Tail(job)) = Len(job) - 1
    BY DEF EndsInCommit
  <2>2. Len(job) = 1
    BY <1>3, <2>1
  <2> QED BY <2>2 DEF EndsInCommit
<1> QED BY <1>1, <1>2, <1>3

\* A commit stops at boundaries of blocks.
LEMMA Positions ==
  ASSUME NEW n, n \in {NoCommit, FSSectors} \cup {b.first : b \in Blocks}
  PROVE  n = NoCommit \/ n = FSSectors \/ n \in 0..(FSSectors - 1)
BY BlockFacts, LayoutFacts

-----------------------------------------------------------------------------
(* The invariant holds at first, and every action keeps it. *)

LEMMA InitOK ==
  ASSUME Init
  PROVE  IInv
<1>1. disk \in [Sectors -> Contents \cup {Junk}]
  BY DisksAssumption DEF Init
<1>2. TypeOK
  <2>1. highest \in 0..FSSectors
    BY LayoutFacts DEF Init
  <2>2. job \in Seq(Instructions)
    BY DEF Init
  <2>3. stale \subseteq Blocks
    BY DEF Init
  <2> QED BY <1>1, <2>1, <2>2, <2>3 DEF Init, TypeOK
<1>3. CopiesWhole
  <2> SUFFICES ASSUME NEW b \in Blocks \ stale, HasBackup(b)
               PROVE  Whole(disk, Home(b)) \/ Whole(disk, Backup(b))
    BY DEF CopiesWhole, Init
  <2> QED BY DEF Init, Sound
<1> QED BY <1>2, <1>3
        DEF IInv, Init, CommitReachesChanges, CommitProgress, CommitIsLast, NoCommit

\* Steps that change neither the drive nor what is known of it, and leave an
\* operation to do.
LEMMA QuietStep ==
  ASSUME IInv, connected, UNCHANGED <<disk, headermode, connected, stale>>,
         at = NoCommit, at' = NoCommit,
         highest' \in 0..FSSectors, writeprotected' \in BOOLEAN,
         job' \in Seq(Instructions),
         job' # <<>> => EndsInCommit(job'),
         highest' = highest \/ InStepOutside(stale),
         (job' = <<>> \/ writeprotected' \/ headermode) => InStepOutside(stale)
  PROVE  IInv'
<1>1. TypeOK'
  BY DEF IInv, TypeOK
<1>2. CommitReachesChanges'
  BY DEF IInv, CommitReachesChanges, InStepOutside, InStep, Mirror
<1>3. CopiesWhole'
  BY DEF IInv, CopiesWhole, Whole
<1>4. CommitProgress'
  BY DEF CommitProgress
<1>5. CommitIsLast'
  BY DEF CommitIsLast, InStepOutside, InStep, EndsInCommit
<1> QED BY <1>1, <1>2, <1>3, <1>4, <1>5 DEF IInv

\* While an operation runs, it ends in a commit.
LEMMA Running ==
  ASSUME IInv, job # <<>>
  PROVE  EndsInCommit(job)
BY DEF IInv, TypeOK, CommitIsLast, EndsInCommit

\* Nothing is committed while no instruction says so.
LEMMA NoCommitRuns ==
  ASSUME IInv, job = <<>> \/ Head(job).op # "commit"
  PROVE  at = NoCommit
BY DEF IInv, CommitProgress, Doing

LEMMA BeginStep ==
  ASSUME IInv, NEW j, EndsInCommit(j), Begin(j)
  PROVE  IInv'
<1>1. at = NoCommit /\ InStepOutside(stale)
  BY NoCommitRuns DEF Begin, Idle, IInv, CommitIsLast
<1> QED BY <1>1, QuietStep DEF Begin, Idle, IInv, TypeOK, EndsInCommit

LEMMA OperateStep ==
  ASSUME IInv, Operate
  PROVE  IInv'
<1>1. CASE Begin(SaveDriveInfo)
  BY <1>1, BeginStep, Saves
<1>2. ASSUME NEW p \in 1..Projects,
             Begin(SaveProject(p)) \/ Begin(CreateProject(p)) \/ Begin(DeleteProject(p))
      PROVE  IInv'
  BY <1>2, BeginStep, Saves, Operations
<1>3. ASSUME NEW s \in 1..Songs, NEW l \in BOOLEAN, Begin(SaveSong(s, l))
      PROVE  IInv'
  BY <1>3, BeginStep, Saves
<1>4. ASSUME NEW p \in 1..Projects, NEW s \in 1..Songs,
             (\E l \in BOOLEAN : Begin(CreateSong(p, s, l))) \/ Begin(DeleteSong(p, s))
      PROVE  IInv'
  BY <1>4, BeginStep, Operations
<1> QED BY <1>1, <1>2, <1>3, <1>4 DEF Operate

LEMMA FormatStep ==
  ASSUME IInv, Format
  PROVE  IInv'
<1>1. at = NoCommit /\ InStepOutside(stale)
  BY NoCommitRuns DEF Format, Idle, IInv, CommitIsLast
<1>2. job' \in Seq(Instructions) /\ (job' # <<>> => EndsInCommit(job'))
  <2>1. job' = <<>> \/ job' = QuickFormat
    BY DEF Format
  <2>2. <<>> \in Seq(Instructions)
    OBVIOUS
  <2>3. EndsInCommit(QuickFormat) /\ QuickFormat \in Seq(Instructions)
    BY Operations DEF EndsInCommit
  <2> QED BY <2>1, <2>2, <2>3
<1>3. highest' \in 0..FSSectors /\ writeprotected' \in BOOLEAN
  <2>1. 0 \in 0..FSSectors
    BY LayoutFacts
  <2> QED BY <2>1 DEF Format
<1>4. /\ connected /\ at' = NoCommit
      /\ UNCHANGED <<disk, headermode, connected, stale>>
  BY <1>1 DEF Format, Idle
<1> QED BY <1>1, <1>2, <1>3, <1>4, QuietStep

LEMMA DeleteSongOfProjectStep ==
  ASSUME IInv, DeleteSongOfProject
  PROVE  IInv'
<1>1. EndsInCommit(job) /\ at = NoCommit
  BY Running, NoCommitRuns DEF DeleteSongOfProject, Doing
<1>2. Head(job).first \in 1..Projects
  <2>1. Head(job) \in Instructions /\ Head(job).op = "songs"
    BY <1>1, Rest DEF DeleteSongOfProject, Doing
  <2> QED BY <2>1 DEF Instructions, Instruction
<1>3. PICK s \in 1..Songs :
        job' = DeleteSong(Head(job).first, s) \o SaveProject(Head(job).first) \o job
  BY DEF DeleteSongOfProject
<1>4. EndsInCommit(job')
  <2>1. DeleteSong(Head(job).first, s) \in Seq(Instructions)
    BY <1>2, Operations DEF EndsInCommit
  <2>2. SaveProject(Head(job).first) \in Seq(Instructions)
    BY <1>2, Saves DEF EndsInCommit
  <2>3. DeleteSong(Head(job).first, s) \o SaveProject(Head(job).first) \in Seq(Instructions)
    BY <2>1, <2>2, Joined
  <2> QED BY <1>1, <1>3, <2>3, Concatenation
<1>5. job # <<>> /\ job' # <<>> /\ job' \in Seq(Instructions)
  BY <1>1, <1>4 DEF EndsInCommit
<1> QED BY <1>1, <1>4, <1>5, QuietStep
        DEF DeleteSongOfProject, Doing, IInv, TypeOK, CommitIsLast

LEMMA NoSongsLeftStep ==
  ASSUME IInv, NoSongsLeft
  PROVE  IInv'
<1>1. EndsInCommit(job) /\ at = NoCommit
  BY Running, NoCommitRuns DEF NoSongsLeft, Doing
<1>2. EndsInCommit(job') /\ job' # <<>> /\ job' \in Seq(Instructions)
  BY <1>1, Rest DEF NoSongsLeft, Doing, EndsInCommit
<1> QED BY <1>1, <1>2, QuietStep
        DEF NoSongsLeft, Doing, IInv, TypeOK, CommitIsLast

\* A step that changes the drive only where it says, and keeps what is known
\* of the blocks.
LEMMA WriteSectorsStep ==
  ASSUME IInv, WriteSectors
  PROVE  IInv'
<1>1. /\ EndsInCommit(job) /\ at = NoCommit /\ at' = NoCommit
      /\ connected /\ connected' /\ headermode' = headermode
      /\ writeprotected' = writeprotected /\ stale' = stale
  BY Running, NoCommitRuns DEF WriteSectors, Doing
<1>2. EndsInCommit(job') /\ job' # <<>> /\ job' \in Seq(Instructions)
  BY <1>1, Rest DEF WriteSectors, Doing, EndsInCommit
<1>3. Head(job) \in Instructions /\ Head(job).op = "write"
  BY <1>1, Rest DEF WriteSectors, Doing
<1> DEFINE i == Head(job)
<1>4. /\ i.first \in Nat /\ i.count \in Nat /\ i.first + i.count <= FSSectors
      /\ i.count >= 1
  BY <1>3, WritesAligned, BlockMembers
<1>5. highest \in 0..FSSectors
  BY DEF IInv, TypeOK
<1>6. /\ Highest(i) \in 0..FSSectors /\ Highest(i) >= highest
      /\ Highest(i) >= i.first + i.count - 1
  BY <1>4, <1>5, LayoutFacts DEF Highest
<1>7. CASE writeprotected
  BY <1>1, <1>2, <1>7, QuietStep DEF WriteSectors, IInv, TypeOK, CommitIsLast
<1>8. CASE ~writeprotected /\ headermode
  BY <1>1, <1>2, <1>6, <1>8, QuietStep DEF WriteSectors, IInv, TypeOK, CommitIsLast
<1>9. CASE ~writeprotected /\ ~headermode
  <2>1. PICK c \in Contents :
          disk' = [s \in Sectors |-> IF s \in Written(i) THEN c ELSE disk[s]]
    BY <1>9 DEF WriteSectors
  <2>2. highest' = Highest(i)
    BY <1>9 DEF WriteSectors
  <2>3. disk' = [s \in Sectors |->
                  IF s \in Written(i) /\ s < i.first + i.count THEN c ELSE disk[s]]
    BY <2>1, <1>4 DEF Written
  <2>4. ASSUME NEW b \in Blocks
        PROVE  /\ HasBackup(b) => Same(disk, disk', Backup(b))
               /\ \/ Same(disk, disk', Home(b))
                  \/ b.first <= highest' /\ Whole(disk', Home(b))
    <3>1. i.count \in 0..i.count
      BY <1>4
    <3>2. /\ HasBackup(b) => Same(disk, disk', Backup(b))
          /\ \/ Same(disk, disk', Home(b))
             \/ b.first <= i.first + i.count - 1 /\ Whole(disk', Home(b))
      BY <1>3, <2>3, <3>1, WriteEffect
    <3> QED BY <3>2, <2>2, <1>4, <1>6, BlockFacts, LayoutFacts
  <2>5. TypeOK'
    <3>1. disk' \in [Sectors -> Contents \cup {Junk}]
      BY <2>1 DEF IInv, TypeOK
    <3> QED BY <1>1, <1>2, <1>6, <2>2, <3>1 DEF IInv, TypeOK
  <2>6. CommitReachesChanges'
    <3> SUFFICES ASSUME NEW b \in Blocks \ stale, HasBackup(b)
                 PROVE  InStep(disk', b) \/ b.first <= highest'
      BY <1>1 DEF CommitReachesChanges, HasBackup, BackupFirst, InStep, Mirror
    <3>1. InStep(disk, b) \/ b.first <= highest
      BY <1>1 DEF IInv, CommitReachesChanges
    <3>2. CASE Same(disk, disk', Home(b))
      <4>1. InStep(disk, b) => InStep(disk', b)
        BY <3>2, <2>4, FrameInStep
      <4> QED BY <3>1, <4>1, <1>6, <2>2, <1>5, BlockFacts
    <3> QED BY <3>2, <2>4
  <2>7. CopiesWhole'
    <3> SUFFICES ASSUME NEW b \in Blocks \ stale
                 PROVE  Whole(disk', Home(b)) /\ (HasBackup(b) => Whole(disk', Backup(b)))
      BY <1>1 DEF CopiesWhole, Whole, HasBackup, BackupFirst, Backup, Home
    <3>1. Whole(disk, Home(b)) /\ (HasBackup(b) => Whole(disk, Backup(b)))
      BY <1>1 DEF IInv, CopiesWhole
    <3>2. Whole(disk', Home(b))
      BY <3>1, <2>4, FrameWhole
    <3>3. HasBackup(b) => Whole(disk', Backup(b))
      BY <3>1, <2>4, FrameWhole
    <3> QED BY <3>2, <3>3
  <2>8. CommitProgress'
    BY <1>1 DEF CommitProgress
  <2>9. CommitIsLast'
    BY <1>1, <1>2, <1>9 DEF CommitIsLast, EndsInCommit
  <2> QED BY <2>5, <2>6, <2>7, <2>8, <2>9 DEF IInv
<1> QED BY <1>7, <1>8, <1>9

LEMMA BeginCommitStep ==
  ASSUME IInv, BeginCommit
  PROVE  IInv'
<1>1. EndsInCommit(job) /\ connected /\ connected' /\ job # <<>>
  BY Running DEF BeginCommit, Doing
<1>2. CASE headermode
  <2>1. Tail(job) \in Seq(Instructions) /\ (Tail(job) # <<>> => EndsInCommit(Tail(job)))
    BY <1>1, Rest
  <2> QED BY <1>1, <1>2, <2>1, QuietStep DEF BeginCommit, Doing, IInv, TypeOK, CommitIsLast
<1>3. CASE ~headermode
  <2>1. 0 \in {b.first : b \in Blocks}
    BY BlockMembers DEF Block
  <2>2. /\ job' = job /\ at' = 0
        /\ UNCHANGED <<disk, highest, writeprotected, headermode, connected, stale>>
    BY <1>3 DEF BeginCommit
  <2>3. TypeOK'
    BY <2>1, <2>2 DEF IInv, TypeOK
  <2>4. CommitReachesChanges'
    BY <2>2 DEF IInv, CommitReachesChanges, InStep, Mirror, HasBackup, BackupFirst
  <2>5. CopiesWhole'
    BY <2>2 DEF IInv, CopiesWhole, Whole
  <2>6. CommitProgress'
    <3>1. ~\E b \in Blocks : b.first < 0
      BY BlockFacts
    <3>2. Doing("commit")' /\ ~headermode'
      BY <1>1, <1>3, <2>2 DEF BeginCommit, Doing
    <3> QED BY <2>2, <3>1, <3>2 DEF CommitProgress
  <2>7. CommitIsLast'
    BY <1>1, <2>2 DEF IInv, CommitIsLast, InStepOutside, InStep, Mirror
  <2> QED BY <2>3, <2>4, <2>5, <2>6, <2>7 DEF IInv
<1> QED BY <1>2, <1>3

LEMMA CommitBlockStep ==
  ASSUME IInv, CommitBlock
  PROVE  IInv'
<1>1. at # NoCommit /\ at \in 0..(FSSectors - 1)
  BY LayoutFacts DEF CommitBlock, NoCommit
<1>2. /\ connected /\ connected' /\ job # <<>> /\ job' # <<>> /\ Doing("commit") /\ ~headermode
      /\ UNCHANGED <<highest, writeprotected, headermode, job, connected>>
  BY <1>1 DEF IInv, CommitProgress, Doing, CommitBlock
<1>3. PICK b \in Blocks :
        /\ b.first = at
        /\ disk' = IF Skipped(b) THEN disk ELSE BackedUp(b, b.size)
        /\ at' = at + b.size
        /\ stale' = IF Skipped(b) \/ ~Whole(disk, Home(b)) THEN stale ELSE stale \ {b}
  BY DEF CommitBlock
<1>4. ASSUME ~Skipped(b)
      PROVE  InStep(disk', b)
  <2>1. HasBackup(b) /\ disk' = BackedUp(b, b.size) /\ b.size \in 0..b.size
    BY <1>3, <1>4, BlockFacts DEF Skipped
  <2> QED BY <2>1, BackupEffect
<1>5. ASSUME ~Skipped(b), NEW c \in Blocks
      PROVE  Same(disk, disk', Home(c)) /\ (c # b => Same(disk, disk', Backup(c)))
  <2>1. HasBackup(b) /\ disk' = BackedUp(b, b.size) /\ b.size \in 0..b.size
    BY <1>3, <1>5, BlockFacts DEF Skipped
  <2> QED BY <2>1, BackupEffect
<1>6. ASSUME NEW c \in Blocks, Whole(disk, Home(c)) PROVE Whole(disk', Home(c))
  <2>1. CASE Skipped(b)
    BY <1>3, <1>6, <2>1
  <2>2. CASE ~Skipped(b)
    <3>1. Same(disk, disk', Home(c))
      BY <1>5, <2>2
    <3> QED BY <3>1, <1>6, FrameWhole
  <2> QED BY <2>1, <2>2
<1>7. ASSUME NEW c \in Blocks, InStep(disk, c) PROVE InStep(disk', c)
  <2>1. CASE Skipped(b)
    BY <1>3, <1>7, <2>1
  <2>2. CASE ~Skipped(b)
    <3>1. Same(disk, disk', Home(c)) /\ (c # b => Same(disk, disk', Backup(c)))
      BY <1>5, <2>2
    <3>2. CASE c = b
      BY <1>4, <2>2, <3>2
    <3>3. CASE c # b
      BY <3>1, <3>3, <1>7, FrameInStep
    <3> QED BY <3>2, <3>3
  <2> QED BY <2>1, <2>2
<1>8. ASSUME NEW c \in Blocks, c # b, Whole(disk, Backup(c)) PROVE Whole(disk', Backup(c))
  <2>1. CASE Skipped(b)
    BY <1>3, <1>8, <2>1
  <2>2. CASE ~Skipped(b)
    <3>1. Same(disk, disk', Backup(c))
      BY <1>5, <1>8, <2>2
    <3> QED BY <3>1, <1>8, FrameWhole
  <2> QED BY <2>1, <2>2
\* A block that leaves stale is whole and in step.
<1>9. ASSUME NEW c \in Blocks \ stale', c \in stale
      PROVE  c = b /\ ~Skipped(b) /\ Whole(disk', Home(c)) /\ InStep(disk', c)
  <2>1. c = b /\ ~Skipped(b) /\ Whole(disk, Home(b))
    BY <1>3, <1>9
  <2> QED BY <2>1, <1>4, <1>6
<1>10. TypeOK'
  <2>1. disk' \in [Sectors -> Contents \cup {Junk}]
    <3>1. disk \in [Sectors -> Contents \cup {Junk}]
      BY DEF IInv, TypeOK
    <3>2. \A s \in Backup(b) : Source(b, s) \in Sectors
      BY BackupSectors, HomeSectors
    <3>3. BackedUp(b, b.size) \in [Sectors -> Contents \cup {Junk}]
      BY <3>1, <3>2 DEF BackedUp
    <3> QED BY <1>3, <3>1, <3>3
  <2>2. at' \in {NoCommit, FSSectors} \cup {c.first : c \in Blocks}
    BY <1>3, NextBlock DEF Boundary
  <2>3. stale' \subseteq Blocks
    BY <1>3 DEF IInv, TypeOK
  <2> QED BY <1>2, <2>1, <2>2, <2>3 DEF IInv, TypeOK
<1>11. CommitReachesChanges'
  <2> SUFFICES ASSUME NEW c \in Blocks \ stale', HasBackup(c)
               PROVE  InStep(disk', c) \/ c.first <= highest
    BY <1>2 DEF CommitReachesChanges, HasBackup, BackupFirst, InStep, Mirror
  <2>1. c \in stale => InStep(disk', c)
    BY <1>9
  <2>2. c \notin stale => InStep(disk, c) \/ c.first <= highest
    BY <1>2 DEF IInv, CommitReachesChanges
  <2> QED BY <2>1, <2>2, <1>7
<1>12. CopiesWhole'
  <2> SUFFICES ASSUME NEW c \in Blocks \ stale'
               PROVE  Whole(disk', Home(c)) /\ (HasBackup(c) => Whole(disk', Backup(c)))
    BY <1>2 DEF CopiesWhole, Whole, HasBackup, BackupFirst, Backup, Home
  <2>1. Whole(disk', Home(c))
    <3>1. CASE c \in stale
      BY <1>9, <3>1
    <3>2. CASE c \notin stale
      <4>1. Whole(disk, Home(c))
        BY <1>2, <3>2 DEF IInv, CopiesWhole
      <4> QED BY <4>1, <1>6
    <3> QED BY <3>1, <3>2
  <2>2. ASSUME HasBackup(c) PROVE Whole(disk', Backup(c))
    <3>1. CASE c = b /\ ~Skipped(b)
      BY <1>4, <2>1, <3>1, InStepWhole
    <3>2. CASE c = b /\ Skipped(b)
      <4>1. c \notin stale /\ disk' = disk
        BY <1>3, <3>2
      <4> QED BY <1>2, <2>2, <4>1 DEF IInv, CopiesWhole
    <3>3. CASE c # b
      <4>1. c \notin stale
        BY <1>9, <3>3
      <4>2. Whole(disk, Backup(c))
        BY <1>2, <2>2, <4>1 DEF IInv, CopiesWhole
      <4> QED BY <4>2, <3>3, <1>8
    <3> QED BY <3>1, <3>2, <3>3
  <2> QED BY <2>1, <2>2
<1>13. CommitProgress'
  <2>1. Doing("commit")' /\ ~headermode'
    BY <1>2 DEF Doing
  <2> SUFFICES ASSUME NEW c \in Blocks \ stale', HasBackup(c), c.first < at'
               PROVE  InStep(disk', c)
    BY <2>1 DEF CommitProgress, HasBackup, BackupFirst, InStep, Mirror
  <2>2. CASE c \in stale
    BY <1>9, <2>2
  <2>3. CASE c \notin stale /\ c # b
    <3>1. c.first < at
      BY <1>1, <1>3, <2>3, BlocksApart, BlockFacts
    <3>2. InStep(disk, c)
      BY <1>1, <2>3, <3>1 DEF IInv, CommitProgress
    <3> QED BY <1>7, <3>2
  <2>4. CASE c \notin stale /\ c = b /\ ~Skipped(b)
    BY <1>4, <2>4
  <2>5. CASE c \notin stale /\ c = b /\ Skipped(b)
    <3>1. disk' = disk /\ (c.first > highest \/ writeprotected)
      BY <1>3, <2>5 DEF Skipped
    <3>2. CASE writeprotected
      <4>1. InStep(disk, c)
        BY <1>2, <2>5, <3>2 DEF IInv, CommitIsLast, InStepOutside
      <4> QED BY <3>1, <4>1
    <3>3. CASE c.first > highest
      <4>1. InStep(disk, c) \/ c.first <= highest
        BY <1>2, <2>5 DEF IInv, CommitReachesChanges
      <4>2. highest \in Nat /\ c.first \in Nat
        BY BlockFacts, LayoutFacts DEF IInv, TypeOK
      <4> QED BY <3>1, <3>3, <4>1, <4>2
    <3> QED BY <3>1, <3>2, <3>3
  <2> QED BY <2>2, <2>3, <2>4, <2>5
<1>14. CommitIsLast'
  <2>1. ASSUME writeprotected, NEW c \in Blocks \ stale, HasBackup(c)
        PROVE  InStep(disk', c)
    <3>1. InStep(disk, c)
      BY <1>2, <2>1 DEF IInv, CommitIsLast, InStepOutside
    <3> QED BY <1>7, <3>1
  <2>2. writeprotected => stale' = stale
    BY <1>3 DEF Skipped
  <2>3. writeprotected => InStepOutside(stale)'
    BY <2>1, <2>2 DEF InStepOutside, HasBackup, BackupFirst, InStep, Mirror
  <2> QED BY <1>2, <2>3 DEF IInv, CommitIsLast
<1> QED BY <1>10, <1>11, <1>12, <1>13, <1>14 DEF IInv

LEMMA EndCommitStep ==
  ASSUME IInv, EndCommit
  PROVE  IInv'
<1>1. at # NoCommit
  BY LayoutFacts DEF EndCommit, NoCommit
<1>2. connected /\ job # <<>> /\ ~headermode
  BY <1>1 DEF IInv, CommitProgress, Doing
<1>3. EndsInCommit(job)
  BY <1>2, Running
<1>4. Tail(job) \in Seq(Instructions) /\ (Tail(job) # <<>> => EndsInCommit(Tail(job)))
  BY <1>3, Rest
<1>5. InStepOutside(stale)
  <2> SUFFICES ASSUME NEW b \in Blocks \ stale, HasBackup(b) PROVE InStep(disk, b)
    BY DEF InStepOutside
  <2>1. b.first < at
    BY BlockFacts, LayoutFacts DEF EndCommit
  <2> QED BY <1>1, <2>1 DEF IInv, CommitProgress
<1>6. TypeOK'
  <2>1. highest' \in 0..FSSectors
    BY LayoutFacts DEF EndCommit
  <2> QED BY <1>4, <2>1 DEF EndCommit, IInv, TypeOK
<1>7. InStepOutside(stale)'
  BY <1>5 DEF EndCommit, InStepOutside, InStep, Mirror, HasBackup, BackupFirst
<1>8. CommitReachesChanges'
  BY <1>7 DEF CommitReachesChanges, InStepOutside
<1>9. CopiesWhole'
  BY DEF EndCommit, IInv, CopiesWhole, Whole
<1>10. CommitProgress'
  BY DEF EndCommit, CommitProgress
<1>11. CommitIsLast'
  BY <1>2, <1>4, <1>7 DEF EndCommit, CommitIsLast, EndsInCommit
<1> QED BY <1>6, <1>8, <1>9, <1>10, <1>11 DEF IInv

\* The program may stop as long as one copy of each block is whole.
LEMMA StopStep ==
  ASSUME IInv, Stop, disk' \in [Sectors -> Contents \cup {Junk}],
         \A b \in Blocks \ stale :
           HasBackup(b) => Whole(disk', Home(b)) \/ Whole(disk', Backup(b))
  PROVE  IInv'
<1>1. TypeOK'
  <2>1. job' \in Seq(Instructions)
    BY DEF Stop
  <2> QED BY <2>1 DEF Stop, IInv, TypeOK
<1>2. CopiesWhole'
  BY DEF Stop, CopiesWhole, Whole, HasBackup, BackupFirst, Backup, Home
<1> QED BY <1>1, <1>2
        DEF Stop, IInv, CommitReachesChanges, CommitProgress, CommitIsLast

LEMMA DisconnectStep ==
  ASSUME IInv, Disconnect
  PROVE  IInv'
<1>1. disk' = disk /\ Stop
  BY DEF Disconnect
<1> QED BY <1>1, StopStep DEF IInv, TypeOK, CopiesWhole

LEMMA CrashInWriteStep ==
  ASSUME IInv, CrashInWrite
  PROVE  IInv'
<1>1. EndsInCommit(job) /\ connected /\ Stop
  BY Running DEF CrashInWrite, Doing
<1>2. Head(job) \in Instructions /\ Head(job).op = "write"
  BY <1>1, Rest DEF CrashInWrite, Doing
<1> DEFINE i == Head(job)
<1>3. PICK n \in 1..(i.count - 1), c \in Contents :
        disk' = [s \in Sectors |->
          IF s \in Written(i) /\ s < i.first + n THEN c ELSE disk[s]]
  BY DEF CrashInWrite
<1>4. n \in 0..i.count
  BY <1>2, <1>3, WritesAligned, BlockMembers
<1>5. disk' \in [Sectors -> Contents \cup {Junk}]
  BY <1>3 DEF IInv, TypeOK
<1>6. ASSUME NEW b \in Blocks \ stale, HasBackup(b)
      PROVE  Whole(disk', Home(b)) \/ Whole(disk', Backup(b))
  <2>1. Same(disk, disk', Backup(b))
    BY <1>2, <1>3, <1>4, <1>6, WriteEffect
  <2>2. Whole(disk, Backup(b))
    BY <1>1, <1>6 DEF IInv, CopiesWhole
  <2> QED BY <2>1, <2>2, FrameWhole
<1> QED BY <1>1, <1>5, <1>6, StopStep

LEMMA CrashInCommitStep ==
  ASSUME IInv, CrashInCommit
  PROVE  IInv'
<1>1. connected /\ Stop
  BY DEF CrashInCommit
<1>2. PICK b \in Blocks :
        ~Skipped(b) /\ \E n \in 1..(b.size - 1) : disk' = BackedUp(b, n)
  BY DEF CrashInCommit
<1>3. PICK n \in 1..(b.size - 1) : disk' = BackedUp(b, n)
  BY <1>2
<1>4. HasBackup(b) /\ n \in 0..b.size
  BY <1>2, <1>3, BlockFacts DEF Skipped
<1>5. disk' \in [Sectors -> Contents \cup {Junk}]
  <2>1. disk \in [Sectors -> Contents \cup {Junk}]
    BY DEF IInv, TypeOK
  <2>2. \A s \in Backup(b) : Source(b, s) \in Sectors
    BY BackupSectors, HomeSectors
  <2> QED BY <1>3, <2>1, <2>2 DEF BackedUp
<1>6. ASSUME NEW c \in Blocks \ stale
      PROVE  Whole(disk', Home(c))
  <2>1. Same(disk, disk', Home(c))
    BY <1>4, <1>3, BackupEffect
  <2>2. Whole(disk, Home(c))
    BY <1>1 DEF IInv, CopiesWhole
  <2> QED BY <2>1, <2>2, FrameWhole
<1> QED BY <1>1, <1>5, <1>6, StopStep

\* The block and the backup a sector lies in.
LEMMA Chosen ==
  ASSUME NEW b \in Blocks
  PROVE  /\ \A s \in Home(b) : (CHOOSE c \in Blocks : s \in Home(c)) = b
         /\ HasBackup(b) => \A s \in Backup(b) :
              (CHOOSE c \in Blocks : HasBackup(c) /\ s \in Backup(c)) = b
<1>1. ASSUME NEW s \in Home(b)
      PROVE  (CHOOSE c \in Blocks : s \in Home(c)) = b
  <2>1. \A c \in Blocks : s \in Home(c) => c = b
    BY OneBlock
  <2>2. \E c \in Blocks : s \in Home(c)
    OBVIOUS
  <2> DEFINE d == CHOOSE c \in Blocks : s \in Home(c)
  <2>3. d \in Blocks /\ s \in Home(d)
    BY <2>2, Zenon
  <2> QED BY <2>1, <2>3
<1>2. ASSUME HasBackup(b), NEW s \in Backup(b)
      PROVE  (CHOOSE c \in Blocks : HasBackup(c) /\ s \in Backup(c)) = b
  <2>1. \A c \in Blocks : HasBackup(c) /\ s \in Backup(c) => c = b
    BY OneBlock
  <2>2. \E c \in Blocks : HasBackup(c) /\ s \in Backup(c)
    BY <1>2
  <2> DEFINE d == CHOOSE c \in Blocks : HasBackup(c) /\ s \in Backup(c)
  <2>3. d \in Blocks /\ HasBackup(d) /\ s \in Backup(d)
    BY <2>2, Zenon
  <2> QED BY <2>1, <2>3
<1> QED BY <1>1, <1>2

\* What the recorder makes of a block.
LEMMA RepairEffect ==
  ASSUME NEW b \in Blocks, HasBackup(b)
  PROVE  /\ HomeWins(b) => Same(disk, Repaired, Home(b))
         /\ ~HomeWins(b) => Same(disk, Repaired, Backup(b))
         /\ InStep(Repaired, b)
<1>1. ASSUME HomeWins(b) PROVE Same(disk, Repaired, Home(b))
  <2> SUFFICES ASSUME NEW s \in Home(b) PROVE Repaired[s] = disk[s]
    BY DEF Same
  <2>1. s \in Sectors /\ s < FSSectors
    BY HomeSectors
  <2>2. ~\E c \in Blocks : HasBackup(c) /\ ~HomeWins(c) /\ s \in Home(c)
    <3>1. \A c \in Blocks : s \in Home(c) => c = b
      BY OneBlock
    <3> QED BY <1>1, <3>1
  <2>3. ~\E c \in Blocks : HasBackup(c) /\ HomeWins(c) /\ s \in Backup(c)
    BY <2>1, BackupSectors, LayoutFacts DEF Sectors
  <2> QED BY <2>1, <2>2, <2>3 DEF Repaired
<1>2. ASSUME HomeWins(b), NEW s \in Home(b)
      PROVE  Repaired[Mirror(b, s)] = disk[s]
  <2> DEFINE t == Mirror(b, s)
  <2>1. t \in Sectors /\ t \in Backup(b) /\ Source(b, t) = s
    BY HomeSectors
  <2>2. t >= FSSectors
    BY <2>1, BackupSectors
  <2>3. ~\E c \in Blocks : HasBackup(c) /\ ~HomeWins(c) /\ t \in Home(c)
    BY <2>1, <2>2, HomeSectors, LayoutFacts DEF Sectors
  <2>4. \E c \in Blocks : HasBackup(c) /\ HomeWins(c) /\ t \in Backup(c)
    BY <1>2, <2>1
  <2>5. (CHOOSE c \in Blocks : HasBackup(c) /\ t \in Backup(c)) = b
    BY <2>1, Chosen
  <2> HIDE DEF t
  <2>6. Repaired[t] = disk[Source(b, t)]
    BY <2>1, <2>3, <2>4, <2>5 DEF Repaired
  <2> QED BY <2>1, <2>6 DEF t
<1>3. ASSUME ~HomeWins(b) PROVE Same(disk, Repaired, Backup(b))
  <2> SUFFICES ASSUME NEW s \in Backup(b) PROVE Repaired[s] = disk[s]
    BY DEF Same
  <2>1. s \in Sectors /\ s >= FSSectors
    BY BackupSectors
  <2>2. ~\E c \in Blocks : HasBackup(c) /\ ~HomeWins(c) /\ s \in Home(c)
    BY <2>1, HomeSectors, LayoutFacts DEF Sectors
  <2>3. ~\E c \in Blocks : HasBackup(c) /\ HomeWins(c) /\ s \in Backup(c)
    <3>1. \A c \in Blocks : s \in Backup(c) => c = b
      BY OneBlock
    <3> QED BY <1>3, <3>1
  <2> QED BY <2>1, <2>2, <2>3 DEF Repaired
<1>4. ASSUME ~HomeWins(b), NEW s \in Home(b)
      PROVE  Repaired[s] = disk[Mirror(b, s)]
  <2>1. s \in Sectors
    BY HomeSectors
  <2>2. \E c \in Blocks : HasBackup(c) /\ ~HomeWins(c) /\ s \in Home(c)
    BY <1>4
  <2>3. (CHOOSE c \in Blocks : s \in Home(c)) = b
    BY Chosen
  <2> QED BY <2>1, <2>2, <2>3 DEF Repaired
<1>5. InStep(Repaired, b)
  <2> SUFFICES ASSUME NEW s \in Home(b) PROVE Repaired[s] = Repaired[Mirror(b, s)]
    BY DEF InStep
  <2>1. CASE HomeWins(b)
    BY <1>1, <1>2, <2>1 DEF Same
  <2>2. CASE ~HomeWins(b)
    BY <1>3, <1>4, <2>2, HomeSectors DEF Same
  <2> QED BY <2>1, <2>2
<1> QED BY <1>1, <1>3, <1>5

\* The repair is one of sectors by sectors.
LEMMA RepairedType ==
  ASSUME disk \in [Sectors -> Contents \cup {Junk}]
  PROVE  Repaired \in [Sectors -> Contents \cup {Junk}]
<1> SUFFICES ASSUME NEW s \in Sectors
             PROVE  Repaired[s] \in Contents \cup {Junk}
  BY DEF Repaired
<1>1. CASE \E b \in Blocks : HasBackup(b) /\ ~HomeWins(b) /\ s \in Home(b)
  <2>1. PICK b \in Blocks : HasBackup(b) /\ ~HomeWins(b) /\ s \in Home(b)
    BY <1>1
  <2>2. (CHOOSE c \in Blocks : s \in Home(c)) = b /\ Mirror(b, s) \in Sectors
    BY <2>1, Chosen, HomeSectors
  <2>3. Repaired[s] = disk[Mirror(b, s)]
    BY <1>1, <2>2 DEF Repaired
  <2> QED BY <2>2, <2>3
<1>2. CASE /\ ~\E b \in Blocks : HasBackup(b) /\ ~HomeWins(b) /\ s \in Home(b)
           /\ \E b \in Blocks : HasBackup(b) /\ HomeWins(b) /\ s \in Backup(b)
  <2>1. PICK b \in Blocks : HasBackup(b) /\ HomeWins(b) /\ s \in Backup(b)
    BY <1>2
  <2>2. /\ (CHOOSE c \in Blocks : HasBackup(c) /\ s \in Backup(c)) = b
        /\ Source(b, s) \in Sectors
    BY <2>1, Chosen, BackupSectors, HomeSectors
  <2>3. Repaired[s] = disk[Source(b, s)]
    BY <1>2, <2>2 DEF Repaired
  <2> QED BY <2>2, <2>3
<1>3. CASE /\ ~\E b \in Blocks : HasBackup(b) /\ ~HomeWins(b) /\ s \in Home(b)
           /\ ~\E b \in Blocks : HasBackup(b) /\ HomeWins(b) /\ s \in Backup(b)
  BY <1>3 DEF Repaired
<1> QED BY <1>1, <1>2, <1>3

LEMMA RecorderStep ==
  ASSUME IInv, Recorder
  PROVE  IInv'
<1>1. ~connected /\ disk' = Repaired
      /\ UNCHANGED <<highest, writeprotected, headermode, job, at, connected, stale>>
  BY DEF Recorder
<1>2. TypeOK'
  BY <1>1, RepairedType DEF IInv, TypeOK
<1>3. ASSUME NEW b \in Blocks \ stale, HasBackup(b)
      PROVE  Whole(disk', Home(b)) \/ Whole(disk', Backup(b))
  <2>1. Whole(disk, Home(b)) \/ Whole(disk, Backup(b))
    BY <1>3 DEF IInv, CopiesWhole
  <2>2. CASE HomeWins(b)
    <3>1. Same(disk, disk', Home(b)) /\ Whole(disk, Home(b))
      BY <1>1, <1>3, <2>2, RepairEffect DEF HomeWins
    <3> QED BY <3>1, FrameWhole
  <2>3. CASE ~HomeWins(b)
    <3>1. Same(disk, disk', Backup(b)) /\ Whole(disk, Backup(b))
      BY <1>1, <1>3, <2>1, <2>3, RepairEffect DEF HomeWins
    <3> QED BY <3>1, FrameWhole
  <2> QED BY <2>2, <2>3
<1>4. CopiesWhole'
  BY <1>1, <1>3 DEF CopiesWhole, Whole, HasBackup, BackupFirst, Backup, Home
<1>5. at = NoCommit
  BY <1>1, NoCommitRuns DEF IInv, CommitIsLast
<1> QED BY <1>1, <1>2, <1>4, <1>5
        DEF IInv, CommitReachesChanges, CommitProgress, CommitIsLast

LEMMA OpenStep ==
  ASSUME IInv, Open
  PROVE  IInv'
<1>1. /\ connected' /\ disk' = disk /\ job' = <<>> /\ at' = NoCommit
      /\ stale' = {b \in Blocks : ~Sound(disk, b)}
  BY NoCommitRuns DEF Open, IInv, CommitIsLast
<1>2. TypeOK'
  <2>1. highest' \in 0..FSSectors
    BY LayoutFacts DEF Open
  <2>2. stale' \subseteq Blocks
    BY <1>1
  <2> QED BY <1>1, <2>1, <2>2 DEF Open, IInv, TypeOK
<1>3. ASSUME NEW b \in Blocks \ stale'
      PROVE  Whole(disk, Home(b)) /\ (HasBackup(b) => InStep(disk, b))
  BY <1>1, <1>3 DEF Sound
<1>4. ASSUME NEW b \in Blocks \ stale', HasBackup(b)
      PROVE  Whole(disk, Backup(b))
  BY <1>3, <1>4, InStepWhole
<1>5. CopiesWhole'
  BY <1>1, <1>3, <1>4 DEF CopiesWhole, Whole, HasBackup, BackupFirst, Backup, Home
<1>6. InStepOutside(stale)'
  BY <1>1, <1>3 DEF InStepOutside, HasBackup, BackupFirst, InStep, Mirror
<1> QED BY <1>1, <1>2, <1>5, <1>6
        DEF IInv, CommitReachesChanges, CommitProgress, CommitIsLast, InStepOutside

LEMMA NextStep ==
  ASSUME IInv, [Next]_vars
  PROVE  IInv'
<1>1. CASE UNCHANGED vars
  <2>1. UNCHANGED <<disk, highest, writeprotected, headermode, job, at, connected, stale>>
    BY <1>1 DEF vars
  <2>2. TypeOK'
    BY <2>1 DEF IInv, TypeOK
  <2>3. CommitReachesChanges'
    BY <2>1 DEF IInv, CommitReachesChanges, InStep, Mirror, HasBackup, BackupFirst
  <2>4. CopiesWhole'
    BY <2>1 DEF IInv, CopiesWhole, Whole
  <2>5. CommitProgress'
    BY <2>1 DEF IInv, CommitProgress, InStep, Doing
  <2>6. CommitIsLast'
    BY <2>1 DEF IInv, CommitIsLast, InStepOutside, InStep
  <2> QED BY <2>2, <2>3, <2>4, <2>5, <2>6 DEF IInv
<1>2. CASE Next
  BY <1>2, OperateStep, FormatStep, WriteSectorsStep, DeleteSongOfProjectStep,
     NoSongsLeftStep, BeginCommitStep, CommitBlockStep, EndCommitStep,
     DisconnectStep, CrashInWriteStep, CrashInCommitStep, RecorderStep, OpenStep
     DEF Next
<1> QED BY <1>1, <1>2

-----------------------------------------------------------------------------
(* The theorems. *)

\* The invariant that the others follow from: a commit reaches all changes,
\* the blocks it has passed are in step, and every operation ends in one.
THEOREM Consistency == Spec => []IInv
<1>1. Init => IInv
  BY InitOK
<1>2. IInv /\ [Next]_vars => IInv'
  BY NextStep
<1> QED BY <1>1, <1>2, PTL DEF Spec

\* The state of hd24fs and of the drive stays well formed.
THEOREM TypeCorrect == Spec => []TypeOK
<1>1. IInv => TypeOK
  BY DEF IInv
<1> QED BY <1>1, Consistency, PTL

\* No operation of hd24fs, hd24project or hd24song ends with a change that
\* is not in the backup.
THEOREM EveryOperationCommits == Spec => []OperationsCommit
<1>1. IInv => OperationsCommit
  BY DEF IInv, CommitIsLast, OperationsCommit, Idle
<1> QED BY <1>1, Consistency, PTL

\* A commit leaves the home copy and the audio alone on any size of drive.
THEOREM CommitIsConfined == Spec => CommitWritesOnlyBackup
<1>1. ASSUME IInv, [Next]_vars, NEW s \in Sectors,
             at # NoCommit, connected', disk'[s] # disk[s]
      PROVE  s >= DataStart /\ s > LastSector - FSSectors
  <2>1. connected /\ Doing("commit") /\ job # <<>>
    BY <1>1 DEF IInv, CommitProgress, Doing
  <2>2. CommitBlock
    <3>1. ~Operate /\ ~Format
      BY <2>1 DEF Operate, Begin, Idle, Format
    <3>2. ~WriteSectors /\ ~DeleteSongOfProject /\ ~NoSongsLeft
      BY <2>1 DEF WriteSectors, DeleteSongOfProject, NoSongsLeft, Doing
    <3>3. ~BeginCommit /\ ~EndCommit
      BY <1>1 DEF BeginCommit, EndCommit
    <3>4. ~Disconnect /\ ~CrashInWrite /\ ~CrashInCommit
      BY <1>1 DEF Disconnect, CrashInWrite, CrashInCommit, Stop
    <3>5. ~Recorder /\ ~Open
      BY <2>1 DEF Recorder, Open
    <3>6. ~UNCHANGED vars
      BY <1>1 DEF vars
    <3> QED BY <1>1, <3>1, <3>2, <3>3, <3>4, <3>5, <3>6 DEF Next
  <2>3. PICK b \in Blocks :
          disk' = IF Skipped(b) THEN disk ELSE BackedUp(b, b.size)
    BY <2>2 DEF CommitBlock
  <2>4. ~Skipped(b) /\ HasBackup(b)
    BY <1>1, <2>3 DEF Skipped
  <2>5. s \in Backup(b)
    BY <1>1, <2>3, <2>4 DEF BackedUp
  <2> QED BY <2>4, <2>5, BackupSectors
<1> DEFINE Confined ==
      \A s \in Sectors : at # NoCommit /\ connected' /\ disk'[s] # disk[s]
        => s >= DataStart /\ s > LastSector - FSSectors
<1>2. IInv /\ [Next]_vars => [Confined]_vars
  BY <1>1
<1> QED BY <1>2, Consistency, PTL DEF Spec, CommitWritesOnlyBackup

-----------------------------------------------------------------------------
(* A drive that the recorder checks before the program opens it. *)

\* Every sector of the two copies has been written as one of the file system.
Area == {s \in Sectors : \E b \in Blocks : s \in Home(b) \/ s \in Backup(b)}
Filled(d) == \A s \in Area : d[s] \in Contents

CheckedDrive ==
  /\ ~DirtyReopen
  /\ \A b \in Blocks : HasBackup(b)
  /\ \A d \in InitialDisks : Filled(d) /\ \A b \in Blocks : Sound(d, b)

NeverStale == stale = {} /\ Filled(disk)

LEMMA RepairedFilled ==
  ASSUME Filled(disk)
  PROVE  Filled(Repaired)
<1> SUFFICES ASSUME NEW s \in Area
             PROVE  Repaired[s] \in Contents
  BY DEF Filled
<1>1. s \in Sectors
  BY DEF Area
<1>2. CASE \E b \in Blocks : HasBackup(b) /\ ~HomeWins(b) /\ s \in Home(b)
  <2>1. PICK b \in Blocks : HasBackup(b) /\ ~HomeWins(b) /\ s \in Home(b)
    BY <1>2
  <2>2. (CHOOSE c \in Blocks : s \in Home(c)) = b /\ Mirror(b, s) \in Area
    BY <2>1, Chosen, HomeSectors DEF Area
  <2>3. Repaired[s] = disk[Mirror(b, s)]
    BY <1>1, <1>2, <2>2 DEF Repaired
  <2> QED BY <2>2, <2>3 DEF Filled
<1>3. CASE /\ ~\E b \in Blocks : HasBackup(b) /\ ~HomeWins(b) /\ s \in Home(b)
           /\ \E b \in Blocks : HasBackup(b) /\ HomeWins(b) /\ s \in Backup(b)
  <2>1. PICK b \in Blocks : HasBackup(b) /\ HomeWins(b) /\ s \in Backup(b)
    BY <1>3
  <2>2. /\ (CHOOSE c \in Blocks : HasBackup(c) /\ s \in Backup(c)) = b
        /\ Source(b, s) \in Area
    BY <2>1, Chosen, BackupSectors, HomeSectors DEF Area
  <2>3. Repaired[s] = disk[Source(b, s)]
    BY <1>1, <1>3, <2>2 DEF Repaired
  <2> QED BY <2>2, <2>3 DEF Filled
<1>4. CASE /\ ~\E b \in Blocks : HasBackup(b) /\ ~HomeWins(b) /\ s \in Home(b)
           /\ ~\E b \in Blocks : HasBackup(b) /\ HomeWins(b) /\ s \in Backup(b)
  BY <1>1, <1>4 DEF Repaired, Filled
<1> QED BY <1>2, <1>3, <1>4

LEMMA BackedUpFilled ==
  ASSUME Filled(disk), NEW b \in Blocks, NEW n
  PROVE  Filled(BackedUp(b, n))
<1>1. \A s \in Backup(b) : Source(b, s) \in Area
  BY BackupSectors, HomeSectors DEF Area
<1> QED BY <1>1 DEF Filled, BackedUp, Area

LEMMA NeverStaleStep ==
  ASSUME CheckedDrive, IInv, NeverStale, [Next]_vars
  PROVE  NeverStale'
<1>1. CASE Operate \/ Format \/ DeleteSongOfProject \/ NoSongsLeft \/ BeginCommit
           \/ EndCommit \/ Disconnect \/ UNCHANGED vars
  <2>1. disk' = disk /\ stale' = stale
    BY <1>1 DEF Operate, Begin, Format, DeleteSongOfProject, NoSongsLeft, BeginCommit,
                EndCommit, Disconnect, Stop, vars
  <2> QED BY <2>1 DEF NeverStale, Filled
<1>2. CASE WriteSectors
  <2>1. stale' = stale
    BY <1>2 DEF WriteSectors
  <2>2. disk' = disk \/ \E c \in Contents :
          disk' = [s \in Sectors |-> IF s \in Written(Head(job)) THEN c ELSE disk[s]]
    BY <1>2 DEF WriteSectors
  <2> QED BY <2>1, <2>2 DEF NeverStale, Filled, Area
<1>3. CASE CommitBlock
  <2>1. PICK b \in Blocks :
          /\ disk' = IF Skipped(b) THEN disk ELSE BackedUp(b, b.size)
          /\ stale' = IF Skipped(b) \/ ~Whole(disk, Home(b)) THEN stale ELSE stale \ {b}
    BY <1>3 DEF CommitBlock
  <2>2. stale' = {}
    BY <2>1 DEF NeverStale
  <2>3. Filled(disk')
    BY <2>1, BackedUpFilled DEF NeverStale
  <2> QED BY <2>2, <2>3 DEF NeverStale, Filled
<1>4. CASE CrashInWrite
  <2>1. stale' = stale
    BY <1>4 DEF CrashInWrite, Stop
  <2>2. \E n \in 1..(Head(job).count - 1), c \in Contents :
          disk' = [s \in Sectors |->
            IF s \in Written(Head(job)) /\ s < Head(job).first + n THEN c ELSE disk[s]]
    BY <1>4 DEF CrashInWrite
  <2> QED BY <2>1, <2>2 DEF NeverStale, Filled, Area
<1>5. CASE CrashInCommit
  <2>1. stale' = stale
    BY <1>5 DEF CrashInCommit, Stop
  <2>2. \E b \in Blocks : \E n \in 1..(b.size - 1) : disk' = BackedUp(b, n)
    BY <1>5 DEF CrashInCommit
  <2>3. Filled(disk')
    BY <2>2, BackedUpFilled DEF NeverStale
  <2> QED BY <2>1, <2>3 DEF NeverStale, Filled
<1>6. CASE Recorder
  <2>1. disk' = Repaired /\ stale' = stale
    BY <1>6 DEF Recorder
  <2> QED BY <2>1, RepairedFilled DEF NeverStale, Filled
<1>7. CASE Open
  <2>1. disk' = disk /\ stale' = {b \in Blocks : ~Sound(disk, b)}
    BY <1>7 DEF Open
  <2>2. Recognised
    <3>1. 0 \in Area
      BY BlockMembers, LayoutFacts DEF Area, Home, Block, Sectors
    <3>2. disk[0] \in Contents
      BY <3>1 DEF NeverStale, Filled
    <3> QED BY <3>2, DisksAssumption DEF Recognised
  <2>3. CommitOK
    BY <1>7, <2>2 DEF Open, CheckedDrive
  <2>4. ASSUME NEW b \in Blocks PROVE Sound(disk, b)
    <3>1. HasBackup(b) /\ InStep(disk, b)
      BY <2>3 DEF CheckedDrive, CommitOK
    <3>2. Whole(disk, Home(b)) \/ Whole(disk, Backup(b))
      BY <3>1 DEF IInv, CopiesWhole, NeverStale
    <3> QED BY <3>1, <3>2, InStepWhole DEF Sound
  <2>5. stale' = {}
    BY <2>1, <2>4
  <2> QED BY <2>1, <2>5 DEF NeverStale, Filled
<1> QED BY <1>1, <1>2, <1>3, <1>4, <1>5, <1>6, <1>7 DEF Next

\* When the drive visits the recorder after every stop, one copy of every
\* block is whole wherever the program stops next.
THEOREM OneCopySurvives ==
  ASSUME CheckedDrive
  PROVE  Spec => []OneCopyWhole
<1>1. Init => NeverStale
  <2> SUFFICES ASSUME Init PROVE NeverStale
    OBVIOUS
  <2>1. disk \in InitialDisks /\ stale = {b \in Blocks : ~Sound(disk, b)}
    BY DEF Init
  <2>2. Filled(disk) /\ \A b \in Blocks : Sound(disk, b)
    BY <2>1 DEF CheckedDrive
  <2> QED BY <2>1, <2>2 DEF NeverStale
<1>2. IInv /\ NeverStale /\ [Next]_vars => NeverStale'
  BY NeverStaleStep
<1>3. IInv /\ NeverStale => OneCopyWhole
  BY DEF IInv, CopiesWhole, NeverStale, OneCopyWhole
<1> QED BY <1>1, <1>2, <1>3, Consistency, PTL DEF Spec
=============================================================================
