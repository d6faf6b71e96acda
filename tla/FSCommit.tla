------------------------------ MODULE FSCommit ------------------------------
(***************************************************************************)
(* How hd24fs keeps the two copies of the file system of an HD24 drive in  *)
(* step: the home copy at the start of the drive and the backup copy at    *)
(* its end, in reverse order of blocks.  Every operation that changes the  *)
(* file system is a sequence of sector writes and commits; a commit copies *)
(* the blocks up to the highest sector written since the last one.  The    *)
(* machine may stop at any point, also half-way through a write.  The HD24 *)
(* recorder (external) then repairs the drive from the copies.             *)
(***************************************************************************)
EXTENDS Integers, Sequences, FiniteSets

CONSTANTS
  Projects,      \* projects the file system has room for (99)
  Songs,         \* songs it has room for (99 * 99)
  DataStart,     \* first sector of the audio data area (0x1397F6)
  BlockSectors,  \* sectors of an audio block (0x480)
  LastSector,    \* last sector of the drive
  Contents,      \* what a write can put in the sectors of a block
  Junk,          \* what a sector outside of the file system holds
  InitialDisks,  \* the drives that may be connected at first
  DirtyReopen    \* TRUE: the computer may reopen a drive that is out of step

VARIABLES
  disk,            \* what each sector of the drive holds
  highest,         \* highestFSsectorwritten
  writeprotected,  \* hd24fs::writeprotected
  headermode,      \* TRUE iff headersectors # 0: writes go to a header file
  job,             \* the writes and commits the current operation still does
  at,              \* the block a running commit is at, NoCommit if none runs
  connected,       \* TRUE iff the program has the drive open
  stale            \* history: blocks out of step or torn when the drive was
                   \* opened and not backed up since

vars == <<disk, highest, writeprotected, headermode, job, at, connected, stale>>

-----------------------------------------------------------------------------
(* The layout of the file system. *)

Block(first, size) == [first |-> first, size |-> size]
ProjectSector(p) == 19 + p
MutSongSector(s) == 20 + Projects + 7 * s
SongSector(s) == 20 + Projects + 7 * (s - 1)
FSSectors == 20 + Projects + 7 * Songs

Blocks ==
  {Block(0, 1), Block(1, 1), Block(2, 3), Block(5, 15)}
    \cup {Block(ProjectSector(p), 1) : p \in 1..Projects}
    \cup {Block(SongSector(s), 2) : s \in 1..Songs}
    \cup {Block(SongSector(s) + 2, 5) : s \in 1..Songs}

Sectors == 0..LastSector
NoCommit == -1

ASSUME LayoutAssumption ==
  /\ Projects \in Nat \ {0} /\ Songs \in Nat \ {0}
  /\ DataStart \in Nat /\ BlockSectors \in Nat \ {0} /\ LastSector \in Nat
  /\ FSSectors <= DataStart /\ FSSectors <= LastSector + 1
ASSUME DisksAssumption ==
  /\ Junk \notin Contents
  /\ InitialDisks \subseteq [Sectors -> Contents \cup {Junk}]
  /\ DirtyReopen \in BOOLEAN

Home(b) == b.first .. (b.first + b.size - 1)

MutBackupFirst(b) == LastSector - (b.first + b.size)
\* The first sector of the backup of a block.
BackupFirst(b) == (LastSector - (b.first + b.size)) + 1

MutHasBackup(b) == TRUE
\* The loop of writebackupblock stops at the first sector that would fall
\* before the data area; targets ascend, so that is the first one or none.
HasBackup(b) == BackupFirst(b) >= DataStart

Backup(b) == BackupFirst(b) .. (BackupFirst(b) + b.size - 1)

\* Sector s of block b in the backup, and back.
Mirror(b, s) == BackupFirst(b) + (s - b.first)
Source(b, s) == b.first + (s - BackupFirst(b))

-----------------------------------------------------------------------------
(* The state of a block's two copies.  A copy is whole when all its sectors *)
(* come from one write: that is what its checksum tells.                   *)

Whole(d, area) == \A s, t \in area : d[s] = d[t]
InStep(d, b) == \A s \in Home(b) : d[s] = d[Mirror(b, s)]

\* A block that needs no repair.
Sound(d, b) == Whole(d, Home(b)) /\ (HasBackup(b) => InStep(d, b))

\* commit_ok: every block equals its backup.
CommitOK == \A b \in Blocks : HasBackup(b) => InStep(disk, b)

-----------------------------------------------------------------------------
(* What the operations write and commit, in order. *)

Instruction(op, first, count) == [op |-> op, first |-> first, count |-> count]
Write(first, count) == <<Instruction("write", first, count)>>
Commit == <<Instruction("commit", 0, 0)>>
SongsOf(p) == <<Instruction("songs", p, 0)>>

SaveDriveInfo == Write(1, 1) \o Commit
SaveDriveUsage == Write(5, 15) \o Write(0, 1) \o Commit
RewriteSongUsage == Write(2, 3) \o Write(0, 1)
SaveProject(p) == Write(ProjectSector(p), 1) \o Commit
SaveSong(s, lengthened) ==
  Write(SongSector(s), 7)
    \o (IF lengthened THEN SaveDriveUsage ELSE <<>>) \o Commit
CreateSong(p, s, selected) ==
  Write(SongSector(s), 7)
    \o (IF selected THEN SaveProject(p) ELSE <<>>)   \* lastsongid
    \o SaveProject(p) \o RewriteSongUsage \o Commit
DeleteSong(p, s) ==
  SaveSong(s, FALSE) \o SaveProject(p) \o RewriteSongUsage
    \o SaveDriveUsage \o Commit
CreateProject(p) == SaveProject(p) \o SaveDriveInfo
DeleteProject(p) == SongsOf(p) \o SaveDriveInfo
QuickFormat ==
  Write(0, 1) \o Write(1, 1) \o CreateProject(1) \o SaveDriveInfo
    \o Write(2, 3) \o Write(5, 15) \o Commit

-----------------------------------------------------------------------------
Init ==
  /\ disk \in InitialDisks
  /\ highest = 0
  /\ writeprotected = TRUE
  /\ headermode = FALSE
  /\ job = <<>>
  /\ at = NoCommit
  /\ connected = FALSE
  /\ stale = {b \in Blocks : ~Sound(disk, b)}

Idle == connected /\ job = <<>>

\* The superblock says that this is an HD24 drive.
Recognised == disk[0] # Junk

Begin(operation) ==
  /\ Idle /\ Recognised
  /\ job' = operation
  /\ UNCHANGED <<disk, highest, writeprotected, headermode, at, connected, stale>>

Operate ==
  \/ Begin(SaveDriveInfo)
  \/ \E p \in 1..Projects :
       \/ Begin(SaveProject(p))
       \/ Begin(CreateProject(p))
       \/ Begin(DeleteProject(p))
  \/ \E s \in 1..Songs, lengthened \in BOOLEAN : Begin(SaveSong(s, lengthened))
  \/ \E p \in 1..Projects, s \in 1..Songs :
       \/ \E selected \in BOOLEAN : Begin(CreateSong(p, s, selected))
       \/ Begin(DeleteSong(p, s))

\* writesuperblock wants room for the file system, one audio block and the
\* backup.
TooSmall == LastSector < DataStart + BlockSectors + FSSectors - 1

\* Formatting works on any drive: the user interface lifts the write
\* protection first.
Format ==
  /\ Idle
  /\ job' = IF TooSmall THEN <<>> ELSE QuickFormat
  /\ highest' = 0
  /\ writeprotected' = FALSE
  /\ UNCHANGED <<disk, headermode, at, connected, stale>>

-----------------------------------------------------------------------------
Doing(op) == connected /\ job # <<>> /\ Head(job).op = op

Written(instr) == instr.first .. (instr.first + instr.count - 1)

MutHighest(instr) ==
  IF instr.first <= FSSectors /\ instr.first > highest THEN instr.first ELSE highest
\* Only sectors of songs and projects are remembered for the next commit.
Highest(instr) ==
  LET last == instr.first + instr.count - 1
  IN IF last <= FSSectors /\ last > highest THEN last ELSE highest

WriteSectors ==
  /\ Doing("write")
  /\ IF writeprotected
       THEN UNCHANGED <<disk, highest>>
       ELSE /\ highest' = Highest(Head(job))
            /\ IF headermode
                 THEN disk' = disk
                 ELSE \E c \in Contents :
                        disk' = [s \in Sectors |->
                          IF s \in Written(Head(job)) THEN c ELSE disk[s]]
  /\ job' = Tail(job)
  /\ UNCHANGED <<writeprotected, headermode, at, connected, stale>>

\* Deleting a project deletes its songs one by one.
DeleteSongOfProject ==
  /\ Doing("songs")
  /\ \E s \in 1..Songs :
       job' = DeleteSong(Head(job).first, s) \o SaveProject(Head(job).first) \o job
  /\ UNCHANGED <<disk, highest, writeprotected, headermode, at, connected, stale>>

NoSongsLeft ==
  /\ Doing("songs")
  /\ job' = Tail(job)
  /\ UNCHANGED <<disk, highest, writeprotected, headermode, at, connected, stale>>

-----------------------------------------------------------------------------
\* In header mode a commit does nothing.
BeginCommit ==
  /\ Doing("commit") /\ at = NoCommit
  /\ IF headermode
       THEN job' = Tail(job) /\ at' = NoCommit
       ELSE job' = job /\ at' = 0
  /\ UNCHANGED <<disk, highest, writeprotected, headermode, connected, stale>>

\* A quick commit leaves out the blocks that begin beyond the highest
\* sector written since the last commit.
Skipped(b) == b.first > highest \/ writeprotected \/ ~ HasBackup(b)

MutBackedUp(b, n) ==
  [s \in Sectors |->
    IF s \in Backup(b) /\ s < BackupFirst(b) + n - 1
      THEN disk[Source(b, s)] ELSE disk[s]]

\* The drive once the first n sectors of block b have been backed up.
BackedUp(b, n) ==
  [s \in Sectors |->
    IF s \in Backup(b) /\ s < BackupFirst(b) + n
      THEN disk[Source(b, s)] ELSE disk[s]]

CommitBlock ==
  /\ at \in 0..(FSSectors - 1)
  /\ \E b \in Blocks :
       /\ b.first = at
       /\ disk' = IF Skipped(b) THEN disk ELSE BackedUp(b, b.size)
       /\ at' = at + b.size
       /\ stale' = IF Skipped(b) \/ ~Whole(disk, Home(b)) THEN stale ELSE stale \ {b}
  /\ UNCHANGED <<highest, writeprotected, headermode, job, connected>>

EndCommit ==
  /\ at = FSSectors
  /\ highest' = 0
  /\ at' = NoCommit
  /\ job' = Tail(job)
  /\ UNCHANGED <<disk, writeprotected, headermode, connected, stale>>

-----------------------------------------------------------------------------
(* The program ends or the machine stops, the drive is taken to the        *)
(* recorder, and the program opens it again.                               *)

Stop ==
  /\ connected' = FALSE
  /\ job' = <<>>
  /\ at' = NoCommit
  /\ UNCHANGED <<highest, writeprotected, headermode, stale>>

\* Between two steps.
Disconnect == connected /\ Stop /\ UNCHANGED disk

\* Half-way through a write: only its first n sectors reached the drive.
CrashInWrite ==
  /\ Doing("write") /\ ~writeprotected /\ ~headermode
  /\ \E n \in 1..(Head(job).count - 1), c \in Contents :
       disk' = [s \in Sectors |->
         IF s \in Written(Head(job)) /\ s < Head(job).first + n THEN c ELSE disk[s]]
  /\ Stop

\* Half-way through backing up a block.
CrashInCommit ==
  /\ connected /\ at \in 0..(FSSectors - 1)
  /\ \E b \in Blocks :
       /\ b.first = at /\ ~Skipped(b)
       /\ \E n \in 1..(b.size - 1) : disk' = BackedUp(b, n)
  /\ Stop

\* The recorder (external): where the copies of a block differ, the backup
\* is written back, unless only the home copy is whole.
HomeWins(b) == Whole(disk, Home(b)) /\ ~Whole(disk, Backup(b))
Repaired ==
  [s \in Sectors |->
    IF \E b \in Blocks : HasBackup(b) /\ ~HomeWins(b) /\ s \in Home(b)
      THEN disk[Mirror(CHOOSE b \in Blocks : s \in Home(b), s)]
    ELSE IF \E b \in Blocks : HasBackup(b) /\ HomeWins(b) /\ s \in Backup(b)
      THEN disk[Source(CHOOSE b \in Blocks : HasBackup(b) /\ s \in Backup(b), s)]
    ELSE disk[s]]
Recorder ==
  /\ ~connected /\ Recognised
  /\ disk' = Repaired
  /\ UNCHANGED <<highest, writeprotected, headermode, job, at, connected, stale>>

\* A drive that is not recognised is opened write protected.
Open ==
  /\ ~connected
  /\ DirtyReopen \/ CommitOK \/ ~Recognised
  /\ connected' = TRUE
  /\ highest' = 0
  /\ writeprotected' \in {TRUE, ~Recognised}
  /\ headermode' \in BOOLEAN
  /\ stale' = {b \in Blocks : ~Sound(disk, b)}
  /\ UNCHANGED <<disk, job, at>>

Next ==
  \/ Operate \/ Format
  \/ WriteSectors \/ DeleteSongOfProject \/ NoSongsLeft
  \/ BeginCommit \/ CommitBlock \/ EndCommit
  \/ Disconnect \/ CrashInWrite \/ CrashInCommit
  \/ Recorder \/ Open

Spec == Init /\ [][Next]_vars

-----------------------------------------------------------------------------
Instructions ==
  {Instruction("write", 0, 1), Instruction("write", 1, 1),
   Instruction("write", 2, 3), Instruction("write", 5, 15),
   Instruction("commit", 0, 0)}
    \cup {Instruction("write", ProjectSector(p), 1) : p \in 1..Projects}
    \cup {Instruction("songs", p, 0) : p \in 1..Projects}
    \cup {Instruction("write", SongSector(s), 7) : s \in 1..Songs}

TypeOK ==
  /\ disk \in [Sectors -> Contents \cup {Junk}]
  /\ highest \in 0..FSSectors
  /\ writeprotected \in BOOLEAN
  /\ headermode \in BOOLEAN
  /\ job \in Seq(Instructions)
  /\ at \in {NoCommit, FSSectors} \cup {b.first : b \in Blocks}
  /\ connected \in BOOLEAN
  /\ stale \subseteq Blocks

\* Blocks in step with their backup.
InStepOutside(exempt) ==
  \A b \in Blocks \ exempt : HasBackup(b) => InStep(disk, b)

\* Between operations the backup equals the home copy, but for blocks that
\* were out of step when the drive was opened: no operation ends with a
\* change that commit did not back up.
OperationsCommit ==
  Idle => InStepOutside(stale)

\* Wherever the program stops, one of the two copies of each block is whole,
\* so that the recorder can repair the drive.
OneCopyWhole ==
  \A b \in Blocks : HasBackup(b) => Whole(disk, Home(b)) \/ Whole(disk, Backup(b))

\* A commit changes only sectors of the backup: never the home copy, never
\* the audio before the backup.
CommitWritesOnlyBackup ==
  [][\A s \in Sectors : at # NoCommit /\ connected' /\ disk'[s] # disk[s]
       => s >= DataStart /\ s > LastSector - FSSectors]_vars

\* Every change since the last commit is at or below the highest sector
\* written, so that the next commit backs it up.
CommitReachesChanges ==
  connected => \A b \in Blocks \ stale :
    HasBackup(b) => InStep(disk, b) \/ b.first <= highest

\* The copies are whole while the program runs, one of them when it stopped.
CopiesWhole ==
  \A b \in Blocks \ stale :
    /\ connected => Whole(disk, Home(b)) /\ (HasBackup(b) => Whole(disk, Backup(b)))
    /\ HasBackup(b) => Whole(disk, Home(b)) \/ Whole(disk, Backup(b))

\* A running commit has brought the blocks before it in step.
CommitProgress ==
  at # NoCommit =>
    /\ Doing("commit") /\ ~headermode
    /\ \A b \in Blocks \ stale : HasBackup(b) /\ b.first < at => InStep(disk, b)

\* Operations end with a commit; a drive that cannot be written stays in step.
CommitIsLast ==
  /\ ~connected => job = <<>>
  /\ job # <<>> => job[Len(job)].op = "commit"
  /\ connected /\ (job = <<>> \/ writeprotected \/ headermode) => InStepOutside(stale)

IInv ==
  TypeOK /\ CommitReachesChanges /\ CopiesWhole /\ CommitProgress /\ CommitIsLast

\* What quickformat says of its last step, "full commit": a drive that it
\* made equals its backup.
FormatCommits == Idle /\ Recognised => CommitOK
=============================================================================
