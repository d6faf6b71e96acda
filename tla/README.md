# Formal models of hd24tools

hd24tools reads and writes the hard drives of the Alesis ADAT HD24 recorder: it
formats them, lists and edits projects and songs, copies audio in both
directions, plays and records songs, and repairs drives the recorder left in a
bad state. A fault here costs somebody a recording, and most of the faults that
can do so need several steps, a failure half-way or a second thread to show.
This directory models those parts in TLA+, checks the models with TLC on small
drives, and proves the most important properties with TLAPS for drives of any
size.

Paths below are relative to the repository; `lib/` stands for `src/lib/` and
`ui` for `src/frontend/ui_hd24connect.fl`.

## The system

| Component | Code | State | Operations |
|---|---|---|---|
| File system | `lib/hd24fs.cpp` | sector caches (boot block, drive info, song usage, drive usage), `highestFSsectorwritten`, `nextfreeclusterword`, header mode, write protection, the device | open, read and write sectors, quick and full format, save of each table, commit of the backup blocks, search for free clusters and song sectors, create and delete a project, orphan search |
| Projects | `lib/hd24project.cpp` | a copy of the project sector (name, song count, list of song sectors, last song) | create, delete, sort songs; save; last song |
| Songs | `lib/hd24song.cpp` | a copy of the seven song sectors, the allocation cursor, the block cache, queue and scratch buffer, arming and monitoring state | open, set length, save, locate, read and write samples, block cache and its polling, locate points |
| Transfers | `lib/hd24transferengine.cpp` | source and target files, track actions, mix and split settings | drive to PC, PC to drive, lengthen as needed |
| Smart drive images | `lib/hd24driveimage.cpp` | the block index of the image, open files | create, reserve a block, read and write sectors |
| Drive utilities | `lib/hd24utils.cpp`, `lib/convertlib.cpp`, `lib/smpte.cpp`, `lib/hd24devicenamegenerator.cpp` | none to speak of | image and header copies, wave fix, byte order, time code, device names |
| Sound files, sound server | `lib/hd24sndfile.cpp`, `lib/sharedlibs.cpp`, `lib/nojack.cpp`, `lib/memutils.cpp` | file handles, dynamic libraries | wrappers |
| User interface | `ui`, `src/frontend/*.fl`, `src/frontend/hd24connect.cpp` | selected drive, project, song; recorder; timers | menu and button callbacks, transport, cache polling timer, sound server callback |
| Command line tools | `src/hd24*.cpp` | none kept | wave fix, hex view, to wave, drive info |

How they interact. Everything is reached through `hd24fs`: a project or song
object holds a copy of its sectors and a pointer to its parent, and writes
through `hd24fs::writesectors`, which also records how far the file system area
was written so that `commit` can copy the changed backup blocks. The drive usage
table is one shared buffer. The user interface is single-threaded except for
the sound server's callback, which reads samples from the selected song while a
timer of the user interface fills the song's block cache; but long operations
call back into the event loop (`Fl::check`), so user actions can run in the
middle of them.

What is hard, and what makes each part correct:

- **Giving clusters to songs.** Bits are set in memory, compared with a copy,
  appended to a table, and saved by somebody else later; each of these can be
  separated from the next by a failure or a user action. No cluster may end up
  in two songs, and what a song lists must be marked as used.
- **Backup blocks.** The first blocks of the drive are duplicated at its end in
  reverse order. `commit` copies only what was written since the last one. After
  a commit the two must agree, whatever was written in which order, and a crash
  in between must leave one consistent copy.
- **Projects and songs.** Creating and deleting writes several sectors in turn:
  song, project, song usage, superblock, drive usage. Ids are places in a list
  that closes up.
- **Smart images.** Blocks are appended to a file and found again through an
  index; every sector must read back as last written.
- **The block cache.** One thread requests and reads blocks, another fills them;
  there is one request slot and a few buffers.
- **Pure conversions.** Interlacing, checksums, time code.

## Modules

| Module | Models |
|---|---|
| `ClusterPool` | what the drive promises: a cluster is free, lost, or in exactly one song |
| `SongAlloc` | setting song lengths, saving and deleting songs, as in `hd24song.cpp`, `hd24project.cpp`, `hd24fs.cpp` |
| `MCSongAlloc` | the instance of SongAlloc for TLC |
| `SongAllocProofs` | the theorems about SongAlloc |
| `FSCommit` | the sector writes of every file system operation, the commit of the backup copy, format, crashes, the recorder's repair |
| `MCFSCommit` | the instance of FSCommit for TLC: the drives to start from |
| `FSCommitProofs` | the theorems about FSCommit |
| `SongBook` | what the catalog promises: every song belongs to one project or none, and changes one at a time |
| `Catalog` | what projects, song lists, usage tables and song records say after every write, commit, stop and repair |
| `MCCatalog` | the instance of Catalog for TLC |
| `CatalogProofs` | the theorems about Catalog |
| `SongCache` | playback in the sound server's thread, the polling timer that fills the block cache, transfers in between |
| `MCSongCache` | the instance of SongCache for TLC |
| `SongCacheProofs` | the theorems about SongCache |
| `DriveImage` | smart images: the index, appending blocks, split requests, failures |
| `DriveImageProofs` | the theorems about DriveImage |
| `AudioBlocks` | the layout of an audio block; reading selected tracks, writing armed ones (operators, used by the next two) |
| `Export` | songs to sound files: the block loop, groups, splitting, several songs, existing files |
| `Import` | sound files to a song: opening, lengthening, the block loop |
| `Recovery` | damaged recordings, the search for lost clusters, giving them back |
| `RecoveryProofs` | the theorems about Recovery |
| `DriveScan` | finding drives among devices that come and go |
| `DriveCopy` | drive images, empty images, header files, header mode |
| `Geometry` | dividing a drive at a format; clusters and the free count |
| `DriveProofs` | the theorems about DriveScan, DriveCopy and Geometry |
| `SoundFile` | the WAV and AIF files the program writes itself |
| `TransferProofs` | the theorems about Export, Import and SoundFile |
| `MCTools` | the instance for TLC of the eight modules from DriveImage to SoundFile that have actions |

SongAlloc, FSCommit and Catalog look at the same operations from three sides:
SongAlloc follows what is in memory, FSCommit which sectors are written and
backed up, Catalog what they say. The parts in MCTools do not run at the same
time in the program: its user interface is modal while one of them works. So
MCTools chooses one (`tool`) and explores its use.

### SongAlloc: who has which cluster

| State | In the code |
|---|---|
| `diskUsage`, `memUsage` | the usage table on the drive and in `hd24fs::sectors_driveusage`, as sets of the bits that are 1; bits beyond the last cluster are always 1 |
| `nextfreeclusterword` | the member of that name |
| `list` | the project's list of song sectors |
| `song` | the record of each song sector on the drive: length, claimed blocks, allocation table |
| `open`, `obj` | the song objects of the user interface (the selected song, the song being made) and their buffers |
| `job` | where a running `songlength_in_wamples` is: its loop, its result, its caller's save |
| `parentproject` | whether the project object that the new song's `parentproject` points to still exists |
| `strayed` | no variable of the code: a song was saved through a deleted project object |
| `stranded` | no variable of the code: the bits that were set and belong to no song, at the start or through a failed lengthening |

An allocation table is the sequence of the cluster sets that lengthenings have
appended; the entries of the code's table are the maximal runs of consecutive
clusters in them (`EntryStarts`, `EntryEnd`), which is how
`appendorphanclusters` makes them. A lengthening is several steps because its
code calls `checkfunc` between clusters, before the clusters are appended and after
that: with `Reentrant` the event loop may then choose a song, make one without
length, or delete the selected one. All of these delete the project object that
the new song points to, and `create_song` nevertheless saves the song
(`SaveThroughDeleted`): the sector is read from freed memory and may be another
song's, the superblock or any other (`Elsewhere`), if the program survives it
(`CrashInSave`). What holds with callbacks is therefore stated up to that save
(`strayed`). Not modelled in such a callback: a second lengthening, and the choice
of another drive.

### FSCommit: the two copies of the file system

The drive is an array of sectors. A block of the file system (superblock, drive
info, song usage, drive usage, each project, each song's record and its
allocation table) has a home place and a backup place; its content is one of a
few values, and a copy is whole when all of its sectors come from one write,
which is what the checksum over the block tells. `job` holds the sector writes
and commits an operation has still to do, in the order of the code: `SaveSong`,
`CreateSong`, `DeleteSong` and so on are these sequences. A commit is one step
for every block. `stale` is a history variable: the blocks that were out of step
or torn when the drive was opened and have not been backed up since; what they
hold is not this run's doing.

The machine stops between steps (`Disconnect`), half-way through a write
(`CrashInWrite`) or half-way through a block's backup (`CrashInCommit`). The
recorder then restores the drive (`Recorder`, external, from `doc/ADATFS.txt`);
only then, or with `DirtyReopen` at once, is the drive opened again.

### Catalog: what the file system says

| State | In the code |
|---|---|
| `home`, `backup` | the blocks of the file system and their backup copies, numbered in the order of their sectors: number of songs (superblock), project list (drive info), song usage, drive usage, projects, allocation tables of songs |
| `todo`, `arg` | the writes and commits the running operation still has to make, by name, and what it is about; each name is an action that writes one block |
| `running`, `disturbed` | not the code's: whether the program runs, and whether it was stopped since it last rewrote the song usage |

An operation begins in `Operate`, which picks its steps; a commit copies one
block per step, lowest sector first. `Stop` drops the operation at any point;
`Repair` is the recorder's.

`SongBook` is implemented by the backup: the project of a song is the one that
lists it there, so a stop can only leave an operation done or not done.

### SongCache: two threads and a cache

| State | In the code |
|---|---|
| `cachebuf_blocknum`, `cachebuf`, `currcachebufnum` | the labels of the cache buffers, what is in them, the next one to fill |
| `blocktoqueue` | the one-slot request queue |
| `currentreadmode`, `lastreadblock`, `mustreadblock`, `audiobuffer` | the members of those names; `audiobuffer` is the buffer of reads that bypass the cache |
| `songcursor`, `allocentrynum` | the position and the cursor over the allocation table |
| `audio`, `poll` | where the sound server's callback and the poll are, with what they have read and not yet used |
| `heard`, `stale` | not the code's: the sample just played and whether its buffer was being loaded; blocks written while cached |

Nothing in the code is locked, so a step of one thread is one access to what
they share: the callback finds a buffer (`FindCached`) and reads from it
(`TakeSample`), the poll takes a request, announces the block (`PollRequest`),
reads it (`LoadBlock`) and clears the slot (`ClearRequest`). That the sector read
overlaps with the callback is the exception `PlaysTheSong` names (`shared`).

### The tools

**DriveImage.** `imgIndex` and `imgData` are the file, `imgSize` its size; a
write is a step per piece and in it one for the append, the index entry and the
sectors; `AbandonRequest` is a stop or an exception between any two of them.
`imgHeld` is a history variable: what callers wrote to each sector.

**Export, Import.** A job is chosen (`PrepareJob`, `PrepareImport`), then the
loops of `transfer_to_pc`, the caller's loop over the songs and
`transfer_to_drive` run block by block, with the cancel flag read where the code
reads it. Every sample has a name of its own (song, track, place), so a sample
in the wrong place, file or order shows. The operators of AudioBlocks compute
what one block transfer puts where.

**Recovery.** `recDisk` and `recUsage` are the songs and the usage table on the
drive, `recMem` is the selected song's table in memory, `recAsking` a question to
the user that is open. A saved song is written with what `findorphanclusters`
and `appendorphanclusters` made of it.

**DriveScan.** The scan is an operator over the devices (`Probes`), as the code
runs through it in one go; devices are replaced between scans (`Replug`). What
an `hd24fs` object remembers of a smart image it has closed is part of its state.

**DriveCopy.** One action per turn of `savedrivesectors`; the event loop runs
between the turns, so the program may write to the drive (while an image is
saved). `cpHeader` and `cpFile["used"]` are header mode. `cpHeld` is a history
variable: what a caller may expect of each sector.

**Geometry.** `geoBoot` is the superblock that `useinternalboot` computes, `geoUsed`
the usage table; the operators are `clustercount`, `cluster2sector`,
`sector2cluster` and `freeclustercount`.

**SoundFile.** The stream's error state (`sfGood`) is set by a failed open or write
and looked at by nobody; `CloseFile` fills in the header.

## Runs

| Run | Question | Answer |
|---|---|---|
| `alloc` | does any order of making, selecting, lengthening, recovering, deleting songs, failing and restarting give a cluster to two songs, free a song's cluster, save a length without audio, or lose space other than through a failed lengthening? does every lengthening end? does the drive keep the promises of `ClusterPool`? | no, yes, yes |
| `alloc_callback` | do songs, usage tables and the selected song also agree when user actions run inside a lengthening? | yes, up to the save of the new song through a project object that such an action deleted; after it nothing is promised |
| `alloc_refused` | is a refused length always a request to shrink, as the comment in `setallocinfo` says? | no: a longer length within the last cluster is refused too |
| `alloc_leak` | is every cluster marked as used in use by a song, or already lost? | no: a failed lengthening followed by a delete writes the bits that were set in vain |
| `alloc_reentrant` | are the clusters appended to a song those the lengthening has set? | no: a delete inside the lengthening clears bits, and the exclusive or appends those |
| `commit` | does every operation end with its changes backed up, does a commit write to the backup only, and is one copy of each block whole wherever the program stops? | yes |
| `commit_short` | does a commit on a file that has no room for a backup (a header file) leave the file system alone? | yes |
| `commit_format` | is a drive fresh from `quickformat` backed up, as its comment "full commit" says? | no: its last commit is a quick one and leaves out the songs |
| `catalog` | with a stop between any two writes, do two songs get one record or share clusters, do listed songs lose theirs, do the usage tables disagree with the lists, does the catalog ever change by more than one song? | no |
| `catalog_stop` | is the record that `createsong` takes free, as its comment says, if it was stopped before? | no: a song listed and not counted keeps its place, and its record is given out again |
| `playback` | with every interleaving of callback, poll and transfers, is a block cached twice, is anything but the song or silence heard, does the cursor leave the table, is maintenance mode exact, is a position that is held heard in the end? | no; nothing else; only at the exact end of a song; yes; yes |
| `tools` | do blocks of a smart image overlap or read back wrongly; do exports, imports, recovered songs, drive copies, header mode, formatted drives, sound files and drive lists hold what they should, wherever they fail or are stopped? | they hold, but for the exceptions the properties name |

Bounds. SongAlloc: words of 2 clusters, 4 words, 7 clusters with the 8th bit
beyond the end, clusters of 3 one-sample blocks, 2 song sectors in a list of 2;
lengths 0, 2, 3, 7 need no, a part of one, all of one, and three clusters. This
is the smallest drive with a word part used, a word that is never empty, lengths
inside and across clusters, and room for two fragmented songs but not for every
pair of lengths. Songs are shared out over two places since a third shows no
new pair; the proofs cover any number. FSCommit: one project, one song, two
contents; the blocks keep their real sizes (1, 1, 3, 15, 1, 2, 5 sectors). The
drive of `commit` has 57 sectors, the smallest with a data area that leaves the
backup just enough room; that of `commit_short` ends inside the backup. The
proofs cover all sizes. Catalog: two projects with two places each, two records
and two clusters: enough to delete a project before another, to fill a project,
to run out of records, and for two songs to be given the same record or cluster;
any number of operations and stops. In `catalog` the program does not stop
between the two saves of `createsong` (`StopInCreate`), which `catalog_stop` shows
to break it.

SongCache: two extents, of one and two blocks, in a table of three entries, two
samples a block, songs of 1 and 6 samples (inside the first block, and to the
exact end of the last), three buffers for three blocks and the one behind them,
two samples a callback, one transfer: a buffer is used again while it is played,
a callback crosses a block and an extent, a request is overwritten, the walk
over the table comes to its end. At each position playback asks for a block and
its neighbours, so three buffers are the fewest that hold what one position asks
for; more only delay the reuse.

Tools. DriveImage: blocks of three sectors, a content of three blocks, requests
of up to five sectors (over three blocks), two writes, one failed append.
Export: blocks of four samples and three tracks; ranges that begin and end
inside a block, on its border and one sample before it; limits inside a block
and on a border; both sample rates; one, two and all tracks; two songs of
different lengths, one of them empty; old files of part 0, 1 and 2. Import:
files and songs that end inside a block, on its border and behind each other,
mono and stereo files, a file that does not open, a bad block, no space.
Recovery: three songs, nine clusters of two blocks, tables of two entries, at
most seven blocks to a song, so that the clamp cuts.
DriveScan: three names, three replacements. DriveCopy: four sectors, a header of
two, one write, one error. Geometry: tables of four bits and all sizes of drive
around one block, one bit per block, and twice that. SoundFile: sizes modulo 62,
so that they wrap within six samples, writes of one to three samples. Each tool
is explored to the end of all its jobs.

Fairness. `LengtheningEnds` needs that a lengthening goes on: it is straight-line
code of one thread, and the callback it makes returns, so `JobStep` is weakly
fair. `BlockIsHeard` needs that the poll goes on: it is a repeated timeout of the
user interface, which may be late but not stay away while the program runs, so a
request that stays in the slot is found and a poll that has begun ends
(`CacheFairness`). That the sound server calls back is not assumed: the property
speaks of the samples it asks for. Nothing is assumed of the user or of the
recorder.

`CHECK_DEADLOCK FALSE` is set in `tools`, where a tool is done when its job is, or
has ended with the program. All other runs check for deadlock.

## Proofs

`SongAllocProofs` proves, for every drive geometry and number of songs, the type
invariant, `NoCrossLink` and `ListedAreUsed`, from `SizeAssumption` and
`SectorAssumption`: always when no callback runs user actions, and with
callbacks until a song is saved through a deleted project object
(`Consistency`). After such a save they are false in the code. `NoCrossLink` is not inductive: that an
appended cluster is in no other song follows from its having been free *on the
drive* when the table was copied, so `IInv` adds that the table in memory is never
behind the one on the drive (`MemoryAhead`), that the copy equals the drive's
table as long as no user action has come into the lengthening, that the batch to
append is what memory has beyond the drive then (`JobFits`), that objects are as saved
(`SelectedIsSaved`) and that the list has no sector twice (`ListDistinct`).

On top of it, SongAlloc without callbacks implements `ClusterPool`
(`PoolImplemented`). The pool's
owner of a cluster is a choice among the songs that list it; with `NoCrossLink`
there is only one to choose, so `OwnerRight` says whose each cluster is without
the choice, and each action becomes a step of the pool or none: what a saved
lengthening appends was free on the drive, what a deletion unmarks was the
song's. A listed song has on the drive what its length needs (`SongsBacked`, with
callbacks up to the same save):
`BackInv` says it of every object in use, and of a lengthening that the blocks in
the table, those of the clusters gained and those still to be allocated are
enough (`JobBacked`). Without callbacks, space is lost only by failed
lengthenings (`LossExplained`: between operations, what memory has beyond the
drive is stranded, `MemoryAccounted`) and what is appended is still allocated
(`AppendedStayAllocated`). TLC finds both formulas violated when callbacks run
inside a lengthening, the second in `alloc_reentrant`.

`FSCommitProofs` proves, for every layout that meets `LayoutAssumption`, every
number of projects and songs and every starting drive, that operations commit,
that commits are confined to the backup and, if the recorder repairs the drive
after every stop (`CheckedDrive`), that one copy is always whole. The invariant
`IInv` says that changes since the last commit lie at or below
`highestFSsectorwritten` (`CommitReachesChanges`), that a commit has brought the
blocks behind it in step (`CommitProgress`), that at most one copy of a block is
torn (`CopiesWhole`), and that operations end with a commit (`CommitIsLast`).

`CatalogProofs` proves, for any number of projects, songs, records and clusters,
that no song is listed twice (`NoSongShared`), assuming that the recorder
restores the drive after each stop (`~DirtyReopen`) and that no stop comes
between the two saves of `createsong` (`~StopInCreate`), which is exactly what the
runs `catalog` and `catalog_stop` tell apart. `NoSharedSong` alone is not
inductive: `createsong` takes a record for free that no project *counts*, so the
invariant `CatInv` says that lists have no gaps, that only the song being made may
be listed and not counted, and that it is still to be counted
(`UncountedIsNew`). A stop brings back the backup, so the same holds of it
(`ListsOK(backup)`); since at most one list differs between the copies and a
commit comes before the next one is written (`CopiesAgree`), a commit of one
block always ends in lists that were in order. What may still be to be done at
any point is `StepsFit`, proved of every sequence of steps an operation begins
with, and kept by doing the first of them.

Under the same assumptions it proves that listed songs keep their clusters
(`SpaceStaysSafe`). What counts is what a stop would leave if the commit had come
to block k (`Mix(k)`: blocks below k from the drive, the others from the backup),
for every k and at every point between two writes: `SpaceInv` says that there the
listed songs own their clusters, except while `save` has written a song and not
yet the usage table. That holds because every change of a list is committed
before the clusters are given away or counted (`Paired`, `Settles`), because the
song being lengthened and the table are the only blocks to differ then and the
table comes first in a commit (`SongFits`), and because the song last used is always
one of the project's list (`LastListed`): otherwise `createsong` would take the new
song for selected and would not commit it before counting it.

And it proves that the song usage table and the number of songs are right whenever
an operation begins (`UsageStaysRight`), unless a stop has come since they were
last rewritten. They are wrong within every operation that makes or deletes a
song, so `UsageInv` says what is still to be done: after each change of what is
counted the table is to be rewritten, and after the table the number
(`Rewritten`), while all other steps leave the listed songs what they are - also
the removal of a project, which comes when `deleteproject` has deleted the last of
its songs. With `TypeInv`, which adds what the other blocks hold, follows the type
invariant (`TypesStayRight`).

With all of these, Catalog implements `SongBook` (`BookImplemented`). The book is
read from the backup, which is what survives a stop and which only a commit
changes, one block at a time. So `BookInv` says by what the drive may be ahead of
it: the lists by nothing, one song more or one song less (`ListsMove`), the songs
by one that is cleared while no project has it, or that has more clusters which
no listed song has (`SongsMove`). A commit that copies a list is then the book's
adding or removing of a song, one that copies a song its clearing or growing,
and all other commits change nothing of it.

`SongCacheProofs`: no block is cached twice (`NeverCachedTwice`), for any song,
any number of buffers and every interleaving, because only the poll writes the
labels and looks at all of them first. And what is played is the song
(`SamplesAreOfTheSong`, `MaintenanceNeverSilent`, `LocatesTheEntry`,
`PlaybackTypeCorrect`): `PlayIInv` says that a buffer holds the block it is
announced to hold, except the one being filled (`BuffersHold`, `PollAnnounced`),
and follows a callback from the search for the entry of its block (`EntryFound`) to
the buffer its samples are taken from (`BufferFound`). The starts of the table's
entries are sums (`StartOf`): facts about all of them are proved by going to the
least entry for which they would fail. `LengthAssumption` - a song is not longer
than the blocks it has - is what `SongsBacked` proves of SongAlloc.

`DriveImageProofs`: blocks of a smart image stay apart (`ImageBlocksStayApart`), for
images of any size, any requests, failed appends and stops. The invariant
`ImageInv` orders the blocks: each is entered where the file ended before it
(one sector too low, see below), a block being appended lies behind all that are
entered, and the file has grown by whole blocks. What is written is read back
(`ImageKeepsItsContent`): `ReadInv` adds that each piece of a request lies in one
block, which is there when its sectors are put and not when its entry is written
(`RequestOK`, whence `ImageStaysWellFormed`), and that what no block has in the
file is empty (`FileOK`), which is what a block reads as when it appears. The
theorem has the exceptions of the property: the shared sector, and what a request
over several blocks takes from the wrong place.

`DriveProofs`, Geometry: the clusters that a format makes and the usage table
offers lie in the audio area and each of their sectors is found to be theirs
(`ClustersAlwaysFit`), for every size of drive, block and table; the lemmas are
about quotients.

`DriveProofs`, DriveCopy: header mode never touches the drive and reads what was last
written (`HeaderModeStaysSafe`), for drives and headers of any size, any number of
copies, writes and errors, as long as no copy is saved on top of the header file
in use. The invariant (`HeaderInv`) says of every sector where
the program finds what it may expect of it, in front of the end of the header and
behind it (`HeldIsRead`), and of a header file that it has sectors of the drive
only, which makes its size a number. A sector of a copy is the drive's, of a time
since the copy began (`CopiesAreExact`): `CopyInv` numbers the writes to the drive
and says how far the file has grown.

`DriveProofs`, DriveScan: the drive list has each drive once, in order and
opened for what it is (`DriveListIsRight`), for any devices that come and go. The
scan is a recursive function of the number of probes, so what it has found so
far is said of each number of probes (`FirstFound` of the first pass, `SecondFound`
of the one for damaged drives), and a least number for which it would be false
(`LeastNumber`) leads to the step that keeps it. From one action to the next nothing
is needed but that devices are devices (`ScanInv`) and that the default object is
one (`DefaultIsDrive`).

`TransferProofs`, Export: the files hold each sample asked for once and in its place
(`FilesHoldTheSong`), for any songs, tracks, ranges, groups and limits among the
jobs that `Regular` and `WholeLength` admit; none of them reads beyond the
one-block buffer, which the proof of a turn of the loop uses. `ExactInv` says that joined over all
parts the files hold the samples up to where the block loop is, and `SongsToCome`
that nothing is written yet of the songs to come. Parts stay below the limit unless
they are no more than a block (`PartsStaySmall`), and no file is replaced without
the user's agreement, second and later parts excepted (`NothingReplacedSilently`,
with `NoneInTheWay`).

`TransferProofs`, Import: the song has the samples the job asks for and all others as
they were (`TracksHoldTheFiles`) and, from the first bad block on, is as it was
(`DamagedSongStays`): `ImportInv` says of each turn of the block loop how far the
files are read (`FilesRead`), that the song has room for all of them (`RoomForFiles`),
that a bad block turned on rehearse mode (`RehearsesBehindBad`), and what every
sample of the song is (`SongIs`).

`TransferProofs`, SoundFile: a sound file never says that it has samples it does not
have (`HeaderStaysHonest`), for files of any length, writes of any size, any width
of the sizes, and wherever the disk fills up or the program stops. The invariant
(`SndInv`) adds that while the file is open its bytes are those of the samples
given so far, in the format's order, and all of them unless the stream is bad.

`RecoveryProofs`: no cluster comes to belong to two songs (`LostClustersGoToOne`),
however many songs are damaged, recovered, saved and deleted; and when one song
is the only reason for lost clusters, it gets back what it lost and nothing else
(`DamagedSongIsRestored`). `RecInv` adds that the song the user is asked about has
its own clusters and lost ones only (`AskedFits`), and that a song that claims
more blocks than its table has was cut by the damage (`DamageIsCut`). The lemmas
are about tables: the clusters that entries cover, in which order, and that the
runs into which `appendorphanclusters` divides a set of clusters cover just that
set. `RecordingAssumption` is about the recorder: it gives a recording no cluster
twice.

Only model-checked: liveness (`LengtheningEnds`, `BlockIsHeard`), for which TLAPS has
no rules. All other properties of the passing runs are theorems, with the
assumptions named above.

## What the models showed

- A song cannot be lengthened within its last cluster (`alloc_refused`).
- A failed lengthening loses space for good once another song is deleted
  (`alloc_leak`).
- Deleting the selected song while a new one is being made gives the new one the
  freed clusters, which the drive then marks as free (`alloc_reentrant`).
- Deleting or choosing a song, or making one, in a callback of `create_song`
  deletes the project object that the new song points to (`songname_callback`,
  ui 844-852, and the refresh after the others). `create_song` still calls
  `newsong->save()` (ui 2982), which writes seven sectors to whatever
  `getsongsectornum` reads from the freed object (`hd24song.cpp:2291`,
  `hd24project.cpp:132`, which checks nothing): another song's record, or sector 0
  - the superblock - when the id is behind the end of the list. No comment or
  document speaks of it, so it is no finding of a run; `SoundUntilStrayed` says
  that this save is where the harm is done.
- `quickformat` leaves the backup of the songs as it was (`commit_format`).
- With `DirtyReopen`, `OneCopyWhole` fails: after a crash within a write, the
  program itself (rather than the recorder) may reopen the drive, and its next
  commit copies the torn block over the only whole copy, as `writebackupblock`
  does not look at checksums. `doc/ADATFS.txt` speaks of the recorder only, so
  this is not listed as a finding.
- A stop within `createsong` can make the next song share a record with one that
  the project already lists (`catalog_stop`).
- `SpaceIsSafe` and `NoSharedSong` rest on the recorder restoring the drive after
  a stop. With `DirtyReopen` in Catalog both fail: `hd24song::save` writes a song
  before the usage table that marks its new clusters, and what a stopped program
  has written is read by the next one though it never was committed.
- Playback: a block loaded for one position is not what is played at another,
  but a buffer may be read while it is being loaded, and a block written by a
  transfer stays cached as it was (`stale`). Locating to the exact end of a song
  that fills its last block walks off the allocation table.
- Smart images: the index entry of every block but number 0 is one sector too
  low (`EntryFor`), so the first sector of the block appended first is the last
  one of block 0. `doc/smart_drive_images.txt` describes an index without
  overlap; the blocks behind keep the same distance, so only this sector is
  shared. A write over several blocks takes the later pieces from the wrong
  place of the buffer: it advances by 4096 bytes per block, not sectors.
- Export: `getmtrackaudiodata` reads `chanmult*(last-first)+1` tracks to the place of
  the first in a buffer of one block (`hd24song.cpp:1889-1909`,
  `hd24transferengine.cpp:1212`). At a high sample rate with enabled tracks far
  apart - on a drive of 12 tracks, a track beyond the sixth - it writes behind the
  buffer, and also without an enabled track on a drive of fewer than 24. What
  becomes of that is left open in Export: nothing (`CopyBlock`), wrong samples
  (`CopyDamaged`) or the end of the program (`ReadCrashes`). `ExportIsExact` is
  about the other jobs (`~Overruns` in `Regular`); without that condition TLC
  finds it violated.
- Export: songs of a multiple export are all copied in the length of the last
  one; a song of no length ends the whole export; the tracks are those of an
  earlier single export; a last block that is full is lost; a transfer shorter
  than a block, or as long as its first one, writes a full block; at a high
  sample rate a start inside a song is not doubled while the skip into the block
  is; without a selected track all are read; the parts of a split file from the
  third on replace existing files without a question; with a mixdown, parts open
  (and so empty) the files of the tracks. `ExportIsExact` is stated for jobs
  outside these (`Regular`, `WholeLength`).
- Import: a file that does not open leaves the others open; the files to close
  are looked up in the other direction's selection; a block outside the audio
  area turns on rehearse mode, which stays on, and success is reported; striping
  time code writes silence.
- Recovery: with two damaged songs, the first to be saved gets all lost clusters
  and the second is told that the rest was found, and shortened. Lost clusters
  come back in ascending order, whatever order they were recorded in. Deleting
  a damaged song leaves its lost clusters marked as used.
- Scans: an object that met a smart image keeps reading through it after it
  closed the device, so that a drive right behind it is missed; the n-th drive is
  looked up again when it is chosen, when the n-th may be another one.
- Copies: nothing keeps the user from saving a header on top of the header file in
  use (ui 1891-1928), which replaces what was written to it; `HeaderModeIsSafe`
  assumes that it is another file. The cancel button does not stop `savedrivesectors`; a sector that cannot
  be read is a copy of the one before it; saving a header in header mode saves the
  drive's catalog, not the header in use.
- Format: `quickformat` returns early, on a drive that is too small, with the
  program still `formatting`; `resetdriveusage` is right only directly after a new
  superblock, since `savedriveusage` changes the number it uses.
- Sound files: a file that could not be opened, and a disk that is full, are
  never noticed; such a file's header says it has no samples. Sizes wrap at
  32 bits, and the byte that aligns a WAV file is not counted in its header.

## Not modelled, and why

- The 319-entry bound of an allocation table, over which `appendorphanclusters`
  and `setallocinfo` would write: past the end of the sector buffer anything can
  follow, which is no longer the program's state.
- The words behind the usage table that `getnextfreeclusterword` also looks at,
  and the bit after it that the search for a following cluster reads.
- Drives shorter than the file system, where the target sector of a backup
  wraps around.
- Exports: failures to open the files of a second or later part, whose result
  `transfer_to_pc` ignores, and to write to them; SoundFile has failing writes.
- Recording: no caller fills the write queue of the block cache. Arming in groups
  and monitoring have no state the properties speak of.
- "All songs" deletes the song object while the sound server's thread may be
  reading samples from it: a freed object has no behaviour to model.
- The wave file repair (a heuristic on floating point weights), the mixer and the
  mix of all tracks (arithmetic), the hex view and the other command line tools
  (sequential readers), names, dialogs, dynamic libraries, the self test, the
  installer and third-party code. PROJECT.json lists every component with its
  reason.

## Plan

Done, in this order: SongAlloc with its proofs, FSCommit with its proofs,
Catalog, SongCache, DriveImage, AudioBlocks with Export and Import, Recovery,
DriveScan, DriveCopy, Geometry, SoundFile; the proofs of the safety properties of
all of them; and the proofs that SongAlloc implements ClusterPool and Catalog
implements SongBook.

Left:

1. Playback while a header file or a smart image is in use: composing SongCache
   with DriveCopy or DriveImage.
