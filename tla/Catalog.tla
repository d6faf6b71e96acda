------------------------------- MODULE Catalog -------------------------------
(***************************************************************************)
(* What the sectors of the file system say, and what a stop of the program *)
(* leaves of it: the list of projects, the song list of each project, the  *)
(* song records, the tables of used song places and clusters.  Every       *)
(* operation writes several of these blocks one after the other, with      *)
(* commits to the backup copy in between (module FSCommit shows that a     *)
(* commit reaches all that was written).  After a stop the recorder        *)
(* (external) restores the drive from the backup.                          *)
(*                                                                         *)
(* Left out: names and other data no property speaks of, lengths of songs  *)
(* (deletesong also saves the song with length 0), the count of free       *)
(* clusters in the superblock, failed lengthenings (module SongAlloc).     *)
(***************************************************************************)
EXTENDS Integers, FiniteSets, Sequences

CONSTANTS
  MaxProjects,  \* projects the drive has room for (99)
  MaxSongs,     \* songs a project has room for (99)
  MaxEntries,   \* places for song records (99 * 99)
  Clusters,     \* the clusters of the drive
  StopInCreate, \* bound: may the program stop while createsong has listed
                \* a song and not counted it?
  DirtyReopen   \* may the program open a stopped drive before the recorder?

ASSUME CatalogAssumption ==
  /\ MaxProjects \in Nat \ {0} /\ MaxSongs \in Nat \ {0}
  /\ MaxEntries \in 1 .. MaxProjects * MaxSongs
  /\ IsFiniteSet(Clusters) /\ {StopInCreate, DirtyReopen} \subseteq BOOLEAN

VARIABLES
  home,      \* the blocks of the file system
  backup,    \* their backup copies
  todo,      \* the writes and commits of the current operation
  arg,       \* what the operation is about
  running,   \* FALSE from a stop until the drive is opened again
  disturbed  \* history: stopped since the song usage was last rewritten

vars == <<home, backup, todo, arg, running, disturbed>>

-----------------------------------------------------------------------------
(* Blocks, in the order of their sectors. *)

Superblock == 0   \* the number of songs on the drive
DriveInfo == 1    \* the list of projects
SongUsage == 2    \* the song places in use
DriveUsage == 3   \* the clusters in use
FirstProject == 4
ProjectBlocks == FirstProject .. FirstProject + MaxProjects - 1
FirstSong == FirstProject + MaxProjects
Songs == FirstSong .. FirstSong + MaxEntries - 1
Blocks == 0 .. FirstSong + MaxEntries - 1

None == 0         \* an entry of a list that is not in use

EmptyList(n) == [i \in 1 .. n |-> None]
Least(S) == CHOOSE x \in S : \A y \in S : x <= y
Values(list) == {list[i] : i \in DOMAIN list} \ {None}
Unused(list) == {i \in DOMAIN list : list[i] = None}

MutWithout(list, id) == [list EXCEPT ![id] = None]
\* A list without its entry id: those behind it move up.
Without(list, id) ==
  [i \in DOMAIN list |->
    IF i < id THEN list[i] ELSE IF i + 1 \in DOMAIN list THEN list[i + 1] ELSE None]

NewProject == [list |-> EmptyList(MaxSongs), count |-> 0, last |-> None]

\* hd24project::lastsongid: the place in the list of the song last used.
LastSongId(project) ==
  LET ids == {i \in 1 .. MaxSongs : project.list[i] = project.last}
  IN  IF project.last = None THEN -1 ELSE IF ids = {} THEN 1 ELSE Least(ids)

ProjectsOf(img) == {img[DriveInfo].list[i] : i \in 1 .. img[DriveInfo].count} \ {None}

MutSongsOf(img, p) == {img[p].list[j] : j \in 1 .. img[p].count - 1} \ {None}
SongsOf(img, p) == {img[p].list[j] : j \in 1 .. img[p].count} \ {None}

\* calcsongusage: the songs that the projects list.
Listed(img) == UNION {SongsOf(img, p) : p \in ProjectsOf(img)}
FreeSongs == Songs \ Listed(home)

-----------------------------------------------------------------------------
(* The blocks that the operations write, in order; the project is saved    *)
(* again after each song that deleteproject deletes, with no change.       *)

CreateSongSteps(selected) ==
  <<"record">> \o (IF selected THEN <<"enlist", "commit">> ELSE <<>>)
    \o <<"count", "commit", "usage", "songs", "commit">>

MutDeleteSongSteps == <<"unlist", "commit", "unmark", "commit", "commit">>
DeleteSongSteps ==
  <<"unlist", "commit", "usage", "songs", "unmark", "commit", "commit">>

LengthenSteps == <<"grow", "mark", "commit", "commit">>
CreateProjectSteps == <<"project", "commit", "addproject", "commit">>
DeleteProjectSteps == <<"allsongs", "dropproject", "commit">>

NoArg == [project |-> None, id |-> 0, song |-> None, space |-> {}]

Init ==
  \* a formatted drive: one project without songs
  /\ home = [b \in Blocks |->
       CASE b = Superblock -> 0
         [] b = DriveInfo ->
              [list |-> [EmptyList(MaxProjects) EXCEPT ![1] = FirstProject],
               count |-> 1, last |-> FirstProject]
         [] b \in {SongUsage, DriveUsage} \cup Songs -> {}
         [] b \in ProjectBlocks -> NewProject]
  /\ backup = home
  /\ todo = <<>>
  /\ arg = NoArg
  /\ running = TRUE
  /\ disturbed = FALSE

Idle == running /\ todo = <<>>

Begin(steps, p, id, s, space) ==
  /\ Idle
  /\ todo' = steps
  /\ arg' = [project |-> p, id |-> id, song |-> s, space |-> space]
  /\ UNCHANGED <<home, backup, running, disturbed>>

\* The user interface does not ask for a song beyond the last place.
CreateSong(p) ==
  LET slot == Least(Unused(home[p].list))
      s == Least(FreeSongs)
      listed == [home[p] EXCEPT !.list[slot] = s]
  IN  /\ home[p].count # MaxSongs
      /\ Unused(home[p].list) # {} /\ FreeSongs # {}
      /\ Begin(CreateSongSteps(slot # LastSongId(listed)), p, slot, s, {})

DeleteSong(p, id) ==
  /\ id \in 1 .. home[p].count
  /\ Begin(DeleteSongSteps, p, id, home[p].list[id], {})

\* Give a song clusters that are not in use, and save it.
LengthenSong(p, id, space) ==
  /\ id \in 1 .. home[p].count
  /\ space # {} /\ space \cap home[DriveUsage] = {}
  /\ Begin(LengthenSteps, p, id, home[p].list[id], space)

SelectSong(p, id) ==
  /\ id \in 1 .. home[p].count /\ id # LastSongId(home[p])
  /\ Begin(<<"lastsong", "commit">>, p, id, None, {})

SortSongs(p) ==
  /\ home[p].count >= 2
  /\ Begin(<<"sort", "commit">>, p, 0, None, {})

\* The first unused place in the list, and the first unused project block.
CreateProject ==
  /\ home[DriveInfo].count # MaxProjects
  /\ Unused(home[DriveInfo].list) # {}
  /\ ProjectBlocks \ Values(home[DriveInfo].list) # {}
  /\ Begin(CreateProjectSteps, Least(ProjectBlocks \ Values(home[DriveInfo].list)),
           Least(Unused(home[DriveInfo].list)), None, {})

\* The last project of a drive is not deleted.
DeleteProject(id) ==
  /\ home[DriveInfo].count > 1 /\ home[DriveInfo].list[id] # None
  /\ Begin(DeleteProjectSteps, home[DriveInfo].list[id], id, None, {})

SelectProject(id) ==
  /\ home[DriveInfo].list[id] \notin {None, home[DriveInfo].last}
  /\ Begin(<<"lastproject", "commit">>, home[DriveInfo].list[id], id, None, {})

Operate ==
  \/ \E p \in ProjectsOf(home) :
       \/ CreateSong(p)
       \/ \E id \in 1 .. MaxSongs :
            \/ DeleteSong(p, id)
            \/ \E space \in SUBSET Clusters : LengthenSong(p, id, space)
            \/ SelectSong(p, id)
       \/ SortSongs(p)
  \/ CreateProject
  \/ \E id \in 1 .. home[DriveInfo].count : DeleteProject(id) \/ SelectProject(id)

-----------------------------------------------------------------------------
(* The steps.  Each writes one block; what it writes is computed from what *)
(* the program has read or written before, which is what is in home.       *)

Doing(step) == running /\ todo # <<>> /\ Head(todo) = step

Write(step, block, content) ==
  /\ Doing(step)
  /\ home' = [home EXCEPT ![block] = content]
  /\ todo' = Tail(todo)
  /\ UNCHANGED <<backup, arg, running>>

project == home[arg.project]
enlisted == [project EXCEPT !.list[arg.id] = arg.song]

WriteRecord == Write("record", arg.song, {}) /\ UNCHANGED disturbed

\* The first of the two saves of createsong is that of lastsongid.
Enlist ==
  /\ Write("enlist", arg.project, [enlisted EXCEPT !.last = arg.song])
  /\ UNCHANGED disturbed
CountSong ==
  /\ Write("count", arg.project, [enlisted EXCEPT !.count = @ + 1])
  /\ UNCHANGED disturbed

Unlist ==
  LET list == Without(project.list, arg.id)
  IN  /\ Write("unlist", arg.project,
               [list |-> list, count |-> project.count - 1, last |-> list[1]])
      /\ UNCHANGED disturbed

\* rewritesongusage
RewriteSongUsage == Write("usage", SongUsage, Listed(home)) /\ UNCHANGED disturbed
CountSongs ==
  /\ Write("songs", Superblock, Cardinality(home[SongUsage]))
  /\ disturbed' = FALSE

Unmark ==
  /\ Write("unmark", DriveUsage, home[DriveUsage] \ home[arg.song])
  /\ UNCHANGED disturbed

Grow ==
  /\ Write("grow", arg.song, home[arg.song] \cup arg.space)
  /\ UNCHANGED disturbed
Mark ==
  /\ Write("mark", DriveUsage, home[DriveUsage] \cup arg.space)
  /\ UNCHANGED disturbed

\* The names decide the order; any order of the counted songs can come out.
Sort ==
  /\ Doing("sort")
  /\ \E order \in [1 .. project.count -> 1 .. project.count] :
       /\ \A i, j \in DOMAIN order : order[i] = order[j] => i = j
       /\ Write("sort", arg.project,
            [project EXCEPT !.list =
               [i \in 1 .. MaxSongs |->
                  IF i \in DOMAIN order THEN project.list[order[i]]
                  ELSE project.list[i]]])
       /\ UNCHANGED disturbed

SaveLastSong ==
  /\ Write("lastsong", arg.project, [project EXCEPT !.last = project.list[arg.id]])
  /\ UNCHANGED disturbed

WriteProject == Write("project", arg.project, NewProject) /\ UNCHANGED disturbed
AddProject ==
  /\ Write("addproject", DriveInfo,
       [list |-> [home[DriveInfo].list EXCEPT ![arg.id] = arg.project],
        count |-> home[DriveInfo].count + 1, last |-> arg.project])
  /\ UNCHANGED disturbed

MutDeleteSongs ==
  /\ Doing("allsongs")
  /\ todo' = IF project.count >= 0 THEN DeleteSongSteps \o todo ELSE Tail(todo)
  /\ arg' = [arg EXCEPT !.id = 1, !.song = project.list[1]]
  /\ UNCHANGED <<home, backup, running, disturbed>>
\* deleteproject deletes the songs it counted, the first of the list each time.
DeleteSongs ==
  /\ Doing("allsongs")
  /\ IF project.count > 0
     THEN /\ todo' = DeleteSongSteps \o todo
          /\ arg' = [arg EXCEPT !.id = 1, !.song = project.list[1]]
     ELSE /\ todo' = Tail(todo)
          /\ UNCHANGED arg
  /\ UNCHANGED <<home, backup, running, disturbed>>

DropProject ==
  LET projid == CHOOSE i \in 1 .. MaxProjects : home[DriveInfo].list[i] = arg.project
      list == Without(home[DriveInfo].list, projid)
  IN  /\ Write("dropproject", DriveInfo,
               [list |-> list, count |-> home[DriveInfo].count - 1, last |-> list[1]])
      /\ UNCHANGED disturbed

SaveLastProject ==
  /\ Write("lastproject", DriveInfo, [home[DriveInfo] EXCEPT !.last = arg.project])
  /\ UNCHANGED disturbed

OutOfStep == {b \in Blocks : home[b] # backup[b]}

MutNextBlock == CHOOSE b \in OutOfStep : \A c \in OutOfStep : b >= c
\* A commit goes through the blocks in the order of their sectors.
NextBlock == Least(OutOfStep)

CommitBlock ==
  /\ Doing("commit") /\ OutOfStep # {}
  /\ backup' = [backup EXCEPT ![NextBlock] = home[NextBlock]]
  /\ UNCHANGED <<home, todo, arg, running, disturbed>>

EndCommit ==
  /\ Doing("commit") /\ OutOfStep = {}
  /\ todo' = Tail(todo)
  /\ UNCHANGED <<home, backup, arg, running, disturbed>>

-----------------------------------------------------------------------------
\* A project lists a song that it does not count.
HalfListed(img) ==
  \E p \in ProjectsOf(img) : Values(img[p].list) # SongsOf(img, p)

\* The program stops: the operation is never finished.
Stop ==
  /\ running /\ (StopInCreate \/ ~HalfListed(backup))
  /\ running' = FALSE
  /\ todo' = <<>>
  /\ arg' = NoArg
  /\ disturbed' = TRUE
  /\ UNCHANGED <<home, backup>>

\* The recorder (external) restores the blocks from their backup.
Repair ==
  /\ ~running
  /\ home' = backup
  /\ UNCHANGED <<backup, todo, arg, running, disturbed>>

Open ==
  /\ ~running /\ (DirtyReopen \/ OutOfStep = {})
  /\ running' = TRUE
  /\ UNCHANGED <<home, backup, todo, arg, disturbed>>

Next ==
  \/ Operate
  \/ WriteRecord \/ Enlist \/ CountSong \/ Unlist
  \/ RewriteSongUsage \/ CountSongs \/ Unmark \/ Grow \/ Mark
  \/ Sort \/ SaveLastSong
  \/ WriteProject \/ AddProject \/ DeleteSongs \/ DropProject \/ SaveLastProject
  \/ CommitBlock \/ EndCommit
  \/ Stop \/ Repair \/ Open

Spec == Init /\ [][Next]_vars

-----------------------------------------------------------------------------
SongList == [1 .. MaxSongs -> Songs \cup {None}]
Content(b) ==
  IF b = Superblock THEN 0 .. MaxEntries
  ELSE IF b = DriveInfo THEN
    [list : [1 .. MaxProjects -> ProjectBlocks \cup {None}],
     count : 0 .. MaxProjects, last : ProjectBlocks \cup {None}]
  ELSE IF b = SongUsage THEN SUBSET Songs
  ELSE IF b \in ProjectBlocks THEN
    [list : SongList, count : 0 .. MaxSongs, last : Songs \cup {None}]
  ELSE SUBSET Clusters

Steps ==
  {"record", "enlist", "count", "unlist", "usage", "songs", "unmark", "grow",
   "mark", "sort", "lastsong", "project", "addproject", "allsongs",
   "dropproject", "lastproject", "commit"}

TypeOK ==
  /\ DOMAIN home = Blocks /\ DOMAIN backup = Blocks
  /\ \A b \in Blocks : home[b] \in Content(b) /\ backup[b] \in Content(b)
  /\ todo \in Seq(Steps)
  /\ arg \in [project : ProjectBlocks \cup {None}, id : 0 .. MaxProjects + MaxSongs,
              song : Songs \cup {None}, space : SUBSET Clusters]
  /\ running \in BOOLEAN /\ disturbed \in BOOLEAN

\* No song is in two places of the lists of the drive's projects, wherever
\* the program is or stopped: a song that is made gets a record of its own.
NoSharedSong ==
  \A p, q \in ProjectsOf(home) : \A i, j \in 1 .. MaxSongs :
    /\ home[p].list[i] # None /\ home[p].list[i] = home[q].list[j]
    => p = q /\ i = j

\* The clusters of the songs that the projects list are marked as used and
\* belong to one song each when operations begin, also after a stop between
\* any two writes or in a commit: no song loses space to a later one.
SpaceIsSafe ==
  Idle =>
    /\ \A s \in Listed(home) : home[s] \subseteq home[DriveUsage]
    /\ \A s, t \in Listed(home) : s # t => home[s] \cap home[t] = {}

\* The song usage table and the number of songs say what the projects list,
\* unless the program has been stopped and has not rewritten them since.
UsageAgrees ==
  Idle /\ ~disturbed =>
    home[SongUsage] = Listed(home) /\ home[Superblock] = Cardinality(Listed(home))

\* Who has each song according to the backup, which is what a stop leaves.
Owner ==
  [s \in Songs |->
    IF s \in Listed(backup)
    THEN CHOOSE p \in ProjectsOf(backup) : s \in SongsOf(backup, p) ELSE None]

Book == INSTANCE SongBook
          WITH Projects <- ProjectBlocks, NoProject <- None,
               owner <- Owner, space <- [s \in Songs |-> backup[s]]

\* Whatever operation runs and wherever it stops, what survives on the drive
\* changes by one song at a time: each operation is done or not done.
ImplementsBook == Book!Spec
=============================================================================
