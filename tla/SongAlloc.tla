------------------------------ MODULE SongAlloc ------------------------------
(***************************************************************************)
(* How hd24tools gives audio clusters to songs.                            *)
(*                                                                         *)
(* The drive usage table (one bit per cluster) exists twice: on the drive  *)
(* and as hd24fs::sectors_driveusage in memory.  Lengthening a song sets   *)
(* bits in memory only, finds out which ones by comparing with a copy made *)
(* before, and appends them to the allocation table of the song object;    *)
(* hd24song::save then writes the song and the table to the drive.         *)
(* Deleting a song empties its record, takes it off the project's list and *)
(* clears its bits in memory and on the drive.  The drive is searched for  *)
(* space in whole 32-bit words, except that a song prefers the cluster     *)
(* after its last one.                                                     *)
(*                                                                         *)
(* The callers are those of the user interface: one song object is the     *)
(* selected song, a second one exists while a new song is being made.      *)
(* Lengthening a new song calls back into the event loop (Fl::check)       *)
(* between clusters and around the appending; with Reentrant the user may  *)
(* then select, delete and make songs.  Each of these deletes the project  *)
(* object the new song still points to, and the save that follows writes   *)
(* the new song wherever the freed memory says.  Crashes and the backup    *)
(* copy at the end of the drive are the subject of module FSCommit.        *)
(***************************************************************************)
EXTENDS Integers, FiniteSets, Sequences

CONSTANTS
    WordSize,          \* clusters in a word of the usage table (32)
    NumWords,          \* words in the usage table
    ClusterCount,      \* clusters the drive really has (hd24fs::clustercount)
    BlocksPerCluster,  \* audio blocks in a cluster
    BlockWamples,      \* samples per track in an audio block
    SongSectors,       \* the places on the drive a song record can be in
    MaxSongs,          \* songs a project can list (99)
    Lengths,           \* bound: the song lengths callers ask for
    InitialUsage,      \* bound: what other machines may have left in use
    Reentrant          \* do callbacks during lengthening run user actions?

Bits == 0 .. NumWords * WordSize - 1
Clusters == 0 .. ClusterCount - 1
Words == 0 .. NumWords - 1

ASSUME SizeAssumption ==
    /\ WordSize \in Nat \ {0} /\ NumWords \in Nat \ {0}
    /\ ClusterCount \in 0 .. NumWords * WordSize
    /\ BlocksPerCluster \in Nat \ {0} /\ BlockWamples \in Nat \ {0}
    /\ MaxSongs \in Nat /\ Lengths \subseteq Nat
    /\ InitialUsage \subseteq SUBSET Clusters
    /\ Reentrant \in BOOLEAN

ASSUME SectorAssumption == SongSectors \subseteq Nat /\ IsFiniteSet(SongSectors)

Undefined == -1        \* CLUSTER_UNDEFINED

Elsewhere == -1        \* a sector that is no song's: the superblock, say

PoolFree == -1         \* Free and Lost of ClusterPool
PoolLost == -2

VARIABLES
    diskUsage,           \* clusters marked as used in the table on the drive
    memUsage,            \* clusters marked as used in sectors_driveusage
    nextfreeclusterword, \* where the search for an empty word starts
    list,                \* the project's song list: song id -> song sector
    song,                \* the song records on the drive
    open,                \* the song objects that exist ...
    obj,                 \* ... and what their buffers hold
    job,                 \* the lengthening in progress
    result,              \* what the last songlength_in_wamples call answered
    stranded,            \* history: bits set in memory that belong to no song,
                         \* found at the start or left by a failed lengthening
    parentproject,       \* the project object that a song being lengthened
                         \* points to: "valid" or "deleted"
    strayed              \* history: a song was saved through a deleted one

projectVars == <<parentproject, strayed>>

vars == <<diskUsage, memUsage, nextfreeclusterword, list, song, open, obj,
          job, result, stranded, projectVars>>

usageVars == <<diskUsage, memUsage, nextfreeclusterword, stranded>>

------------------------------------------------------------------------------
(* Allocation tables.  A table is the sequence of the cluster sets appended *)
(* by the lengthenings of the song; its entries are the maximal runs of     *)
(* consecutive clusters of each of them.                                    *)

Table == Seq(SUBSET Clusters)
Handles == {"currsong", "newsong"}
Record == [len : Nat, audioblocks : Nat, table : Table]
Object == [id : Nat, len : Nat, audioblocks : Nat, table : Table,
           lengthened : BOOLEAN, lastallocentry : {0, 1}]

Cover(table) == UNION {table[i] : i \in DOMAIN table}

AudioBlocks(table) ==
    BlocksPerCluster *
        Cardinality({p \in (DOMAIN table) \X Clusters : p[2] \in table[p[1]]})

EntryStarts(table) ==
    {p \in (DOMAIN table) \X Clusters :
        p[2] \in table[p[1]] /\ (p[2] - 1) \notin table[p[1]]}

UsedEntries(table) == Cardinality(EntryStarts(table))

\* The last cluster of table entry k, counting from 0.
EntryEnd(table, k) ==
    LET Before(p, q) == p[1] < q[1] \/ (p[1] = q[1] /\ p[2] < q[2])
        s == CHOOSE p \in EntryStarts(table) :
                Cardinality({q \in EntryStarts(table) : Before(q, p)}) = k
    IN  CHOOSE c \in table[s[1]] :
            /\ c >= s[2] /\ (c + 1) \notin table[s[1]]
            /\ \A d \in s[2] .. c : d \in table[s[1]]

RequiredBlocks(len) == (len + BlockWamples - 1) \div BlockWamples

\* memoizeblocksectors counts the entries it walks through in a bool.
Memoized(blocks) == IF blocks > 0 THEN 1 ELSE 0

EmptyRecord == [len |-> 0, audioblocks |-> 0, table |-> <<>>]

\* A new song object holds what the song sectors on the drive hold.
Opened(rec, id) ==
    [id |-> id, len |-> rec.len, audioblocks |-> rec.audioblocks,
     table |-> rec.table, lengthened |-> FALSE,
     lastallocentry |-> Memoized(RequiredBlocks(rec.len))]

NoObject == Opened(EmptyRecord, 0)

------------------------------------------------------------------------------
(* The search for a free cluster, on the table in memory.                   *)

WordBits(w) == {w * WordSize + i : i \in 0 .. WordSize - 1}
EmptyWord(w) == WordBits(w) \cap memUsage = {}
EmptyWordsFrom(w) == {v \in Words : v >= w /\ EmptyWord(v)}
Least(S) == CHOOSE x \in S : \A y \in S : x <= y

\* hd24fs::getnextfreeclusterword: the word found, or Undefined.
FreeWord ==
    IF EmptyWordsFrom(nextfreeclusterword) # {}
    THEN Least(EmptyWordsFrom(nextfreeclusterword))
    ELSE IF EmptyWordsFrom(0) # {} THEN Least(EmptyWordsFrom(0)) ELSE Undefined

FollowsFree(c) == c # Undefined /\ (c + 1) \in Bits \ memUsage

\* The cluster a song object would continue after: the end of the entry its
\* lastallocentrynum points at, or else the cluster it was last given.
ContinueAfter(o, last) ==
    IF o.lastallocentry < UsedEntries(o.table)
    THEN EntryEnd(o.table, o.lastallocentry)
    ELSE last

\* hd24song::getnextfreesector: a cluster (Undefined when it returns 0) ...
NextFree(o, last) ==
    LET c == ContinueAfter(o, last)
    IN  IF FollowsFree(c) THEN c + 1
        ELSE IF FreeWord = Undefined THEN Undefined ELSE FreeWord * WordSize

\* Mutant: a search that finds nothing leaves its answer behind.
MutNextMemo(o, last) ==
    IF FollowsFree(ContinueAfter(o, last)) THEN nextfreeclusterword ELSE FreeWord

\* ... and what the search leaves in nextfreeclusterword.
NextMemo(o, last) ==
    IF FollowsFree(ContinueAfter(o, last)) THEN nextfreeclusterword
    ELSE IF FreeWord = Undefined THEN 0 ELSE FreeWord

------------------------------------------------------------------------------
Idle == [stage |-> "idle", handle |-> "currsong", copy |-> {}, left |-> 0,
         last |-> Undefined, batch |-> {}, oldlen |-> 0, newlen |-> 0,
         resize |-> FALSE]

NoResult == [ret |-> "none", oldlen |-> 0, newlen |-> 0]

Init ==
    \* the program has opened a drive without songs; other machines may have
    \* left clusters marked as used, as are the bits that are no clusters
    /\ \E U \in InitialUsage : diskUsage = U \cup (Bits \ Clusters)
    /\ memUsage = diskUsage
    /\ nextfreeclusterword = 0
    /\ list = <<>>
    /\ song = [s \in SongSectors |-> EmptyRecord]
    /\ open = {}
    /\ obj = [h \in Handles |-> NoObject]
    /\ job = Idle
    /\ result = NoResult
    /\ stranded = diskUsage \cap Clusters
    /\ parentproject = "valid"
    /\ strayed = FALSE

\* The event loop handles a user action: nothing runs ...
UserTurn == job.stage = "idle"

\* ... or the lengthening of a new song has called checkfunc: before every
\* cluster, before the clusters are appended and after that.  Bound: no second
\* lengthening is begun and no other drive is chosen from such a callback.
Callback == Reentrant /\ job.stage # "idle" /\ job.handle = "newsong"

\* Choosing a song and refreshing the user interface delete currproj and get
\* another object.  The song objects that remain point to the deleted one.
ProjectReplaced == parentproject' = IF UserTurn THEN parentproject ELSE "deleted"

\* Select a song of the list: the object of the previous one is deleted.
SelectSong(id) ==
    /\ UserTurn \/ Callback
    /\ id \in DOMAIN list
    /\ open' = open \cup {"currsong"}
    /\ obj' = [obj EXCEPT !["currsong"] = Opened(song[list[id]], id)]
    /\ result' = NoResult
    /\ ProjectReplaced
    /\ UNCHANGED <<usageVars, list, song, job, strayed>>

------------------------------------------------------------------------------
(* songlength_in_wamples on object o, by cases of setallocinfo.             *)

\* Mutant: compares whole clusters instead of audio blocks.
MutLengthFits(o, n) ==
    n = 0 \/ AudioBlocks(o.table) \div BlocksPerCluster
             = RequiredBlocks(n) \div BlocksPerCluster

\* Nothing to allocate: length 0, or the table has just the right size.
LengthFits(o, n) == n = 0 \/ AudioBlocks(o.table) = RequiredBlocks(n)
\* The table is larger than needed.  This is taken for a request to shrink.
LengthRefused(o, n) == n # 0 /\ AudioBlocks(o.table) > RequiredBlocks(n)

\* The object after a successful call that allocated nothing.
Fitted(o, n) ==
    IF n = 0 THEN [o EXCEPT !.len = 0, !.audioblocks = 0]
    ELSE [o EXCEPT !.len = n, !.lengthened = TRUE,
                   !.lastallocentry = Memoized(o.audioblocks)]

\* The call up to its first callback, for the object o in handle h.
BeginLength(h, o, n, resize) ==
    \/ /\ LengthFits(o, n)
       /\ obj' = [obj EXCEPT ![h] = Fitted(o, n)]
       /\ open' = open \cup {h}
       /\ job' = [Idle EXCEPT !.stage = "save", !.handle = h]
       /\ result' = [ret |-> "ok", oldlen |-> o.len, newlen |-> n]
       /\ UNCHANGED <<memUsage, stranded>>
    \/ /\ LengthRefused(o, n)
       /\ UNCHANGED <<open, obj>>
       /\ result' = [ret |-> "refused", oldlen |-> o.len, newlen |-> n]
       /\ UNCHANGED <<memUsage, stranded, job>>
    \/ /\ ~LengthFits(o, n) /\ ~LengthRefused(o, n)
       /\ obj' = [obj EXCEPT ![h] = [o EXCEPT !.len = n]]
       /\ open' = open \cup {h}
       /\ memUsage' = diskUsage          \* getcopyofusagetable re-reads it
       /\ stranded' = stranded \cap diskUsage
       /\ job' = [stage |-> "alloc", handle |-> h, copy |-> diskUsage,
                  left |-> RequiredBlocks(n) - AudioBlocks(o.table),
                  last |-> Undefined, batch |-> {}, oldlen |-> o.len,
                  newlen |-> n, resize |-> resize]
       /\ result' = NoResult

\* Lengthen the selected song: a transfer to the drive (which clears the new
\* space) or the recovery of a live recording (which keeps it, and may set
\* any length).
SetLength(n, resize) ==
    /\ UserTurn /\ "currsong" \in open
    /\ resize \/ n > obj["currsong"].len
    /\ BeginLength("currsong", obj["currsong"], n, resize)
    /\ UNCHANGED <<diskUsage, nextfreeclusterword, list, song, projectVars>>

\* Make a new song in the first sector no listed song uses, and lengthen it
\* when its length is to be more than 0.
CreateSong(n) ==
    LET unused == SongSectors \ {list[i] : i \in DOMAIN list}
        s == Least(unused)
    IN  /\ UserTurn \/ (Callback /\ n = 0)
        /\ Len(list) < MaxSongs /\ unused # {}
        /\ song' = [song EXCEPT ![s] = EmptyRecord]
        /\ list' = Append(list, s)
        /\ \/ /\ n = 0
              /\ open' = open \cup {"currsong"}
              /\ obj' = [obj EXCEPT !["currsong"] = Opened(EmptyRecord, Len(list) + 1)]
              /\ result' = NoResult
              /\ UNCHANGED <<memUsage, stranded, job>>
           \/ /\ n > 0
              /\ BeginLength("newsong", Opened(EmptyRecord, Len(list) + 1), n, FALSE)
        /\ ProjectReplaced
        /\ UNCHANGED <<diskUsage, nextfreeclusterword, strayed>>

\* Mutant: the bits that are set, not those that have changed.
MutChanged(copy, usage) == usage

\* The bits that differ between the table and its copy, by exclusive or.
Changed(copy, usage) == (usage \ copy) \cup (copy \ usage)

\* One turn of the loop of allocatenewblocks.  After the last cluster the
\* changes to the table are collected, before the next callback.
AllocateCluster ==
    LET o == obj[job.handle]
        c == NextFree(o, job.last)
        left == IF job.left >= BlocksPerCluster THEN job.left - BlocksPerCluster ELSE 0
        usage == memUsage \cup {c}
    IN  /\ job.stage = "alloc" /\ c # Undefined
        /\ memUsage' = usage
        /\ nextfreeclusterword' = NextMemo(o, job.last)
        /\ job' = IF left > 0 THEN [job EXCEPT !.left = left, !.last = c]
                  ELSE [job EXCEPT !.left = 0, !.last = c, !.stage = "append",
                                   !.batch = Changed(job.copy, usage)]
        /\ UNCHANGED <<diskUsage, list, song, open, obj, result, stranded,
                       projectVars>>

\* Mutant: asks again instead of giving up.
MutOutOfSpace ==
    /\ job.stage = "alloc"
    /\ NextFree(obj[job.handle], job.last) = Undefined
    /\ nextfreeclusterword' = NextMemo(obj[job.handle], job.last)
    /\ UNCHANGED <<diskUsage, memUsage, list, song, open, obj, job, result,
                   stranded, projectVars>>

\* No cluster was found: the song keeps its length, the bits stay set.  The
\* object of a new song is not used any more.
OutOfSpace ==
    /\ job.stage = "alloc"
    /\ NextFree(obj[job.handle], job.last) = Undefined
    /\ nextfreeclusterword' = NextMemo(obj[job.handle], job.last)
    /\ obj' = [obj EXCEPT !["newsong"] = NoObject,
                          !["currsong"].len = IF job.handle = "currsong"
                                              THEN job.oldlen ELSE @]
    /\ open' = open \ {"newsong"}
    /\ job' = Idle
    /\ result' = [ret |-> "nospace", oldlen |-> job.oldlen, newlen |-> job.newlen]
    /\ stranded' = stranded \cup (Clusters \cap (memUsage \ job.copy))
    /\ parentproject' = "valid"
    /\ UNCHANGED <<diskUsage, memUsage, list, song, strayed>>

\* appendorphanclusters, and the end of a successful lengthening.
AppendClusters ==
    LET o == obj[job.handle]
        table == Append(o.table, job.batch \cap Clusters)
        blocks == AudioBlocks(table)
    IN  /\ job.stage = "append"
        /\ obj' = [obj EXCEPT ![job.handle] =
                [o EXCEPT !.table = table, !.audioblocks = blocks,
                          !.len = IF job.resize THEN BlockWamples * blocks ELSE @,
                          !.lengthened = TRUE, !.lastallocentry = Memoized(blocks)]]
        /\ job' = [Idle EXCEPT !.stage = "save", !.handle = job.handle]
        /\ result' = [ret |-> "ok", oldlen |-> job.oldlen, newlen |-> job.newlen]
        /\ UNCHANGED <<usageVars, list, song, open, projectVars>>

\* The caller of a successful lengthening saves the song: the song record
\* first, then the usage table if there was any allocation.  A new song then
\* becomes the selected one.
SaveLengthened ==
    LET o == obj[job.handle]
        rec == [len |-> o.len, audioblocks |-> o.audioblocks, table |-> o.table]
    IN  /\ job.stage = "save" /\ parentproject = "valid"
        /\ song' = [song EXCEPT ![list[o.id]] = rec]
        /\ diskUsage' = IF o.lengthened THEN memUsage ELSE diskUsage
        /\ open' = {"currsong"}
        /\ obj' = [obj EXCEPT !["newsong"] = NoObject,
                              !["currsong"] = IF job.handle = "newsong"
                                              THEN Opened(rec, o.id)
                                              ELSE [o EXCEPT !.lengthened = FALSE]]
        /\ job' = Idle /\ result' = NoResult
        /\ UNCHANGED <<memUsage, nextfreeclusterword, list, stranded, projectVars>>

\* The same save when a callback has deleted the project object: the sector it
\* goes to is read from freed memory, which may hold the old list, that of the
\* object that took its place (0 behind its end: the superblock) or anything.
\* The last used song is then selected again.
SaveThroughDeleted ==
    LET o == obj["newsong"]
        rec == [len |-> o.len, audioblocks |-> o.audioblocks, table |-> o.table]
        id == obj["currsong"].id
    IN  /\ job.stage = "save" /\ parentproject = "deleted"
        /\ \E target \in SongSectors \cup {Elsewhere} :
                song' = [s \in SongSectors |-> IF s = target THEN rec ELSE song[s]]
        /\ diskUsage' = IF o.lengthened THEN memUsage ELSE diskUsage
        /\ open' = open \ {"newsong"}
        /\ obj' = [obj EXCEPT !["newsong"] = NoObject,
                              !["currsong"] = IF "currsong" \in open
                                              THEN Opened(song'[list[id]], id) ELSE @]
        /\ job' = Idle /\ result' = NoResult
        /\ parentproject' = "valid"
        /\ strayed' = TRUE
        /\ UNCHANGED <<memUsage, nextfreeclusterword, list, stranded>>

------------------------------------------------------------------------------
\* Mutant: drops the last song of the list instead of closing it up.
MutWithout(s, id) == SubSeq(s, 1, Len(s) - 1)

\* The list s without the song at place id.
Without(s, id) == [i \in 1 .. Len(s) - 1 |-> IF i < id THEN s[i] ELSE s[i + 1]]

\* Mutant: misses the last cluster of every allocation entry.
MutUnmarked(usage, table) ==
    usage \ {c \in Clusters : \E i \in DOMAIN table : {c, c + 1} \subseteq table[i]}

\* unmark_used_clusters: the usage with the clusters of a table marked free.
Unmarked(usage, table) == usage \ Cover(table)

\* Delete the selected song: its record keeps the table but loses its length,
\* the list closes up, the clusters of the record on the drive are marked
\* free in memory and the whole table is written.  The first song of the
\* list is selected next.
DeleteSong ==
    LET id == obj["currsong"].id
        s == list[id]
        usage == Unmarked(memUsage, song[s].table)
        emptied == [song EXCEPT ![s].len = 0, ![s].audioblocks = 0]
    IN  /\ UserTurn \/ Callback
        /\ "currsong" \in open
        /\ song' = emptied
        /\ list' = Without(list, id)
        /\ memUsage' = usage
        /\ diskUsage' = usage
        /\ IF Len(list) = 1
           THEN /\ open' = open \ {"currsong"}
                /\ obj' = [obj EXCEPT !["currsong"] = NoObject]
           ELSE /\ UNCHANGED open
                /\ obj' = [obj EXCEPT !["currsong"] =
                                Opened(emptied[Without(list, id)[1]], 1)]
        /\ result' = NoResult
        /\ ProjectReplaced
        /\ UNCHANGED <<nextfreeclusterword, job, stranded, strayed>>

\* The program is started and opens the drive.
Started ==
    /\ memUsage' = diskUsage
    /\ nextfreeclusterword' = 0
    /\ open' = {}
    /\ obj' = [h \in Handles |-> NoObject]
    /\ job' = Idle
    /\ result' = NoResult
    /\ stranded' = stranded \cap diskUsage
    /\ parentproject' = "valid"
    /\ UNCHANGED <<diskUsage, list, song, strayed>>

\* Leave the program, start it again and open the drive.
Reopen == UserTurn /\ Started

\* The save through a deleted project object may also end the program.
CrashInSave == job.stage = "save" /\ parentproject = "deleted" /\ Started

Next ==
    \/ \E id \in 1 .. MaxSongs : SelectSong(id)
    \/ \E n \in Lengths : CreateSong(n)
    \/ \E n \in Lengths, resize \in BOOLEAN : SetLength(n, resize)
    \/ AllocateCluster
    \/ OutOfSpace
    \/ AppendClusters
    \/ SaveLengthened
    \/ SaveThroughDeleted
    \/ CrashInSave
    \/ DeleteSong
    \/ Reopen

Spec == Init /\ [][Next]_vars

\* A lengthening is straight-line code of one thread: once begun, it runs on.
JobStep ==
    \/ AllocateCluster \/ OutOfSpace \/ AppendClusters
    \/ SaveLengthened \/ SaveThroughDeleted \/ CrashInSave
FairSpec == Spec /\ WF_vars(JobStep)

------------------------------------------------------------------------------
(* Properties.                                                              *)

Linked == {list[i] : i \in DOMAIN list}
Listed == UNION {Cover(song[s].table) : s \in Linked}
Unowned == (diskUsage \cap Clusters) \ Listed

JobType == [stage : {"idle", "alloc", "append", "save"}, handle : Handles,
            copy : SUBSET Bits, left : Nat, last : Bits \cup {Undefined},
            batch : SUBSET Bits, oldlen : Nat, newlen : Nat, resize : BOOLEAN]
ResultType == [ret : {"none", "ok", "refused", "nospace"}, oldlen : Nat, newlen : Nat]

\* Every variable keeps the shape of the data it stands for.
TypeOK ==
    /\ diskUsage \subseteq Bits /\ memUsage \subseteq Bits
    /\ nextfreeclusterword \in Words
    /\ list \in Seq(SongSectors)
    /\ song \in [SongSectors -> Record]
    /\ open \subseteq Handles
    /\ obj \in [Handles -> Object]
    /\ job \in JobType
    /\ result \in ResultType
    /\ stranded \subseteq Clusters
    /\ parentproject \in {"valid", "deleted"} /\ strayed \in BOOLEAN

\* No two songs of the project have a cluster in common, and no song lists a
\* cluster twice: allocating for one song, across failed lengthenings, deletes
\* and re-reads of the usage table, never hands out what another song has.
NoCrossLink ==
    /\ \A s, t \in Linked : s # t => Cover(song[s].table) \cap Cover(song[t].table) = {}
    /\ \A s \in Linked : \A i, j \in DOMAIN song[s].table :
            i # j => song[s].table[i] \cap song[s].table[j] = {}

\* What a song of the project lists is marked as used on the drive.
ListedAreUsed == Listed \subseteq diskUsage

\* NoCrossLink and ListedAreUsed hold because of how the pieces fit together:
\* the list has no sector twice, the table in memory is never behind the one
\* on the drive, the selected song is as saved, and a lengthening that no user
\* action has come into appends to its song's table nothing but clusters that
\* are free on the drive.
ListDistinct == \A i, j \in DOMAIN list : i # j => list[i] # list[j]

MemoryAhead == diskUsage \subseteq memUsage

OpenIsListed == "currsong" \in open => obj["currsong"].id \in DOMAIN list

SelectedIsSaved ==
    ("currsong" \in open /\ ~(job.stage = "save" /\ job.handle = "currsong"))
        => obj["currsong"].table = song[list[obj["currsong"].id]].table

\* Object o has the table t, or t and what was allocated since.
Extends(t, o) ==
    \/ o.table = t
    \/ /\ o.lengthened
       /\ \E B \in SUBSET Clusters :
            B \cap diskUsage = {} /\ B \subseteq memUsage /\ o.table = Append(t, B)

JobFits ==
    LET o == obj[job.handle] IN
    (job.stage # "idle" /\ parentproject = "valid") =>
        /\ job.handle = "currsong" => "currsong" \in open
        /\ o.id \in DOMAIN list
        /\ job.stage = "save" => Extends(song[list[o.id]].table, o)
        /\ job.stage # "save" =>
            job.copy = diskUsage /\ o.table = song[list[o.id]].table
        /\ job.stage = "append" => job.batch = memUsage \ diskUsage

IInv == /\ ListDistinct /\ MemoryAhead /\ OpenIsListed /\ SelectedIsSaved
        /\ JobFits /\ NoCrossLink /\ ListedAreUsed

\* Whatever users do in callbacks, the songs, the usage tables and the selected
\* song agree until a song is saved through a deleted project object: what goes
\* wrong goes wrong in that save, and a callback whose lengthening runs out of
\* space or whose save ends the program does no harm to the songs.
SoundUntilStrayed == ~strayed => IInv

\* Every saved song has the audio blocks its length needs, and its table has
\* the blocks the record claims (hd24song::has_unexpected_end is false): the
\* repair that select_song offers otherwise is for recordings cut off by the
\* recorder, never for what this program saved.
SavedLengthIsBacked ==
    \A s \in Linked :
        /\ RequiredBlocks(song[s].len) <= AudioBlocks(song[s].table)
        /\ song[s].audioblocks <= AudioBlocks(song[s].table)

\* Drive space gets lost only to bits a failed lengthening left in memory.
LostOnlyByFailure == Unowned \subseteq stranded

\* Who has each cluster, according to what is on the drive.
DiskOwner ==
    [c \in Clusters |->
        IF c \in Listed THEN CHOOSE s \in Linked : c \in Cover(song[s].table)
        ELSE IF c \in diskUsage THEN PoolLost ELSE PoolFree]

Pool == INSTANCE ClusterPool
            WITH Owners <- SongSectors, Free <- PoolFree, Lost <- PoolLost,
                 owner <- DiskOwner

\* Seen from the drive, the program implements the promises of ClusterPool:
\* a song gains free clusters when it is saved and loses all of them when it
\* is deleted, and no step touches the clusters of another song.
ImplementsPool == Pool!Spec

\* Once begun, a lengthening comes to an end, also when space runs out.
LengtheningEnds == job.stage # "idle" ~> job.stage = "idle"

------------------------------------------------------------------------------
(* What comments and documents say of this code, and the code does not do.  *)

\* A refused length is a request to shrink the song: so says the comment in
\* setallocinfo where it refuses.  The code compares the blocks of the table,
\* which come in whole clusters, with the blocks the length needs.
RefusedMeansShrink == result.ret = "refused" => result.newlen < result.oldlen

\* A 1 in the usage table is a cluster in use (ADATFS.txt): no step of the
\* program adds a cluster that is marked as used and belongs to no song.
NoNewLeak == [][Unowned' \subseteq Unowned]_vars

\* The clusters appended to a song are those the lengthening has allocated
\* (the comment in setallocinfo), and still are at that time.
AppendedWereAllocated == job.stage = "append" => job.batch \subseteq memUsage
==============================================================================
