------------------------------ MODULE Export ------------------------------
(***************************************************************************)
(* Copying songs to sound files on the computer: the user interface's loop *)
(* over the songs and transfer_to_pc's loop over the audio blocks of one.  *)
(*                                                                         *)
(* A sample is <<song, track, position>>.  A file is the sequence of       *)
(* samples written to it, whatever its header makes of them.  The file of  *)
(* the mix of all tracks, which never replaces another, and the wording of *)
(* names and messages are left out.                                        *)
(***************************************************************************)
EXTENDS AudioBlocks, Sequences, FiniteSets

CONSTANTS
    ExportJobs,    \* what the user may ask for
    ExportOld      \* sets of files that may be there before

\* A job: the songs' lengths in wamples; one song from one locate point to
\* another, or all songs; the tracks; the channels of a file, 0 for all; the
\* size limit of a file in samples of a track, 0 for none; samples per wample.
ExportJob ==
    [songs : Seq(Nat), multi : BOOLEAN, start : Nat, end : Nat, sel : SUBSET SongTracks,
     format : {0, 1, 2}, limit : Nat, chanmult : {1, 2}, mixdown : BOOLEAN]

\* The file of a track of a song: its part, 0 when it is not split.
ExportFile == [song : Nat, track : SongTracks, part : Nat]

ASSUME ExportAssumption ==
    /\ ExportJobs \subseteq ExportJob
    /\ \A j \in ExportJobs : Len(j.songs) > 0 /\ (~j.multi => Len(j.songs) = 1)
    /\ \A j \in ExportJobs : ~j.multi /\ j.format = 2 => Cardinality(j.sel) % 2 = 0
    /\ \A o \in ExportOld : o \subseteq ExportFile

OldFile == <<0, 0, 2>>      \* the contents of a file that was there before

VARIABLES
    exJob,       \* the job; start, end: as the job object holds them
    exPc,        \* "idle", "song", "block", "songdone", "done" or "crashed"
    exSong,      \* the song
    exSam,       \* samplenum
    exPart, exPartSam,
    exCancel,    \* transfer_cancel
    exAgreed,    \* the user let files be overwritten
    exFiles      \* the files: name -> samples

exportVars == <<exJob, exPc, exSong, exSam, exPart, exPartSam, exCancel,
                exAgreed, exFiles>>

------------------------------------------------------------------------------
(* The songs on the drive. *)

\* Block b of a song: sample p of track t is <<song, t, p>>.
BlockOnDrive(song, len, chanmult, b) ==
    [o \in BufferSamples |->
       LET r    == o % BlockSamples
           half == BlockSamples \div 2
           at   == IF chanmult = 1 THEN r ELSE IF r < half THEN 2 * r ELSE 2 * (r - half) + 1
       IN  IF b < BlockCount(len, chanmult)
           THEN <<song, o \div BlockSamples, b * BlockSamples + at>> ELSE Foreign]

------------------------------------------------------------------------------
(* Groups of tracks that share a file. *)

ExRank(sel, t) == Cardinality({u \in sel : u <= t})
FileChannels(j) == IF j.format = 0 THEN Cardinality(j.sel) ELSE j.format

\* The selected track that opens the file of track t, and its whole group.
GroupFirst(j, t) ==
    LET c == FileChannels(j)
    IN  CHOOSE u \in j.sel : ExRank(j.sel, u) = ((ExRank(j.sel, t) - 1) \div c) * c + 1
GroupFirsts(j) == {t \in j.sel : GroupFirst(j, t) = t}
GroupOf(j, t) == {u \in j.sel : GroupFirst(j, u) = t}
InGroup(g, k) == CHOOSE u \in g : ExRank(g, u) = k

\* interlacetobuffer and the write of its last channel: the samples of the
\* tracks of a group in turn; a track alone is written as it is.
Interlaced(buf, g, skip, n) ==
    LET c == Cardinality(g)
    IN  [i \in 1 .. n * c |->
           FromBuffer(buf, InGroup(g, ((i - 1) % c) + 1), skip, n)[((i - 1) \div c) + 1]]

------------------------------------------------------------------------------
(* The lengths of the blocks of a transfer. *)

ExStart(j) == IF j.start > j.end THEN j.end ELSE j.start
ExEnd(j)   == IF j.start > j.end THEN j.start ELSE j.end
TransLen(j) == (ExEnd(j) - ExStart(j)) * j.chanmult
FirstBlock(j) == BlockSamples - (ExStart(j) % BlockSamples)

\* Only the first block: the loop leaves its lengths alone.
OneBlock(j) ==
    TransLen(j) = IF TransLen(j) < BlockSamples THEN TransLen(j) ELSE FirstBlock(j)

\* How far the loop advances, and how much of the block it writes.
SamsInCurrBlock(j, s) == IF s = 0 \/ OneBlock(j) THEN FirstBlock(j) ELSE BlockSamples

\* Mutant: the last block is written to its end.
MutSubBlock(j, s) == IF OneBlock(j) THEN BlockSamples ELSE SamsInCurrBlock(j, s)

SubBlock(j, s) ==
    IF OneBlock(j) THEN BlockSamples
    ELSE IF s + SamsInCurrBlock(j, s) >= TransLen(j)
         THEN (TransLen(j) - FirstBlock(j)) % BlockSamples
         ELSE SamsInCurrBlock(j, s)

------------------------------------------------------------------------------
(* The state before a job. *)

NoExport == [songs |-> <<0>>, multi |-> FALSE, start |-> 0, end |-> 0, sel |-> {},
          format |-> 1, limit |-> 0, chanmult |-> 1, mixdown |-> FALSE]

ExportInit ==
    /\ exJob = NoExport /\ exPc = "idle" /\ exSong = 0 /\ exSam = 0
    /\ exPart = 0 /\ exPartSam = 0
    /\ exCancel = FALSE /\ exAgreed = FALSE
    /\ exFiles = <<>>

\* Mutant: only files that are not split count.
MutAnyFilesExist(j, files) ==
    \E f \in files : f.track \in j.sel /\ f.part = 0

\* anyfilesexist looks for a file of any selected track, not split or part 1.
AnyFilesExist(j, files) ==
    \E f \in files : f.track \in j.sel /\ f.part \in {0, 1}

\* The user interface asks for split files when a song is over the limit.
Splits(j) ==
    \E i \in 1 .. Len(j.songs) :
      j.limit # 0 /\ j.limit < j.chanmult * IF j.multi THEN j.songs[i] ELSE ExEnd(j) - ExStart(j)

\* The user interface prepares the job.  For all songs it leaves the length
\* of the last one in the job object.  If files are there it asks.
PrepareJob ==
    /\ exPc = "idle"
    /\ \E j \in ExportJobs : \E old \in ExportOld : \E yes \in BOOLEAN :
         /\ exAgreed' = (AnyFilesExist(j, old) /\ yes)
         /\ exPc' = IF AnyFilesExist(j, old) /\ ~yes THEN "done" ELSE "song"
         /\ exJob' = [j EXCEPT !.start = IF j.multi THEN 0 ELSE @,
                               !.end   = IF j.multi THEN j.songs[Len(j.songs)] ELSE @,
                               !.limit = IF Splits(j) THEN @ ELSE 0]
         /\ exFiles' = [f \in old |-> <<OldFile>>]
    /\ exSong' = 1
    /\ UNCHANGED <<exSam, exPart, exPartSam, exCancel>>

\* The files of one part that the tracks `firsts` open, and thereby empty.
Opening(files, part, firsts) ==
    LET new == {[song |-> exSong, track |-> t, part |-> part] : t \in firsts}
    IN  [f \in DOMAIN files \cup new |-> IF f \in new THEN <<>> ELSE files[f]]

\* openoutputfiles.
OpenPart(files, part) == Opening(files, part, GroupFirsts(exJob))

\* Part 1 of a file that is split, or the file.
FirstPart ==
    IF exJob.limit # 0 /\ exJob.songs[exSong] * exJob.chanmult > exJob.limit THEN 1 ELSE 0

\* transfer_to_pc up to its loop.  With a mixdown no file is opened for the
\* first part (dontopenoutputfiles).
StartSong ==
    /\ exPc = "song" /\ ~exCancel
    /\ exPart' = FirstPart
    /\ exFiles' = IF exJob.mixdown THEN exFiles ELSE OpenPart(exFiles, FirstPart)
    /\ exPartSam' = 0 /\ exSam' = 0
    /\ exPc' = IF TransLen(exJob) = 0 THEN "songdone" ELSE "block"
    /\ UNCHANGED <<exJob, exSong, exCancel, exAgreed>>

\* An output file or its directory cannot be made: the files before and after
\* it may have been opened when transfer_to_pc cancels and returns 0.
OpenFails ==
    /\ exPc = "song" /\ ~exCancel /\ ~exJob.mixdown /\ exJob.sel # {}
    /\ \E firsts \in SUBSET GroupFirsts(exJob) :
            exFiles' = Opening(exFiles, FirstPart, firsts)
    /\ exCancel' = TRUE /\ exPc' = "done"
    /\ UNCHANGED <<exJob, exSong, exSam, exPart, exPartSam, exAgreed>>

\* Mutant: the part that is full is counted without the block to come.
MutNewPart(cur) == exJob.limit # 0 /\ exPartSam > exJob.limit

NewPart(cur) == exJob.limit # 0 /\ exPartSam + cur > exJob.limit

\* A turn of the loop that has got the samples buf from the drive.
CopyTurn(buf) ==
    /\ exPc = "block" /\ ~exCancel
    /\ LET cur  == SamsInCurrBlock(exJob, exSam)
           sub  == SubBlock(exJob, exSam)
           skip == exJob.chanmult * ((exSam + ExStart(exJob)) % BlockSamples)
           part == IF NewPart(cur) THEN exPart + 1 ELSE exPart
           open == IF NewPart(cur) THEN OpenPart(exFiles, part) ELSE exFiles
           Grown(f) == open[f] \o Interlaced(buf, GroupOf(exJob, f.track), skip, sub)
       IN  /\ exPart' = part
           /\ exPartSam' = sub + IF NewPart(cur) THEN 0 ELSE exPartSam
           /\ exFiles' = [f \in DOMAIN open |->
                IF ~exJob.mixdown /\ f.song = exSong /\ f.part = part
                   /\ f.track \in GroupFirsts(exJob)
                THEN Grown(f) ELSE open[f]]
           /\ exSam' = exSam + cur
           /\ exPc' = IF exSam' < TransLen(exJob) THEN "block" ELSE "songdone"
    /\ UNCHANGED <<exJob, exSong, exCancel, exAgreed>>

\* It gets the block of its last sample.
CopyBlock ==
    LET last == exSam + ExStart(exJob) + SamsInCurrBlock(exJob, exSam) - 1
        read == BlockRead(BlockOnDrive(exSong, exJob.songs[exSong], exJob.chanmult,
                                       last \div BlockSamples),
                          exJob.sel, exJob.chanmult)
    IN  CopyTurn(IF exJob.chanmult = 2 THEN Deinterlaced(read) ELSE read)

\* When the read goes beyond the buffer, what lies there is lost: it may do no
\* harm (CopyBlock), the samples may be wrong from then on ...
CopyDamaged ==
    /\ Overruns(exJob.sel, exJob.chanmult)
    /\ CopyTurn([o \in BufferSamples |-> Foreign])

\* ... or the program ends, at once or when the buffers are freed.
ReadCrashes ==
    /\ exPc = "block" \/ (exPc = "songdone" /\ exSam > 0)
    /\ Overruns(exJob.sel, exJob.chanmult)
    /\ exPc' = "crashed"
    /\ UNCHANGED <<exJob, exSong, exSam, exPart, exPartSam, exCancel, exAgreed, exFiles>>

\* While a progress message is shown the user may stop the transfer.
StopTransfer ==
    /\ exPc \in {"block", "songdone"} /\ exSam > 0 /\ ~exCancel
    /\ exCancel' = TRUE
    /\ exPc' = "songdone"
    /\ UNCHANGED <<exJob, exSong, exSam, exPart, exPartSam, exAgreed, exFiles>>

\* The files are closed.  The loop over the songs ends with the last one,
\* when the user stopped it or when nothing was transferred.
NextSong ==
    /\ exPc = "songdone"
    /\ LET nothing == exSam = 0 \/ exJob.sel = {}
       IN  /\ exPc' = IF nothing \/ exCancel \/ exSong = Len(exJob.songs)
                      THEN "done" ELSE "song"
           /\ exSong' = IF exPc' = "song" THEN exSong + 1 ELSE exSong
    /\ exSam' = 0
    /\ UNCHANGED <<exJob, exPart, exPartSam, exCancel, exAgreed, exFiles>>

ExportNext ==
    \/ PrepareJob \/ StartSong \/ OpenFails \/ CopyBlock \/ CopyDamaged \/ ReadCrashes
    \/ StopTransfer \/ NextSong

ExportSpec == ExportInit /\ [][ExportNext]_exportVars

------------------------------------------------------------------------------
(* Properties. *)

\* What the file of the group that track t opens should hold of a song: n
\* samples of each of its tracks, from the start of the range on.
Wanted(song, t, n) ==
    LET g == GroupOf(exJob, t)
        c == Cardinality(g)
    IN  [i \in 1 .. n * c |->
           <<song, InGroup(g, ((i - 1) % c) + 1),
             exJob.chanmult * ExStart(exJob) + ((i - 1) \div c)>>]

\* The parts of the file of a group, one after the other.
Exported(song, t) ==
    LET Part(p) == LET f == [song |-> song, track |-> t, part |-> p]
                   IN  IF f \in DOMAIN exFiles /\ exFiles[f] # <<OldFile>>
                       THEN exFiles[f] ELSE <<>>
        Parts[p \in 0 .. exPart] == IF p = 0 THEN Part(0) ELSE Parts[p - 1] \o Part(p)
    IN  Parts[exPart]

\* The transfers that copy the right samples: at least a block long, from the
\* start of the song and from its first track at a high sample rate, with no
\* read beyond the buffer, no more than the song has (all songs are copied in
\* the length of the last one).
Regular(song) ==
    /\ TransLen(exJob) >= BlockSamples
    /\ ~Overruns(exJob.sel, exJob.chanmult)
    /\ exJob.chanmult = 2 => ExStart(exJob) = 0 /\ 0 \in exJob.sel
    /\ ExEnd(exJob) <= exJob.songs[song]

\* A last block that is full is left out, if it is not the only one.
WholeLength ==
    LET len  == TransLen(exJob)
        rest == (len - FirstBlock(exJob)) % BlockSamples
    IN  IF OneBlock(exJob) \/ rest # 0 THEN len ELSE len - BlockSamples

\* Sound files hold the samples that were asked for, in their order, none
\* twice and none missing, over all parts of a split file and in every file
\* of a group; while a transfer runs, and when it was stopped, a beginning of
\* them.  (An earlier transfer's part behind the last one may remain.)
ExportIsExact ==
    \A t \in GroupFirsts(exJob) :
      (exPc \in {"block", "songdone"} /\ ~exJob.mixdown /\ Regular(exSong)) =>
        LET all == Wanted(exSong, t, WholeLength)
            got == Exported(exSong, t)
        IN  /\ Len(got) <= Len(all) /\ got = SubSeq(all, 1, Len(got))
            /\ (exPc = "songdone" /\ ~exCancel) => got = all

\* No part has more samples of a track than the limit, unless it is a block.
PartsKeepLimit ==
    (exPc \in {"block", "songdone"} /\ exJob.limit # 0 /\ TransLen(exJob) >= BlockSamples)
    => exPartSam <= exJob.limit \/ exPartSam <= BlockSamples

\* A file that was there is replaced only if the user agreed, or if it is the
\* second or a later part: those nobody looks for.
NoSilentOverwrite ==
    [][\A f \in DOMAIN exFiles :
         exFiles[f] = <<OldFile>> /\ exFiles'[f] # <<OldFile>> => exAgreed \/ f.part >= 2
      ]_exportVars
=============================================================================
