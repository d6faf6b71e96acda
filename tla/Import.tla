------------------------------ MODULE Import ------------------------------
(***************************************************************************)
(* Copying sound files to the tracks of a song: transfer_to_hd24.          *)
(*                                                                         *)
(* Frame n of the file for track t is <<t + 1, n, c>>, c the channel taken *)
(* from it, 0 for all of them mixed.  The audio that was in the song is    *)
(* <<-1, t, p>>.  The lengthening of the song is module SongAlloc's: here  *)
(* it succeeds or not, and appends silence.                                *)
(***************************************************************************)
EXTENDS AudioBlocks

CONSTANT ImportJobs       \* what the user may ask for

\* A job: the song's length, its samples per wample, the blocks its damaged
\* allocation table places before the audio area, whether there is space to
\* lengthen it; for each track the frames of its file (-1: no file), its
\* channels, whether it can be opened, and the action: 0 erase, 1 time code,
\* 2 mix to mono, from 3 on a channel of the file; and the tracks that are
\* selected for a copy to the computer.
ImportJob ==
    [length : Nat, chanmult : {1, 2}, bad : SUBSET Nat, space : BOOLEAN,
     frames : [SongTracks -> Nat \cup {-1}], channels : [SongTracks -> Nat \ {0}],
     opens : [SongTracks -> BOOLEAN], action : [SongTracks -> Nat],
     selected : SUBSET SongTracks]

ASSUME ImportAssumption ==
    /\ ImportJobs \subseteq ImportJob
    /\ \A j \in ImportJobs : \A t \in SongTracks : j.action[t] < 3 + j.channels[t]

VARIABLES
    imJob,
    imPc,        \* "idle", "open", "lengthen", "block" or "done"
    imWam,       \* wamplenum
    imLength,    \* the song's length
    imArmed,     \* the armed tracks
    imOpen,      \* the tracks whose file is open
    imAt,        \* frames read from each file
    imEof,       \* sfeof
    imRehearse,  \* rehearse mode: no block is written
    imSong,      \* the blocks of the song
    imCancel

importVars == <<imJob, imPc, imWam, imLength, imArmed, imOpen, imAt, imEof,
                imRehearse, imSong, imCancel>>

------------------------------------------------------------------------------
(* A block of the song from the files. *)

HasFile(j, t) == j.frames[t] >= 0
Wamples(j) == BlockSamples \div j.chanmult       \* in a block

\* The sample of the file that action a makes of frame n.
Frame(j, t, n) == <<t + 1, n, IF j.action[t] = 2 THEN 0 ELSE j.action[t] - 2>>

\* sf_read_int: frames of the file of track t that are read for a block.
FramesRead(j, t) ==
    LET left == j.frames[t] - imAt[t]
    IN  IF t \in imEof THEN 0 ELSE IF left < BlockSamples THEN left ELSE BlockSamples

\* The tracks _prepare_audio fills.
Filled(j) == {t \in imArmed : j.action[t] >= 2 /\ t \in imOpen}

\* _generate_silence and _prepare_audio: the i-th frame read for a track goes
\* to its place in the block, silence where there is none.  A time code track
\* is left as calloc made it.
ImportBuffer(j) ==
    [o \in BufferSamples |->
       LET t == o \div BlockSamples
           i == CHOOSE i \in 0 .. BlockSamples - 1 : PlaceOf(j.chanmult, t, i) = o
       IN  IF t \in Filled(j) /\ i < FramesRead(j, t)
           THEN Frame(j, t, imAt[t] + i) ELSE Silence]

------------------------------------------------------------------------------
(* The transfer. *)

\* The song as the constructor finds it.
OldBlocks(j) ==
    [b \in 0 .. BlockCount(j.length, j.chanmult) - 1 |->
       [o \in BufferSamples |->
          LET t == o \div BlockSamples
              i == CHOOSE i \in 0 .. BlockSamples - 1 : PlaceOf(j.chanmult, t, i) = o
          IN  <<-1, t, b * BlockSamples + i>>]]

NoImport == [length |-> 0, chanmult |-> 1, bad |-> {}, space |-> TRUE,
             frames |-> [t \in SongTracks |-> -1], channels |-> [t \in SongTracks |-> 1],
             opens |-> [t \in SongTracks |-> TRUE], action |-> [t \in SongTracks |-> 2],
             selected |-> {}]

ImportInit ==
    /\ imJob = NoImport /\ imPc = "idle" /\ imWam = 0 /\ imLength = 0
    /\ imArmed = {} /\ imOpen = {} /\ imEof = {}
    /\ imAt = [t \in SongTracks |-> 0]
    /\ imRehearse = FALSE /\ imSong = <<>> /\ imCancel = FALSE

\* The user interface arms the tracks that have a file or are to be erased or
\* striped with time code.
PrepareImport ==
    /\ imPc = "idle"
    /\ \E j \in ImportJobs :
         /\ imArmed' = {t \in SongTracks : HasFile(j, t) \/ j.action[t] \in {0, 1}}
         /\ imJob' = j /\ imLength' = j.length /\ imSong' = OldBlocks(j)
    /\ imPc' = IF imArmed' = {} THEN "done" ELSE "open"
    /\ UNCHANGED <<imWam, imOpen, imAt, imEof, imRehearse, imCancel>>

\* openinputfiles goes on when a file does not open, and then gives up; the
\* files it opened stay open.
OpenInputFiles ==
    /\ imPc = "open"
    /\ imOpen' = {t \in SongTracks : HasFile(imJob, t) /\ imJob.opens[t]}
    /\ imPc' = IF \A t \in SongTracks : HasFile(imJob, t) => imJob.opens[t]
               THEN "lengthen" ELSE "done"
    /\ UNCHANGED <<imJob, imWam, imLength, imArmed, imAt, imEof, imRehearse, imSong, imCancel>>

\* Mutant: the last frame of an odd file gets no wample.
MutRequiredLength(j) ==
    GreatestOf({j.length} \cup {j.frames[t] \div j.chanmult : t \in imOpen})

\* requiredsonglength_in_wamples: room for the longest file.
RequiredLength(j) ==
    GreatestOf({j.length} \cup {(j.frames[t] + j.chanmult - 1) \div j.chanmult : t \in imOpen})

\* closeinputfiles looks at the tracks of the other direction's selection.
StillOpen == imOpen \ imJob.selected

\* _lengthen_song_as_needed; nothing to transfer, or no space: closed again.
LengthenSong ==
    /\ imPc = "lengthen"
    /\ LET len    == RequiredLength(imJob)
           enough == len = imJob.length \/ imJob.space
       IN  IF len = 0 \/ ~enough
           THEN imPc' = "done" /\ imOpen' = StillOpen /\ UNCHANGED <<imLength, imSong>>
           ELSE /\ imLength' = len /\ imPc' = "block"
                /\ imSong' = [b \in 0 .. BlockCount(len, imJob.chanmult) - 1 |->
                     IF b \in DOMAIN imSong THEN imSong[b] ELSE [o \in BufferSamples |-> Silence]]
                /\ UNCHANGED imOpen
    /\ UNCHANGED <<imJob, imWam, imArmed, imAt, imEof, imRehearse, imCancel>>

\* Mutant: only the block itself is not written.
MutRehearsing(b) == b \in imJob.bad

\* putmtrackaudiodata leaves write mode for good when a block of the song is
\* said to be outside the audio area.
Rehearsing(b) == imRehearse \/ b \in imJob.bad

\* A turn of the loop: a whole block, whatever is left of the song.
ImportBlock ==
    /\ imPc = "block" /\ ~imCancel /\ imWam < imLength
    /\ LET b == imWam \div Wamples(imJob)
       IN  /\ imRehearse' = Rehearsing(b)
           /\ imSong' = IF imRehearse' THEN imSong
                        ELSE [imSong EXCEPT ![b] = BlockWritten(@, ImportBuffer(imJob), imArmed)]
    /\ imAt' = [t \in SongTracks |->
                  imAt[t] + IF t \in Filled(imJob) THEN FramesRead(imJob, t) ELSE 0]
    /\ imEof' = imEof \cup {t \in Filled(imJob) : FramesRead(imJob, t) < BlockSamples}
    /\ imWam' = imWam + Wamples(imJob)
    /\ UNCHANGED <<imJob, imPc, imLength, imArmed, imOpen, imCancel>>

\* While a progress message is shown the user may stop the transfer.
StopImport ==
    /\ imPc = "block" /\ imWam > 0 /\ ~imCancel
    /\ imCancel' = TRUE
    /\ UNCHANGED <<imJob, imPc, imWam, imLength, imArmed, imOpen, imAt, imEof,
                   imRehearse, imSong>>

EndImport ==
    /\ imPc = "block" /\ (imCancel \/ imWam >= imLength)
    /\ imPc' = "done" /\ imArmed' = {}
    /\ imOpen' = StillOpen
    /\ UNCHANGED <<imJob, imWam, imLength, imAt, imEof, imRehearse, imSong, imCancel>>

ImportNext ==
    \/ PrepareImport \/ OpenInputFiles \/ LengthenSong \/ ImportBlock \/ StopImport \/ EndImport

ImportSpec == ImportInit /\ [][ImportNext]_importVars

------------------------------------------------------------------------------
(* Properties. *)

\* The tracks a job is about.
Chosen(j) == {t \in SongTracks : HasFile(j, t) \/ j.action[t] \in {0, 1}}

\* Sample p of track t before the transfer; a lengthened song ends in silence.
Before(t, p) ==
    IF p < BlockCount(imJob.length, imJob.chanmult) * BlockSamples
    THEN <<-1, t, p>> ELSE Silence

\* What the job makes of it: the frame of the file, silence behind its end and
\* on a track to be erased (and striped: the time code is not generated).
After(t, p) ==
    IF imJob.action[t] >= 2 /\ p < imJob.frames[t] THEN Frame(imJob, t, p) ELSE Silence

Stored(t, p) == imSong[p \div BlockSamples][PlaceOf(imJob.chanmult, t, p)]
SongSamples == {b * BlockSamples + i : b \in DOMAIN imSong, i \in 0 .. BlockSamples - 1}

\* The song has room for the last frame of every file.  As far as the transfer
\* has come every chosen track is what the job asks for, sample by sample; the
\* other tracks, and all it has not reached, are as they were.  (Jobs on a
\* damaged allocation table are left to the next property.)
ImportIsExact ==
    imPc \in {"block", "done"} /\ imJob.bad = {} =>
      /\ imPc = "block" =>
           \A t \in imOpen : imJob.frames[t] <= imLength * imJob.chanmult
      /\ \A t \in SongTracks : \A p \in SongSamples :
           Stored(t, p) = IF t \in Chosen(imJob) /\ p < imWam * imJob.chanmult
                          THEN After(t, p) ELSE Before(t, p)

\* Once a block of the song is found to be outside the audio area, nothing is
\* written to it or to any block behind it.
NothingWrittenBehindBadBlock ==
    \A t \in SongTracks : \A p \in SongSamples :
      (\E d \in imJob.bad : d <= p \div BlockSamples) => Stored(t, p) = Before(t, p)
=============================================================================
