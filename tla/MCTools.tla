------------------------------ MODULE MCTools ------------------------------
(***************************************************************************)
(* One use of one part of the program outside its editing of songs: a      *)
(* smart image, a copy of songs to or from the computer, the recovery of   *)
(* lost clusters, a scan of the devices, a copy of a drive, a format of a  *)
(* drive of another size, a sound file.                                    *)
(***************************************************************************)
EXTENDS DriveImage, Export, Import, Recovery, DriveScan, DriveCopy, Geometry, SoundFile

VARIABLE tool     \* the part that is in use

Init ==
    /\ tool \in {"image", "export", "import", "recovery", "scan", "copy", "geometry", "sound"}
    /\ ImageInit /\ ExportInit /\ ImportInit /\ RecoveryInit
    /\ ScanInit /\ CopyInit /\ GeometryInit /\ SndInit
    /\ tool # "sound" => sfFormat = "wav"

Next ==
    /\ UNCHANGED tool
    /\ \/ /\ tool = "image" /\ ImageNext
          /\ UNCHANGED <<exportVars, importVars, recVars, scanVars, copyVars, geoVars, sndVars>>
       \/ /\ tool = "export" /\ ExportNext
          /\ UNCHANGED <<imageVars, importVars, recVars, scanVars, copyVars, geoVars, sndVars>>
       \/ /\ tool = "import" /\ ImportNext
          /\ UNCHANGED <<imageVars, exportVars, recVars, scanVars, copyVars, geoVars, sndVars>>
       \/ /\ tool = "recovery" /\ RecoveryNext
          /\ UNCHANGED <<imageVars, exportVars, importVars, scanVars, copyVars, geoVars, sndVars>>
       \/ /\ tool = "scan" /\ ScanNext
          /\ UNCHANGED <<imageVars, exportVars, importVars, recVars, copyVars, geoVars, sndVars>>
       \/ /\ tool = "copy" /\ CopyNext
          /\ UNCHANGED <<imageVars, exportVars, importVars, recVars, scanVars, geoVars, sndVars>>
       \/ /\ tool = "geometry" /\ GeometryNext
          /\ UNCHANGED <<imageVars, exportVars, importVars, recVars, scanVars, copyVars, sndVars>>
       \/ /\ tool = "sound" /\ SndNext
          /\ UNCHANGED <<imageVars, exportVars, importVars, recVars, scanVars, copyVars, geoVars>>

vars == <<tool, imageVars, exportVars, importVars, recVars, scanVars, copyVars, geoVars, sndVars>>

Spec == Init /\ [][Next]_vars

------------------------------------------------------------------------------
(* Instances. *)

\* One song, from one place to another, in files of one, two or all tracks,
\* split or not, at both sample rates; or all songs.  At the high one the reads
\* for tracks 0 and 2 go beyond a buffer of three tracks, those for 0 and 1
\* just fill it.
Jobs(songs, multis, starts, ends, sels, formats, mixes) ==
    [songs : songs, multi : multis, start : starts, end : ends, sel : sels,
     format : formats, limit : {0, 5, 8}, chanmult : {1, 2}, mixdown : mixes]
MCExportJobs ==
    Jobs({<<10>>}, {FALSE}, {0, 3, 4, 9}, {4, 5, 8, 9, 10}, {{0, 1}, {0, 2}}, {1, 2}, {FALSE})
    \cup Jobs({<<10>>}, {FALSE}, {0}, {4, 9, 10}, {{}, {1, 2}, {0, 1, 2}}, {0}, {TRUE, FALSE})
    \cup Jobs({<<9, 5>>, <<5, 9>>, <<4, 0>>}, {TRUE}, {0}, {0}, {{0, 2}}, {1}, {FALSE})

MCExportOld ==
    {{}} \cup {{[song |-> 1, track |-> 0, part |-> p] : p \in q} : q \in {{0}, {1, 2}, {2}}}

\* Files of any length against the song's, for three tracks: one from a file
\* that can be opened, one from a file that may not, one without a file.
PerTrack(x, y, z) == [t \in SongTracks |-> <<x, y, z>>[t + 1]]
MCImportJobs ==
    {[length |-> l, chanmult |-> c, bad |-> b, space |-> s, frames |-> PerTrack(x, y, -1),
      channels |-> PerTrack(1, 2, 1), opens |-> PerTrack(TRUE, o, TRUE),
      action |-> PerTrack(2, a, e), selected |-> {0}] :
       l \in {0, 3, 6}, c \in {1, 2}, b \in {{}, {1}}, s \in BOOLEAN, x \in {0, 4, 5, 9},
       y \in {-1, 3, 8}, o \in BOOLEAN, a \in {0, 1, 2, 4}, e \in {0, 1, 2}}

\* Recordings of several extents, with a last cluster used in part.
Extent(c, b) == [cluster |-> c, blocks |-> b]
MCRecTables ==
    {<<Extent(0, 2), Extent(2, 2), Extent(4, 3)>>,
     <<Extent(1, 2), Extent(3, 2), Extent(7, 2), Extent(6, 1)>>,
     <<Extent(6, 1)>>, <<Extent(5, 3), Extent(8, 1)>>}

\* The first drive with room for a block, those about the size at which the
\* blocks are as many as the bits, and about twice that.
MCLastSectors == 17 .. 22 \cup 29 .. 31 \cup 40 .. 55
=============================================================================
