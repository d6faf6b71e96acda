---------------------------- MODULE AudioBlocks ----------------------------
(***************************************************************************)
(* The audio blocks of a song as transfers read and write them.  A block   *)
(* holds BlockSamples samples of each track of a song, one track after the *)
(* other.  At a high sample rate a track of the song is two tracks of the  *)
(* block: its even samples, then its odd ones.  Two samples are one wample *)
(* then (chanmult is 2), and offsets and lengths of songs are in wamples.  *)
(***************************************************************************)
EXTENDS Integers

CONSTANTS
    BlockTracks,   \* logical tracks of a song (up to 24)
    BlockSamples   \* samples of a track in an audio block (even)

ASSUME BlocksAssumption ==
    /\ BlockTracks \in Nat \ {0}
    /\ BlockSamples \in Nat \ {0} /\ BlockSamples % 2 = 0

SongTracks == 0 .. BlockTracks - 1
BufferSamples == 0 .. BlockTracks * BlockSamples - 1

Silence == <<0, 0, 0>>      \* also what a buffer from calloc holds
Foreign == <<0, 0, 1>>      \* what lies behind a buffer or a song

LeastOf(s) == CHOOSE x \in s : \A y \in s : x <= y
GreatestOf(s) == CHOOSE x \in s : \A y \in s : y <= x

\* The audio blocks of a song of len wamples.
BlockCount(len, chanmult) == (len * chanmult + BlockSamples - 1) \div BlockSamples

\* The place of sample p of track t in its block.
PlaceOf(chanmult, t, p) ==
    LET r == p % BlockSamples
    IN  t * BlockSamples +
          IF chanmult = 1 THEN r ELSE (r \div 2) + (r % 2) * (BlockSamples \div 2)

------------------------------------------------------------------------------
(* Reading. *)

\* getmtrackaudiodata reads the range of the read enabled tracks only, from
\* the first on; it counts the tracks before it twice when chanmult is 2.
FirstRead(sel, chanmult) ==
    IF sel = {} THEN 0 ELSE chanmult * LeastOf(sel) * BlockSamples
SamplesRead(sel, chanmult) ==
    IF sel = {} THEN (chanmult * 23 + 1) * BlockSamples
    ELSE (chanmult * (GreatestOf(sel) - LeastOf(sel)) + 1) * BlockSamples

\* The caller's buffer holds a block.  At a high sample rate, or with no track
\* enabled, what is read may be more, and is written behind the buffer.
Overruns(sel, chanmult) ==
    FirstRead(sel, chanmult) + SamplesRead(sel, chanmult) > BlockTracks * BlockSamples

\* The caller's buffer after it: `block` is the block on the drive.
BlockRead(block, sel, chanmult) ==
    LET from == FirstRead(sel, chanmult)
    IN  [o \in BufferSamples |->
           IF o \in from .. from + SamplesRead(sel, chanmult) - 1 THEN block[o] ELSE Silence]

\* deinterlaceblock: the samples of the two halves of a track, in turn.
Deinterlaced(buf) ==
    [o \in BufferSamples |->
       LET r == o % BlockSamples
       IN  buf[o - r + (r \div 2) + IF r % 2 = 0 THEN 0 ELSE BlockSamples \div 2]]

\* The n samples of a track behind the first `skip` of a block.
FromBuffer(buf, track, skip, n) ==
    [i \in 1 .. n |->
       LET o == track * BlockSamples + skip + i - 1
       IN  IF o \in BufferSamples THEN buf[o] ELSE Foreign]

------------------------------------------------------------------------------
(* Writing. *)

\* putmtrackaudiodata replaces the armed tracks of a block.
BlockWritten(block, buf, armed) ==
    [o \in BufferSamples |-> IF o \div BlockSamples \in armed THEN buf[o] ELSE block[o]]
=============================================================================
