------------------------------ MODULE SoundFile ------------------------------
(***************************************************************************)
(* A sound file that the program writes itself (hd24sndfile): mono WAV and *)
(* AIF files, which do not go through libsndfile.  The header is written   *)
(* with empty sizes and filled in when the file is closed.  Nothing looks  *)
(* at the stream's error state.                                            *)
(*                                                                         *)
(* Byte b of sample i is <<i, b>>, 0 the lowest: the drive's order.        *)
(***************************************************************************)
EXTENDS Integers, Sequences

CONSTANTS
    SizeLimit,       \* the sizes in a header are taken modulo this (2^32)
    WriteSizes,      \* samples that a write may have
    MaxSamples       \* bound on the samples of a file

ASSUME SoundFileAssumption ==
    SizeLimit \in Nat \ {0} /\ WriteSizes \subseteq Nat \ {0} /\ MaxSamples \in Nat

Formats == {"wav", "aif"}
SampleBytes == 3

VARIABLES
    sfFormat,    \* the file's format
    sfPc,        \* "new", "open", "closed" or "stopped"
    sfGood,      \* the stream works
    sfHeader,    \* the header's sizes; -1: no header in the file
    sfBytes,     \* the bytes behind the header
    sfGiven      \* samples handed to writerawbuf

sndVars == <<sfFormat, sfPc, sfGood, sfHeader, sfBytes, sfGiven>>

HeaderBytes == IF sfFormat = "wav" THEN 44 ELSE 54
EmptyHeader == [form |-> 0, data |-> 0, frames |-> 0]
NoHeader == [form |-> -1, data |-> -1, frames |-> -1]

SndInit ==
    /\ sfFormat \in Formats /\ sfPc = "new" /\ sfGood = TRUE
    /\ sfHeader = NoHeader /\ sfBytes = <<>> /\ sfGiven = 0

\* open empties the file and writes the header; that it failed shows only in
\* the stream, and the handle that callers test is there all the same.
OpenFile(works) ==
    /\ sfPc = "new" /\ sfPc' = "open" /\ sfGood' = works
    /\ sfHeader' = IF works THEN EmptyHeader ELSE NoHeader
    /\ UNCHANGED <<sfFormat, sfBytes, sfGiven>>

\* The bytes of the next n samples as the caller has them.
Buffer(n) == [k \in 1 .. SampleBytes * n |->
                <<sfGiven + (k - 1) \div SampleBytes, (k - 1) % SampleBytes>>]

\* For AIF the first and the last byte of each sample change places.
Swapped(buf) ==
    [k \in DOMAIN buf |->
       CASE (k - 1) % SampleBytes = 0 -> buf[k + 2]
         [] (k - 1) % SampleBytes = 2 -> buf[k - 2]
         [] OTHER -> buf[k]]

\* writerawbuf.  All bytes are written, or with a full disk k of them, and
\* the stream is bad from then on.
WriteRaw(n) ==
    /\ sfPc = "open" /\ sfGiven + n <= MaxSamples
    /\ LET buf == IF sfFormat = "aif" THEN Swapped(Buffer(n)) ELSE Buffer(n)
       IN  \/ sfGood /\ sfBytes' = sfBytes \o buf /\ UNCHANGED sfGood
           \/ /\ sfGood /\ sfGood' = FALSE
              /\ \E k \in 0 .. Len(buf) - 1 : sfBytes' = sfBytes \o SubSeq(buf, 1, k)
           \/ ~sfGood /\ UNCHANGED <<sfBytes, sfGood>>
    /\ sfGiven' = sfGiven + n
    /\ UNCHANGED <<sfFormat, sfPc, sfHeader>>

\* Mutant: the byte for alignment is counted.
MutSizes(pos) ==
    IF sfFormat = "wav"
    THEN LET end == pos + (pos % 2)
         IN  [form |-> (end - 8) % SizeLimit, data |-> (end - 44) % SizeLimit, frames |-> 0]
    ELSE [form |-> (pos - 8) % SizeLimit, data |-> (pos - 46) % SizeLimit,
          frames |-> ((pos - 46 - 8) \div SampleBytes) % SizeLimit]

\* What close puts in the header of a file of pos bytes.
Sizes(pos) ==
    IF sfFormat = "wav"
    THEN [form |-> (pos - 8) % SizeLimit, data |-> (pos - 44) % SizeLimit, frames |-> 0]
    ELSE [form |-> (pos - 8) % SizeLimit, data |-> (pos - 46) % SizeLimit,
          frames |-> ((pos - 46 - 8) \div SampleBytes) % SizeLimit]

\* close.  In a WAV file a byte is added to an odd number of bytes.  On a bad
\* stream every write is ignored.
CloseFile ==
    /\ sfPc = "open" /\ sfPc' = "closed"
    /\ LET pos == HeaderBytes + Len(sfBytes)
       IN  /\ sfHeader' = IF sfGood THEN Sizes(pos) ELSE sfHeader
           /\ sfBytes' = IF sfGood /\ sfFormat = "wav" /\ pos % 2 = 1
                         THEN Append(sfBytes, <<-1, 0>>) ELSE sfBytes
    /\ UNCHANGED <<sfFormat, sfGood, sfGiven>>

\* The program stops while the file is open.
StopFile ==
    /\ sfPc = "open" /\ sfPc' = "stopped"
    /\ UNCHANGED <<sfFormat, sfGood, sfHeader, sfBytes, sfGiven>>

SndNext ==
    \/ \E works \in BOOLEAN : OpenFile(works)
    \/ \E n \in WriteSizes : WriteRaw(n)
    \/ CloseFile \/ StopFile

SndSpec == SndInit /\ [][SndNext]_sndVars

------------------------------------------------------------------------------
(* Properties. *)

\* Byte k of a file of whole samples: AIF files have the highest byte first.
ByteOf(k) ==
    LET b == (k - 1) % SampleBytes
    IN  <<(k - 1) \div SampleBytes, IF sfFormat = "aif" THEN SampleBytes - 1 - b ELSE b>>

\* A sound file never says that it has samples it does not have.  If all went
\* well its header counts exactly the samples that were given, unless they
\* are more than a header can count; they stand in the format's byte order,
\* and a WAV file ends on a word.  A file that was cut short (the disk was
\* full, the program stopped) says it has none.
HeaderIsHonest ==
    LET given == SampleBytes * sfGiven
        whole == sfPc = "closed" /\ sfGood
    IN  /\ \A k \in 1 .. Len(sfBytes) : k <= given => sfBytes[k] = ByteOf(k)
        /\ ~whole => sfHeader \in {EmptyHeader, NoHeader}
        /\ (whole /\ HeaderBytes + given - 8 < SizeLimit) =>
             /\ sfHeader.form = HeaderBytes + given - 8
             /\ sfFormat = "wav" => /\ sfHeader.data = given /\ Len(sfBytes) - given \in {0, 1}
                                    /\ (HeaderBytes + Len(sfBytes)) % 2 = 0
             /\ sfFormat = "aif" => /\ sfHeader.data = 8 + given /\ Len(sfBytes) = given
                                    /\ sfHeader.frames = sfGiven
=============================================================================
