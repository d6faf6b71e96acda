--------------------------- MODULE TransferProofs ---------------------------
(***************************************************************************)
(* Proofs about the transfers of audio, Export and Import, for songs,      *)
(* files, groups of tracks, parts and blocks of any size and jobs of every *)
(* kind; and about SoundFile, for files of any length and writes of any    *)
(* size, wherever the disk fills up.                                       *)
(***************************************************************************)
EXTENDS Export, Import, SoundFile, FiniteSetTheorems, SequenceTheorems,
        WellFoundedInduction, TLAPS

------------------------------------------------------------------------------
(* Division, and the samples of a block. *)

LEMMA QuotientAndRemainder ==
    ASSUME NEW s \in Int, NEW c \in Nat \ {0}
    PROVE  s \div c \in Int /\ s % c \in 0 .. c - 1 /\ s = (s \div c) * c + (s % c)
BY SMT

LEMMA QuotientIs ==
    ASSUME NEW q \in Int, NEW c \in Nat \ {0}, NEW r \in 0 .. c - 1
    PROVE  (q * c + r) \div c = q /\ (q * c + r) % c = r
BY SMT

LEMMA ProductIsNat == \A a, b \in Nat : a * b \in Nat
BY SMT

LEMMA ProductsGrow ==
    ASSUME NEW a \in Nat, NEW b \in Nat, NEW c \in Nat, a <= b
    PROVE  a * c <= b * c
BY SMT

LEMMA NextProduct ==
    ASSUME NEW a \in Int, NEW c \in Int
    PROVE  (a + 1) * c = a * c + c /\ (a - 1) * c = a * c - c
BY SMT

\* A number below a product has a quotient below the other factor.
LEMMA QuotientBelow ==
    ASSUME NEW s \in Nat, NEW n \in Nat, NEW c \in Nat \ {0}, s < n * c
    PROVE  s \div c \in 0 .. n - 1
<1>1. /\ s \div c \in Int /\ s % c \in 0 .. c - 1 /\ s = (s \div c) * c + (s % c)
  BY QuotientAndRemainder
<1>2. PICK q \in Int : q = s \div c
  BY <1>1
<1>3. q >= 0
  <2> SUFFICES ASSUME q + 1 <= 0 PROVE FALSE
    BY <1>2
  <2>1. (q + 1) * c <= 0 /\ (q + 1) * c = q * c + c
    BY <1>2, SMT
  <2> QED BY <1>1, <1>2, <2>1
<1>4. q < n
  <2> SUFFICES ASSUME n <= q PROVE FALSE
    BY <1>2
  <2>1. n * c <= q * c
    BY <1>3, ProductsGrow
  <2> QED BY <1>1, <1>2, <2>1
<1> QED BY <1>2, <1>3, <1>4

LEMMA BlockSize == BlockSamples \in Nat \ {0} /\ BlockTracks \in Nat \ {0}
BY BlocksAssumption

\* Half a block: high sample rates share a track of the block in two.
LEMMA HalfBlock ==
    /\ BlockSamples \div 2 \in Nat \ {0} /\ BlockSamples = 2 * (BlockSamples \div 2)
BY BlocksAssumption

LEMMA BlockOfSample ==
    ASSUME NEW s \in Nat
    PROVE  /\ s \div BlockSamples \in Nat /\ s % BlockSamples \in 0 .. BlockSamples - 1
           /\ s = (s \div BlockSamples) * BlockSamples + (s % BlockSamples)
<1>1. /\ s \div BlockSamples \in Int /\ s % BlockSamples \in 0 .. BlockSamples - 1
      /\ s = (s \div BlockSamples) * BlockSamples + (s % BlockSamples)
  BY BlockSize, QuotientAndRemainder
<1>2. s \div BlockSamples \in Nat
  <2>1. s < (s + 1) * BlockSamples
    <3>1. (s + 1) * 1 <= (s + 1) * BlockSamples
      BY BlockSize, SMT
    <3> QED BY <3>1, BlockSize, SMT
  <2>2. s \div BlockSamples \in 0 .. (s + 1) - 1
    BY <2>1, BlockSize, QuotientBelow
  <2> QED BY <2>2
<1> QED BY <1>1, <1>2

\* Sample r of track t stands in the buffer.
LEMMA PlaceInBuffer ==
    ASSUME NEW t \in SongTracks, NEW r \in 0 .. BlockSamples - 1
    PROVE  /\ t * BlockSamples + r \in BufferSamples
           /\ (t * BlockSamples + r) \div BlockSamples = t
           /\ (t * BlockSamples + r) % BlockSamples = r
<1>1. t \in Nat /\ t + 1 <= BlockTracks /\ BlockTracks \in Nat /\ BlockSamples \in Nat \ {0}
  BY BlockSize DEF SongTracks
<1>2. (t + 1) * BlockSamples <= BlockTracks * BlockSamples
  BY <1>1, ProductsGrow
<1>3. (t + 1) * BlockSamples = t * BlockSamples + BlockSamples /\ t * BlockSamples \in Nat
      /\ BlockTracks * BlockSamples \in Nat
  BY <1>1, NextProduct, ProductIsNat
<1>4. t * BlockSamples + r \in BufferSamples
  BY <1>1, <1>2, <1>3 DEF BufferSamples
<1> QED BY <1>1, <1>4, QuotientIs

\* Every place of the buffer is a sample's of a track.
LEMMA TrackOfPlace ==
    ASSUME NEW o \in BufferSamples
    PROVE  /\ o \in Nat /\ o \div BlockSamples \in SongTracks
           /\ o % BlockSamples \in 0 .. BlockSamples - 1
           /\ o = (o \div BlockSamples) * BlockSamples + (o % BlockSamples)
<1>1. BlockTracks * BlockSamples \in Nat /\ BlockTracks \in Nat /\ BlockSamples \in Nat \ {0}
  BY BlockSize, ProductIsNat
<1>2. o \in Nat /\ o < BlockTracks * BlockSamples
  BY <1>1 DEF BufferSamples
<1>3. o \div BlockSamples \in 0 .. BlockTracks - 1
  BY <1>1, <1>2, QuotientBelow
<1> QED BY <1>2, <1>3, BlockOfSample DEF SongTracks

\* Every set of natural numbers has a least one, as strict inclusion orders
\* the finite sets 0 .. n well.
LEMMA LeastNumber ==
    ASSUME NEW S \in SUBSET Nat, S # {}
    PROVE  \E x \in S : \A y \in S : x <= y
<1> DEFINE Upto == {0 .. n : n \in S}
<1>1. \A n \in Nat : IsFiniteSet(0 .. n) /\ 0 .. n \subseteq Nat
  BY FS_Interval
<1>2. Upto \subseteq FiniteSubsetsOf(Nat) /\ Upto # {}
  BY <1>1 DEF FiniteSubsetsOf
<1>3. PICK X \in Upto : \A Y \in Upto : <<Y, X>> \notin StrictSubsetOrdering(Nat)
  <2> HIDE DEF Upto
  <2> QED BY <1>2, FS_StrictSubsetOrderingWellFounded, WFMin, Zenon
<1>4. PICK x \in S : X = 0 .. x
  BY <1>3
<1>5. ASSUME NEW y \in S, y < x PROVE FALSE
  <2>1. 0 .. y \in Upto /\ 0 .. y \in SUBSET Nat /\ X \in SUBSET Nat
    BY <1>1, <1>4
  <2>2. x \in X /\ x \notin 0 .. y /\ 0 .. y \subseteq X
    BY <1>4, <1>5
  <2>3. <<0 .. y, X>> \in StrictSubsetOrdering(Nat)
    BY <2>1, <2>2 DEF StrictSubsetOrdering
  <2> QED BY <2>1, <2>3, <1>3
<1> QED BY <1>4, <1>5

------------------------------------------------------------------------------
(* Copying to the computer: what the blocks of a transfer hold.  No sample  *)
(* is what stands for the contents of a file that was there before.         *)

ExSamples == (Nat \X Nat \X Nat) \ {OldFile}

LEMMA BlockOnDriveType ==
    ASSUME NEW song \in Nat \ {0}, NEW len \in Nat, NEW chanmult \in {1, 2}, NEW b \in Nat
    PROVE  BlockOnDrive(song, len, chanmult, b) \in [BufferSamples -> ExSamples]
<1> DEFINE half == BlockSamples \div 2
           At(o) == LET r == o % BlockSamples
                    IN  IF chanmult = 1 THEN r ELSE IF r < half THEN 2 * r ELSE 2 * (r - half) + 1
           block == BlockOnDrive(song, len, chanmult, b)
<1>1. block = [o \in BufferSamples |->
                 IF b < BlockCount(len, chanmult)
                 THEN <<song, o \div BlockSamples, b * BlockSamples + At(o)>> ELSE Foreign]
  BY DEF BlockOnDrive
<1>2. ASSUME NEW o \in BufferSamples
      PROVE  block[o] \in ExSamples
  <2>1. half \in Nat /\ o % BlockSamples \in Nat /\ o \div BlockSamples \in Nat
    BY HalfBlock, BlockSize, TrackOfPlace DEF SongTracks
  <2>2. At(o) \in Nat /\ b * BlockSamples \in Nat
    <3>1. At(o) \in Nat
      <4> HIDE DEF half
      <4> QED BY <2>1
    <3> QED BY <3>1, BlockSize, ProductIsNat
  <2>3. block[o] = IF b < BlockCount(len, chanmult)
                   THEN <<song, o \div BlockSamples, b * BlockSamples + At(o)>> ELSE Foreign
    BY <1>1
  <2> HIDE DEF At, block
  <2> QED BY <2>1, <2>2, <2>3 DEF ExSamples, OldFile, Foreign
<1>3. block = [o \in BufferSamples |-> block[o]]
  <2> HIDE DEF At
  <2> QED BY <1>1
<1> HIDE DEF block
<1>4. block \in [BufferSamples -> ExSamples]
  BY <1>2, <1>3
<1> QED BY <1>4 DEF block

LEMMA BlockReadType ==
    ASSUME NEW block \in [BufferSamples -> ExSamples], NEW sel, NEW chanmult
    PROVE  BlockRead(block, sel, chanmult) \in [BufferSamples -> ExSamples]
BY DEF BlockRead, ExSamples, OldFile, Silence

\* deinterlaceblock takes each sample from the same track.
LEMMA DeinterlacedPlace ==
    ASSUME NEW t \in SongTracks, NEW r \in 0 .. BlockSamples - 1
    PROVE  LET at == (r \div 2) + IF r % 2 = 0 THEN 0 ELSE BlockSamples \div 2
           IN  /\ at \in 0 .. BlockSamples - 1
               /\ \A buf : Deinterlaced(buf)[t * BlockSamples + r] = buf[t * BlockSamples + at]
<1> DEFINE half == BlockSamples \div 2
           at == (r \div 2) + IF r % 2 = 0 THEN 0 ELSE half
           o == t * BlockSamples + r
<1>1. half \in Nat /\ BlockSamples = 2 * half
  BY HalfBlock
<1>2. at \in 0 .. BlockSamples - 1
  <2> HIDE DEF half
  <2> QED BY <1>1
<1>3. o \in BufferSamples /\ o % BlockSamples = r /\ t * BlockSamples \in Nat
  <2>1. o \in BufferSamples /\ o % BlockSamples = r
    BY PlaceInBuffer, Zenon
  <2>2. t * BlockSamples \in Nat
    BY ProductIsNat, BlockSize DEF SongTracks
  <2> QED BY <2>1, <2>2
<1>4. ASSUME NEW buf
      PROVE  Deinterlaced(buf)[o] = buf[t * BlockSamples + at]
  <2>1. Deinterlaced(buf)[o] = buf[o - r + (r \div 2) + IF r % 2 = 0 THEN 0 ELSE half]
    <3> HIDE DEF o, half
    <3> QED BY <1>3 DEF Deinterlaced, half
  <2>2. o - r + (r \div 2) + (IF r % 2 = 0 THEN 0 ELSE half) = t * BlockSamples + at
    <3>1. PICK base \in Nat : base = t * BlockSamples
      BY <1>3
    <3> HIDE DEF half
    <3> QED BY <1>1, <3>1
  <2> QED BY <2>1, <2>2
<1> QED BY <1>2, <1>4

LEMMA DeinterlacedType ==
    ASSUME NEW buf \in [BufferSamples -> ExSamples]
    PROVE  Deinterlaced(buf) \in [BufferSamples -> ExSamples]
<1>1. Deinterlaced(buf) = [o \in BufferSamples |-> Deinterlaced(buf)[o]]
  BY DEF Deinterlaced
<1>2. ASSUME NEW o \in BufferSamples
      PROVE  Deinterlaced(buf)[o] \in ExSamples
  <2>1. PICK t \in SongTracks, r \in 0 .. BlockSamples - 1 : o = t * BlockSamples + r
    BY TrackOfPlace
  <2>2. PICK at \in 0 .. BlockSamples - 1 : Deinterlaced(buf)[o] = buf[t * BlockSamples + at]
    BY <2>1, DeinterlacedPlace
  <2>3. t * BlockSamples + at \in BufferSamples
    BY PlaceInBuffer
  <2> QED BY <2>2, <2>3
<1> QED BY <1>1, <1>2

\* What is read for a turn of the loop, as CopyBlock has it.
TurnBuffer(song, len, chanmult, sel, b) ==
    LET read == BlockRead(BlockOnDrive(song, len, chanmult, b), sel, chanmult)
    IN  IF chanmult = 2 THEN Deinterlaced(read) ELSE read

LEMMA TurnBufferType ==
    ASSUME NEW song \in Nat \ {0}, NEW len \in Nat, NEW chanmult \in {1, 2}, NEW sel, NEW b \in Nat
    PROVE  TurnBuffer(song, len, chanmult, sel, b) \in [BufferSamples -> ExSamples]
<1>1. BlockRead(BlockOnDrive(song, len, chanmult, b), sel, chanmult)
        \in [BufferSamples -> ExSamples]
  BY BlockOnDriveType, BlockReadType
<1> QED BY <1>1, DeinterlacedType DEF TurnBuffer

LEMMA FromBufferType ==
    ASSUME NEW buf \in [BufferSamples -> ExSamples], NEW track, NEW skip, NEW n \in Nat
    PROVE  FromBuffer(buf, track, skip, n) \in [1 .. n -> ExSamples]
BY DEF FromBuffer, ExSamples, OldFile, Foreign

\* Sample i of a file of c channels is of channel (i - 1) % c + 1 and of time
\* (i - 1) \div c.
LEMMA ChannelAndTime ==
    ASSUME NEW n \in Nat, NEW c \in Nat, NEW i \in 1 .. n * c
    PROVE  /\ c # 0 /\ n * c \in Nat /\ (i - 1) % c \in 0 .. c - 1 /\ (i - 1) \div c \in 0 .. n - 1
<1>1. n * c \in Nat
  BY ProductIsNat
<1>2. c # 0
  BY <1>1
<1>3. i - 1 \in Nat /\ i - 1 < n * c
  BY <1>1
<1>4. (i - 1) % c \in 0 .. c - 1
  BY <1>2, <1>3, QuotientAndRemainder
<1>5. (i - 1) \div c \in 0 .. n - 1
  BY <1>2, <1>3, QuotientBelow
<1> QED BY <1>1, <1>2, <1>4, <1>5

LEMMA InterlacedType ==
    ASSUME NEW buf \in [BufferSamples -> ExSamples], NEW g, IsFiniteSet(g),
           NEW skip, NEW n \in Nat
    PROVE  /\ Interlaced(buf, g, skip, n) \in Seq(ExSamples)
           /\ Len(Interlaced(buf, g, skip, n)) = n * Cardinality(g)
<1>1. PICK c \in Nat : c = Cardinality(g)
  BY FS_CardinalityType
<1>2. n * c \in Nat
  BY ProductIsNat
<1> DEFINE El(i) == FromBuffer(buf, InGroup(g, ((i - 1) % c) + 1), skip, n)[((i - 1) \div c) + 1]
<1>3. Interlaced(buf, g, skip, n) = [i \in 1 .. n * c |-> El(i)]
  BY <1>1 DEF Interlaced
<1>4. ASSUME NEW i \in 1 .. n * c
      PROVE  El(i) \in ExSamples
  <2>1. ((i - 1) \div c) + 1 \in 1 .. n
    BY ChannelAndTime
  <2>2. FromBuffer(buf, InGroup(g, ((i - 1) % c) + 1), skip, n) \in [1 .. n -> ExSamples]
    BY FromBufferType
  <2> QED BY <2>1, <2>2
<1> HIDE DEF El
<1>5. [i \in 1 .. n * c |-> El(i)] \in Seq(ExSamples)
  BY <1>2, <1>4
<1>6. Len([i \in 1 .. n * c |-> El(i)]) = n * c
  BY <1>2
<1> QED BY <1>1, <1>3, <1>5, <1>6

LEMMA JobNumbers ==
    ASSUME NEW j \in ExportJob
    PROVE  /\ ExStart(j) \in Nat /\ ExEnd(j) \in Nat /\ ExStart(j) <= ExEnd(j)
           /\ TransLen(j) \in Nat /\ FirstBlock(j) \in 1 .. BlockSamples
           /\ j.chanmult \in {1, 2} /\ j.limit \in Nat
           /\ j.sel \subseteq SongTracks /\ j.sel \subseteq Nat /\ IsFiniteSet(j.sel)
<1>1. j.start \in Nat /\ j.end \in Nat /\ j.chanmult \in {1, 2} /\ j.limit \in Nat
      /\ j.sel \subseteq SongTracks
  BY DEF ExportJob
<1>2. ExStart(j) \in Nat /\ ExEnd(j) \in Nat /\ ExStart(j) <= ExEnd(j)
  BY <1>1 DEF ExStart, ExEnd
<1>3. TransLen(j) \in Nat
  BY <1>1, <1>2 DEF TransLen
<1>4. FirstBlock(j) \in 1 .. BlockSamples
  <2>1. ExStart(j) % BlockSamples \in 0 .. BlockSamples - 1
    BY <1>2, BlockOfSample
  <2> QED BY <2>1, BlockSize DEF FirstBlock
<1>5. IsFiniteSet(SongTracks) /\ SongTracks \subseteq Nat
  BY FS_Interval, BlockSize DEF SongTracks
<1> QED BY <1>1, <1>2, <1>3, <1>4, <1>5, FS_Subset

\* A turn of the loop: what it advances and what it writes are at most a
\* block, and it writes no more than it advances if there is a block to copy.
LEMMA TurnLengths ==
    ASSUME NEW j \in ExportJob, NEW s \in Nat
    PROVE  /\ SamsInCurrBlock(j, s) \in 1 .. BlockSamples
           /\ SubBlock(j, s) \in 0 .. BlockSamples
           /\ TransLen(j) >= BlockSamples => SubBlock(j, s) <= SamsInCurrBlock(j, s)
<1>1. /\ TransLen(j) \in Nat /\ FirstBlock(j) \in 1 .. BlockSamples
      /\ BlockSamples \in Nat \ {0}
  BY JobNumbers, BlockSize
<1>2. SamsInCurrBlock(j, s) \in 1 .. BlockSamples
  BY <1>1 DEF SamsInCurrBlock
<1>3. PICK rest : rest = (TransLen(j) - FirstBlock(j)) % BlockSamples
  OBVIOUS
<1>4. rest \in 0 .. BlockSamples - 1
  <2>1. PICK d \in Int : d = TransLen(j) - FirstBlock(j)
    BY <1>1
  <2> QED BY <1>1, <1>3, <2>1, QuotientAndRemainder
<1>5. SubBlock(j, s) = IF OneBlock(j) THEN BlockSamples
                       ELSE IF s + SamsInCurrBlock(j, s) >= TransLen(j) THEN rest
                            ELSE SamsInCurrBlock(j, s)
  BY <1>3 DEF SubBlock
<1>6. ASSUME TransLen(j) >= BlockSamples
      PROVE  SubBlock(j, s) <= SamsInCurrBlock(j, s)
  <2>1. OneBlock(j) => TransLen(j) = FirstBlock(j)
    BY <1>1, <1>6 DEF OneBlock
  <2>2. s = 0 /\ ~OneBlock(j) => FirstBlock(j) < TransLen(j)
    BY <1>1, <1>6 DEF OneBlock
  <2> QED BY <1>1, <1>4, <1>5, <1>6, <2>1, <2>2 DEF SamsInCurrBlock
<1> QED BY <1>1, <1>2, <1>4, <1>5, <1>6

\* A file of the song that is copied.
FileOf(t, part) == [song |-> exSong, track |-> t, part |-> part]

\* Starting a song opens the files of its first part.
LEMMA StartOpens ==
    ASSUME StartSong
    PROVE  /\ exPart' \in {0, 1}
           /\ exFiles' = IF exJob.mixdown THEN exFiles ELSE OpenPart(exFiles, exPart')
BY DEF StartSong, FirstPart

\* The types.  While a song is copied the files of its current part are open.
ExTypeInv ==
    /\ exJob \in ExportJob /\ Len(exJob.songs) > 0
    /\ exPc \in {"idle", "song", "block", "songdone", "done", "crashed"}
    /\ exSong \in Nat /\ exSam \in Nat /\ exPart \in Nat /\ exPartSam \in Nat
    /\ exCancel \in BOOLEAN /\ exAgreed \in BOOLEAN
    /\ exPc \in {"song", "block", "songdone"} => exSong \in 1 .. Len(exJob.songs)
    /\ exPc = "idle" => exFiles = <<>> /\ exSam = 0 /\ ~exCancel
    /\ \A f \in DOMAIN exFiles :
         f \in ExportFile /\ (exFiles[f] = <<OldFile>> \/ exFiles[f] \in Seq(ExSamples))
    /\ exPc = "block" /\ ~exJob.mixdown =>
         \A t \in GroupFirsts(exJob) :
           FileOf(t, exPart) \in DOMAIN exFiles /\ exFiles[FileOf(t, exPart)] \in Seq(ExSamples)

LEMMA ExTypeInvInit == ExportInit => ExTypeInv
<1> SUFFICES ASSUME ExportInit PROVE ExTypeInv
  OBVIOUS
<1>1. exJob = NoExport /\ exFiles = <<>> /\ exPc = "idle"
  BY DEF ExportInit
<1>2. exJob \in ExportJob /\ Len(exJob.songs) > 0
  BY <1>1 DEF NoExport, ExportJob
<1>3. DOMAIN exFiles = {}
  BY <1>1
<1> QED BY <1>1, <1>2, <1>3 DEF ExportInit, ExTypeInv

\* Files that stand for nothing written.
LEMMA OldIsNotWritten == <<>> # <<OldFile>> /\ <<OldFile>> \notin Seq(ExSamples)
<1>1. <<OldFile>> \in Seq(ExSamples) => <<OldFile>>[1] \in ExSamples
  <2>1. 1 \in 1 .. Len(<<OldFile>>)
    OBVIOUS
  <2> HIDE DEF ExSamples
  <2> QED BY <2>1, ElementOfSeq
<1> QED BY <1>1 DEF ExSamples

\* Files that are opened are emptied, the others stay.
LEMMA OpeningFiles ==
    ASSUME NEW files, NEW part, NEW firsts, NEW f
    PROVE  /\ f \in DOMAIN files =>
                /\ f \in DOMAIN Opening(files, part, firsts)
                /\ \/ Opening(files, part, firsts)[f] = files[f]
                   \/ \E t \in firsts : f = FileOf(t, part)
           /\ f \in DOMAIN Opening(files, part, firsts) =>
                \/ f \in DOMAIN files /\ Opening(files, part, firsts)[f] = files[f]
                \/ /\ Opening(files, part, firsts)[f] = <<>>
                   /\ \E t \in firsts : f = FileOf(t, part)
<1> DEFINE new == {FileOf(t, part) : t \in firsts}
<1>1. Opening(files, part, firsts) =
        [g \in DOMAIN files \cup new |-> IF g \in new THEN <<>> ELSE files[g]]
  BY DEF Opening, FileOf
<1>2. f \in new <=> \E t \in firsts : f = FileOf(t, part)
  OBVIOUS
<1> HIDE DEF new
<1> QED BY <1>1, <1>2

LEMMA OpenedFiles ==
    ASSUME NEW files, NEW part
    PROVE  /\ DOMAIN OpenPart(files, part)
                = DOMAIN files \cup {FileOf(t, part) : t \in GroupFirsts(exJob)}
           /\ \A f \in DOMAIN OpenPart(files, part) :
                OpenPart(files, part)[f] =
                  IF f \in {FileOf(t, part) : t \in GroupFirsts(exJob)} THEN <<>> ELSE files[f]
BY DEF OpenPart, Opening, FileOf

LEMMA OpenedFile ==
    ASSUME NEW files, NEW part, NEW f
    PROVE  /\ f \in DOMAIN files =>
                /\ f \in DOMAIN OpenPart(files, part)
                /\ \/ OpenPart(files, part)[f] = files[f]
                   \/ \E t \in GroupFirsts(exJob) : f = FileOf(t, part)
           /\ f \in DOMAIN OpenPart(files, part) =>
                \/ f \in DOMAIN files /\ OpenPart(files, part)[f] = files[f]
                \/ OpenPart(files, part)[f] = <<>>
           /\ \A t \in GroupFirsts(exJob) : f = FileOf(t, part) =>
                OpenPart(files, part)[f] = <<>>
<1> DEFINE firsts == {FileOf(t, part) : t \in GroupFirsts(exJob)}
<1>1. /\ DOMAIN OpenPart(files, part) = DOMAIN files \cup firsts
      /\ \A g \in DOMAIN OpenPart(files, part) :
           OpenPart(files, part)[g] = IF g \in firsts THEN <<>> ELSE files[g]
  BY OpenedFiles
<1>2. f \in firsts <=> \E t \in GroupFirsts(exJob) : f = FileOf(t, part)
  OBVIOUS
<1> HIDE DEF firsts
<1> QED BY <1>1, <1>2

\* What a turn of the loop reads, and where it stands in the buffer.
TurnFrom == exSam + ExStart(exJob)
TurnSkip == exJob.chanmult * (TurnFrom % BlockSamples)
TurnBlock == (TurnFrom + SamsInCurrBlock(exJob, exSam) - 1) \div BlockSamples
TurnBuf == TurnBuffer(exSong, exJob.songs[exSong], exJob.chanmult, exJob.sel, TurnBlock)
TurnWrites(buf, t) ==
    Interlaced(buf, GroupOf(exJob, t), TurnSkip, SubBlock(exJob, exSam))
TurnPart == IF NewPart(SamsInCurrBlock(exJob, exSam)) THEN exPart + 1 ELSE exPart
TurnOpen == IF NewPart(SamsInCurrBlock(exJob, exSam)) THEN OpenPart(exFiles, TurnPart) ELSE exFiles

\* A turn with the buffer buf, in these terms.
LEMMA TurnIs ==
    ASSUME NEW buf, CopyTurn(buf)
    PROVE  /\ exPc = "block" /\ ~exCancel
           /\ exPart' = TurnPart
           /\ exPartSam' = SubBlock(exJob, exSam)
                           + IF NewPart(SamsInCurrBlock(exJob, exSam)) THEN 0 ELSE exPartSam
           /\ exFiles' = [f \in DOMAIN TurnOpen |->
                IF ~exJob.mixdown /\ f.song = exSong /\ f.part = TurnPart
                   /\ f.track \in GroupFirsts(exJob)
                THEN TurnOpen[f] \o TurnWrites(buf, f.track) ELSE TurnOpen[f]]
           /\ exSam' = exSam + SamsInCurrBlock(exJob, exSam)
           /\ exPc' = IF exSam' < TransLen(exJob) THEN "block" ELSE "songdone"
           /\ UNCHANGED <<exJob, exSong, exCancel, exAgreed>>
BY DEF CopyTurn, TurnPart, TurnOpen, TurnWrites, TurnSkip, TurnFrom

LEMMA TurnBufType ==
    ASSUME ExTypeInv, exPc = "block"
    PROVE  TurnBuf \in [BufferSamples -> ExSamples]
<1>1. /\ exJob \in ExportJob /\ exSam \in Nat /\ exSong \in 1 .. Len(exJob.songs)
      /\ exSong \in Nat \ {0}
  BY DEF ExTypeInv
<1>2. exJob.songs[exSong] \in Nat
  <2>1. exJob.songs \in Seq(Nat)
    BY <1>1 DEF ExportJob
  <2> QED BY <1>1, <2>1, ElementOfSeq
<1>3. /\ ExStart(exJob) \in Nat /\ exJob.chanmult \in {1, 2} /\ IsFiniteSet(exJob.sel)
      /\ SamsInCurrBlock(exJob, exSam) \in 1 .. BlockSamples
      /\ SubBlock(exJob, exSam) \in 0 .. BlockSamples
  BY <1>1, JobNumbers, TurnLengths
<1>4. TurnBlock \in Nat
  <2>1. PICK s : s = TurnFrom + SamsInCurrBlock(exJob, exSam) - 1
    OBVIOUS
  <2>2. s \in Nat
    BY <1>1, <1>3, <2>1 DEF TurnFrom
  <2>3. s \div BlockSamples \in Nat
    BY <2>2, BlockOfSample
  <2> QED BY <2>1, <2>3 DEF TurnBlock
<1> QED BY <1>1, <1>2, <1>3, <1>4, TurnBufferType DEF TurnBuf

LEMMA TurnWritesType ==
    ASSUME ExTypeInv, NEW buf \in [BufferSamples -> ExSamples], NEW t
    PROVE  /\ SubBlock(exJob, exSam) \in Nat /\ IsFiniteSet(GroupOf(exJob, t))
           /\ TurnWrites(buf, t) \in Seq(ExSamples)
           /\ Len(TurnWrites(buf, t)) = SubBlock(exJob, exSam) * Cardinality(GroupOf(exJob, t))
<1>1. exJob \in ExportJob /\ exSam \in Nat
  BY DEF ExTypeInv
<1>2. SubBlock(exJob, exSam) \in 0 .. BlockSamples /\ IsFiniteSet(exJob.sel)
  BY <1>1, JobNumbers, TurnLengths
<1>3. SubBlock(exJob, exSam) \in Nat
  BY <1>2, BlockSize
<1>4. IsFiniteSet(GroupOf(exJob, t))
  BY <1>2, FS_Subset DEF GroupOf
<1> QED BY <1>3, <1>4, InterlacedType DEF TurnWrites

\* A turn has got the samples of the block, or foreign ones when the read went
\* beyond the buffer.
LEMMA TurnHasBuffer ==
    ASSUME ExTypeInv, CopyBlock \/ CopyDamaged
    PROVE  \E buf \in [BufferSamples -> ExSamples] :
             /\ CopyTurn(buf)
             /\ ~Overruns(exJob.sel, exJob.chanmult) => buf = TurnBuf
<1>1. CASE CopyBlock
  <2>1. CopyTurn(TurnBuf)
    BY <1>1 DEF CopyBlock, TurnBuf, TurnBuffer, TurnBlock, TurnFrom
  <2>2. exPc = "block"
    BY <2>1 DEF CopyTurn
  <2> QED BY <2>1, <2>2, TurnBufType
<1>2. CASE CopyDamaged
  <2>1. [o \in BufferSamples |-> Foreign] \in [BufferSamples -> ExSamples]
    BY DEF ExSamples, OldFile, Foreign
  <2> QED BY <1>2, <2>1 DEF CopyDamaged
<1> QED BY <1>1, <1>2

\* A turn of the loop keeps the types.
LEMMA CopyBlockTypes ==
    ASSUME ExTypeInv, NEW buf \in [BufferSamples -> ExSamples], CopyTurn(buf)
    PROVE  ExTypeInv'
<1>1. /\ exJob \in ExportJob /\ Len(exJob.songs) > 0 /\ exSong \in 1 .. Len(exJob.songs)
      /\ exSong \in Nat /\ exSam \in Nat /\ exPart \in Nat /\ exPartSam \in Nat
      /\ exCancel \in BOOLEAN /\ exAgreed \in BOOLEAN /\ exPc = "block"
  BY TurnIs DEF ExTypeInv
<1>2. /\ UNCHANGED <<exJob, exSong, exCancel, exAgreed>> /\ exPart' = TurnPart
      /\ exPc' \in {"block", "songdone"}
  BY TurnIs
<1>3. TurnPart \in Nat
  BY <1>1 DEF TurnPart
<1>4. exSam' \in Nat /\ exPartSam' \in Nat
  <2>1. /\ SamsInCurrBlock(exJob, exSam) \in Nat /\ SubBlock(exJob, exSam) \in Nat
    <3>1. /\ SamsInCurrBlock(exJob, exSam) \in 1 .. BlockSamples
          /\ SubBlock(exJob, exSam) \in 0 .. BlockSamples
      BY <1>1, TurnLengths
    <3> QED BY <3>1, BlockSize
  <2>2. exSam' = exSam + SamsInCurrBlock(exJob, exSam)
        /\ (exPartSam' = SubBlock(exJob, exSam) + exPartSam
            \/ exPartSam' = SubBlock(exJob, exSam) + 0)
    BY TurnIs
  <2> QED BY <1>1, <2>1, <2>2
<1> DEFINE firsts == {FileOf(t, TurnPart) : t \in GroupFirsts(exJob)}
<1>5. ASSUME NEW f \in firsts
      PROVE  f \in ExportFile /\ f.song = exSong /\ f.part = TurnPart
             /\ f.track \in GroupFirsts(exJob) /\ f = FileOf(f.track, TurnPart)
  <2>1. PICK t \in GroupFirsts(exJob) : f = FileOf(t, TurnPart)
    OBVIOUS
  <2>2. t \in SongTracks
    BY <1>1, JobNumbers DEF GroupFirsts
  <2> QED BY <1>1, <1>3, <2>1, <2>2 DEF ExportFile, FileOf
\* The files after a full part is left behind.
<1>6. ASSUME NEW f \in DOMAIN TurnOpen
      PROVE  /\ f \in ExportFile
             /\ TurnOpen[f] = <<OldFile>> \/ TurnOpen[f] \in Seq(ExSamples)
             /\ f \in firsts /\ ~exJob.mixdown => TurnOpen[f] \in Seq(ExSamples)
  <2>1. CASE NewPart(SamsInCurrBlock(exJob, exSam))
    <3>1. TurnOpen = OpenPart(exFiles, TurnPart)
      BY <2>1 DEF TurnOpen
    <3>2. /\ f \in firsts \/ f \in DOMAIN exFiles
          /\ TurnOpen[f] = IF f \in firsts THEN <<>> ELSE exFiles[f]
      BY <3>1, OpenedFiles
    <3>3. <<>> \in Seq(ExSamples)
      BY EmptySeq
    <3> HIDE DEF firsts
    <3> QED BY <1>5, <3>2, <3>3 DEF ExTypeInv
  <2>2. CASE ~NewPart(SamsInCurrBlock(exJob, exSam))
    <3>1. TurnOpen = exFiles /\ TurnPart = exPart
      BY <2>2 DEF TurnOpen, TurnPart
    <3>2. f \in firsts /\ ~exJob.mixdown => exFiles[f] \in Seq(ExSamples)
      BY <1>1, <1>5, <3>1 DEF ExTypeInv
    <3> HIDE DEF firsts
    <3> QED BY <3>1, <3>2 DEF ExTypeInv
  <2> QED BY <2>1, <2>2
<1>7. firsts \subseteq DOMAIN TurnOpen \/ exJob.mixdown
  <2>1. CASE NewPart(SamsInCurrBlock(exJob, exSam))
    BY <2>1, OpenedFiles DEF TurnOpen
  <2>2. CASE ~NewPart(SamsInCurrBlock(exJob, exSam))
    BY <1>1, <2>2 DEF TurnOpen, TurnPart, ExTypeInv
  <2> QED BY <2>1, <2>2
<1>8. /\ DOMAIN exFiles' = DOMAIN TurnOpen
      /\ \A f \in DOMAIN TurnOpen :
           exFiles'[f] = IF ~exJob.mixdown /\ f.song = exSong /\ f.part = TurnPart
                            /\ f.track \in GroupFirsts(exJob)
                         THEN TurnOpen[f] \o TurnWrites(buf, f.track) ELSE TurnOpen[f]
  BY TurnIs
<1>9. ASSUME NEW f \in DOMAIN exFiles'
      PROVE  /\ f \in ExportFile
             /\ exFiles'[f] = <<OldFile>> \/ exFiles'[f] \in Seq(ExSamples)
             /\ f \in firsts /\ ~exJob.mixdown => exFiles'[f] \in Seq(ExSamples)
  <2> DEFINE grown == ~exJob.mixdown /\ f.song = exSong /\ f.part = TurnPart
                      /\ f.track \in GroupFirsts(exJob)
  <2>1. f \in ExportFile
    BY <1>6, <1>8
  <2>2. grown <=> f \in firsts /\ ~exJob.mixdown
    <3>1. grown => f = FileOf(f.track, TurnPart)
      BY <2>1 DEF ExportFile, FileOf
    <3> QED BY <1>5, <3>1
  <2>3. CASE grown
    <3>1. exFiles'[f] = TurnOpen[f] \o TurnWrites(buf, f.track)
      BY <1>8, <2>3
    <3>2. TurnOpen[f] \in Seq(ExSamples)
      BY <1>6, <1>8, <2>2, <2>3
    <3>3. TurnWrites(buf, f.track) \in Seq(ExSamples)
      BY <1>1, TurnWritesType
    <3> HIDE DEF grown, firsts
    <3> QED BY <2>1, <3>1, <3>2, <3>3, ConcatProperties
  <2>4. CASE ~grown
    <3>1. exFiles'[f] = TurnOpen[f]
      BY <1>8, <2>4
    <3> HIDE DEF grown, firsts
    <3> QED BY <1>6, <1>8, <2>1, <2>2, <2>4, <3>1
  <2> QED BY <2>3, <2>4
<1>10. ASSUME ~exJob'.mixdown, NEW t \in GroupFirsts(exJob)
       PROVE  FileOf(t, TurnPart) \in DOMAIN exFiles'
              /\ exFiles'[FileOf(t, TurnPart)] \in Seq(ExSamples)
  <2>1. FileOf(t, TurnPart) \in firsts
    OBVIOUS
  <2> HIDE DEF firsts
  <2> QED BY <1>2, <1>7, <1>8, <1>9, <1>10, <2>1
<1>11. \A t : (FileOf(t, exPart))' = FileOf(t, TurnPart)
  BY <1>2 DEF FileOf
<1>12. GroupFirsts(exJob)' = GroupFirsts(exJob)
  BY <1>2
<1>13. \A t \in GroupFirsts(exJob)' : exPc' = "block" /\ ~exJob'.mixdown =>
          /\ (FileOf(t, exPart))' \in DOMAIN exFiles'
          /\ exFiles'[(FileOf(t, exPart))'] \in Seq(ExSamples)
  BY <1>10, <1>11, <1>12
<1> HIDE DEF firsts
<1> QED BY <1>1, <1>2, <1>3, <1>4, <1>9, <1>13 DEF ExTypeInv

LEMMA ExTypeInvStep == ExTypeInv /\ [ExportNext]_exportVars => ExTypeInv'
<1> SUFFICES ASSUME ExTypeInv, [ExportNext]_exportVars
             PROVE  ExTypeInv'
  OBVIOUS
<1>1. CASE PrepareJob
  <2>1. PICK j \in ExportJobs, old \in ExportOld, yes \in BOOLEAN :
          /\ exAgreed' = (AnyFilesExist(j, old) /\ yes)
          /\ exPc' = IF AnyFilesExist(j, old) /\ ~yes THEN "done" ELSE "song"
          /\ exJob' = [j EXCEPT !.start = IF j.multi THEN 0 ELSE @,
                                !.end   = IF j.multi THEN j.songs[Len(j.songs)] ELSE @,
                                !.limit = IF Splits(j) THEN @ ELSE 0]
          /\ exFiles' = [f \in old |-> <<OldFile>>]
    BY <1>1 DEF PrepareJob
  <2>2. j \in ExportJob /\ Len(j.songs) > 0 /\ old \subseteq ExportFile
    BY ExportAssumption
  <2>3. exJob' \in ExportJob /\ exJob'.songs = j.songs
    <3>1. j.songs \in Seq(Nat) /\ Len(j.songs) \in 1 .. Len(j.songs)
      BY <2>2 DEF ExportJob
    <3>2. j.songs[Len(j.songs)] \in Nat
      BY <3>1, ElementOfSeq
    <3>3. PICK e \in Nat : e = IF j.multi THEN j.songs[Len(j.songs)] ELSE j.end
      BY <2>2, <3>2 DEF ExportJob
    <3>4. PICK s \in Nat : s = IF j.multi THEN 0 ELSE j.start
      BY <2>2 DEF ExportJob
    <3>5. PICK l \in Nat : l = IF Splits(j) THEN j.limit ELSE 0
      BY <2>2 DEF ExportJob
    <3>6. exJob' = [j EXCEPT !.start = s, !.end = e, !.limit = l]
      BY <2>1, <3>3, <3>4, <3>5
    <3> QED BY <2>2, <3>6 DEF ExportJob
  <2>4. exSong' = 1 /\ UNCHANGED <<exSam, exPart, exPartSam, exCancel>>
    BY <1>1 DEF PrepareJob
  <2>5. exAgreed' \in BOOLEAN /\ exPc' \in {"song", "done"}
    BY <2>1
  <2>6. exSong' \in 1 .. Len(exJob'.songs)
    <3>1. Len(j.songs) \in Nat
      BY <2>2 DEF ExportJob
    <3> QED BY <2>2, <2>3, <2>4, <3>1
  <2>7. \A f \in DOMAIN exFiles' : f \in ExportFile /\ exFiles'[f] = <<OldFile>>
    BY <2>1, <2>2
  <2> QED BY <2>2, <2>3, <2>4, <2>5, <2>6, <2>7 DEF ExTypeInv
<1>2. CASE StartSong
  <2>1. /\ exPart' \in {0, 1} /\ exPartSam' = 0 /\ exSam' = 0 /\ exPc' \in {"songdone", "block"}
        /\ exFiles' = IF exJob.mixdown THEN exFiles ELSE OpenPart(exFiles, exPart')
        /\ UNCHANGED <<exJob, exSong, exCancel, exAgreed>> /\ exPc = "song"
    BY <1>2, StartOpens DEF StartSong
  <2>2. PICK part \in {0, 1} : part = exPart'
    BY <2>1
  <2>3. <<>> \in Seq(ExSamples)
    BY EmptySeq
  <2>4. \A t \in GroupFirsts(exJob) : FileOf(t, part) \in ExportFile
    <3>1. \A t \in GroupFirsts(exJob) : t \in SongTracks
      BY JobNumbers DEF ExTypeInv, GroupFirsts
    <3> QED BY <3>1 DEF ExTypeInv, ExportFile, FileOf
  <2> DEFINE firsts == {FileOf(t, part) : t \in GroupFirsts(exJob)}
  <2>5. CASE ~exJob.mixdown
    <3>1. /\ DOMAIN exFiles' = DOMAIN exFiles \cup firsts
          /\ \A f \in DOMAIN exFiles' : exFiles'[f] = IF f \in firsts THEN <<>> ELSE exFiles[f]
      <4>1. exFiles' = OpenPart(exFiles, part)
        BY <2>1, <2>2, <2>5
      <4> QED BY <4>1, OpenedFiles
    <3>2. \A f \in DOMAIN exFiles' :
            f \in ExportFile /\ (exFiles'[f] = <<OldFile>> \/ exFiles'[f] \in Seq(ExSamples))
      BY <2>3, <2>4, <3>1 DEF ExTypeInv
    <3>3. \A t \in GroupFirsts(exJob) :
            FileOf(t, part) \in DOMAIN exFiles' /\ exFiles'[FileOf(t, part)] \in Seq(ExSamples)
      BY <2>3, <3>1
    <3>4. \A t : (FileOf(t, exPart))' = FileOf(t, part)
      BY <2>1, <2>2 DEF FileOf
    <3>5. GroupFirsts(exJob)' = GroupFirsts(exJob)
      BY <2>1
    <3>6. \A t \in GroupFirsts(exJob)' :
            (FileOf(t, exPart))' \in DOMAIN exFiles'
            /\ exFiles'[(FileOf(t, exPart))'] \in Seq(ExSamples)
      BY <3>3, <3>4, <3>5
    <3> HIDE DEF firsts
    <3> QED BY <2>1, <2>2, <3>2, <3>6 DEF ExTypeInv
  <2>6. CASE exJob.mixdown
    BY <2>1, <2>2, <2>6 DEF ExTypeInv
  <2> QED BY <2>5, <2>6
<1>3. CASE OpenFails
  <2>1. PICK firsts \in SUBSET GroupFirsts(exJob) :
          exFiles' = Opening(exFiles, FirstPart, firsts)
    BY <1>3 DEF OpenFails
  <2>2. FirstPart \in Nat
    BY DEF FirstPart
  <2>3. exPc = "song" /\ exPc' = "done"
        /\ exCancel' /\ UNCHANGED <<exJob, exSong, exSam, exPart, exPartSam, exAgreed>>
    BY <1>3 DEF OpenFails
  <2>4. \A t \in firsts : FileOf(t, FirstPart) \in ExportFile
    <3>1. \A t \in firsts : t \in SongTracks
      BY JobNumbers DEF ExTypeInv, GroupFirsts
    <3> QED BY <2>2, <3>1 DEF ExTypeInv, ExportFile, FileOf
  <2>5. \A f \in DOMAIN exFiles' :
          f \in ExportFile /\ (exFiles'[f] = <<OldFile>> \/ exFiles'[f] \in Seq(ExSamples))
    <3> SUFFICES ASSUME NEW f \in DOMAIN exFiles'
                 PROVE  f \in ExportFile /\ (exFiles'[f] = <<OldFile>> \/ exFiles'[f] \in Seq(ExSamples))
      OBVIOUS
    <3>1. \/ f \in DOMAIN exFiles /\ exFiles'[f] = exFiles[f]
          \/ exFiles'[f] = <<>> /\ \E t \in firsts : f = FileOf(t, FirstPart)
      BY <2>1, OpeningFiles
    <3>2. <<>> \in Seq(ExSamples)
      BY EmptySeq
    <3> QED BY <2>4, <3>1, <3>2 DEF ExTypeInv
  <2> QED BY <2>3, <2>5 DEF ExTypeInv
<1>4. CASE CopyBlock \/ CopyDamaged
  BY <1>4, TurnHasBuffer, CopyBlockTypes
<1>8. CASE ReadCrashes
  BY <1>8 DEF ReadCrashes, ExTypeInv
<1>5. CASE StopTransfer
  BY <1>5 DEF StopTransfer, ExTypeInv
<1>6. CASE NextSong
  <2>1. /\ exPc = "songdone" /\ exSam' = 0
        /\ exPc' \in {"done", "song"} /\ (exPc' = "song" => exSong # Len(exJob.songs))
        /\ exSong' = IF exPc' = "song" THEN exSong + 1 ELSE exSong
        /\ UNCHANGED <<exJob, exPart, exPartSam, exCancel, exAgreed, exFiles>>
    BY <1>6 DEF NextSong
  <2>2. Len(exJob.songs) \in Nat
    BY DEF ExTypeInv, ExportJob
  <2>3. exPc' = "song" => exSong' \in 1 .. Len(exJob.songs)
    BY <2>1, <2>2 DEF ExTypeInv
  <2>4. exSong' \in Nat
    BY <2>1 DEF ExTypeInv
  <2> QED BY <2>1, <2>3, <2>4 DEF ExTypeInv
<1>7. CASE UNCHANGED exportVars
  <2>1. /\ UNCHANGED <<exJob, exPc, exSong, exSam, exPart, exPartSam, exCancel, exAgreed, exFiles>>
    BY <1>7 DEF exportVars
  <2>2. \A t, part : (FileOf(t, part))' = FileOf(t, part)
    BY <2>1 DEF FileOf
  <2>3. GroupFirsts(exJob)' = GroupFirsts(exJob)
    BY <2>1
  <2> QED BY <2>1, <2>2, <2>3 DEF ExTypeInv
<1> QED BY <1>1, <1>2, <1>3, <1>4, <1>5, <1>6, <1>7, <1>8 DEF ExportNext

LEMMA ExTypes == ExportSpec => []ExTypeInv
BY ExTypeInvInit, ExTypeInvStep, PTL DEF ExportSpec

------------------------------------------------------------------------------
(* The size of a part, and files that are replaced.                         *)

\* Songs of any length, files of any number of channels, every limit: no part
\* grows beyond the limit the user set, unless it is no more than a block.
\* (A new part is begun before the block that would not fit: transfer_to_pc.)
THEOREM PartsStaySmall == ExportSpec => []PartsKeepLimit
<1>1. ExportInit => PartsKeepLimit
  BY DEF ExportInit, PartsKeepLimit
<1>2. ExTypeInv /\ PartsKeepLimit /\ [ExportNext]_exportVars => PartsKeepLimit'
  <2> SUFFICES ASSUME ExTypeInv, PartsKeepLimit, [ExportNext]_exportVars,
                      exPc' \in {"block", "songdone"}, exJob'.limit # 0,
                      TransLen(exJob') >= BlockSamples
               PROVE  exPartSam' <= exJob'.limit \/ exPartSam' <= BlockSamples
    BY DEF PartsKeepLimit, TransLen, ExStart, ExEnd
  <2>1. /\ exJob \in ExportJob /\ exSam \in Nat /\ exPartSam \in Nat /\ exJob.limit \in Nat
    BY JobNumbers DEF ExTypeInv
  <2>2. CASE PrepareJob
    BY <2>2 DEF PrepareJob
  <2>3. CASE StartSong
    BY <2>3, BlockSize DEF StartSong
  <2>4. CASE OpenFails \/ ReadCrashes
    BY <2>4 DEF OpenFails, ReadCrashes
  <2>5. ASSUME NEW buf, CopyTurn(buf)
        PROVE  exPartSam' <= exJob'.limit \/ exPartSam' <= BlockSamples
    <3> DEFINE cur == SamsInCurrBlock(exJob, exSam)
               sub == SubBlock(exJob, exSam)
    <3>1. exPc = "block" /\ exJob' = exJob
          /\ exPartSam' = sub + IF NewPart(cur) THEN 0 ELSE exPartSam
      BY <2>5, TurnIs
    <3>2. cur \in Nat /\ sub \in Nat /\ sub <= BlockSamples /\ sub <= cur
      BY <2>1, <3>1, TurnLengths, BlockSize
    <3>3. ~NewPart(cur) => exPartSam + cur <= exJob.limit
      <4> HIDE DEF cur
      <4> QED BY <2>1, <3>1, <3>2 DEF NewPart
    <3> HIDE DEF cur, sub
    <3> QED BY <2>1, <3>1, <3>2, <3>3, BlockSize
  <2>6. CASE StopTransfer
    BY <2>6 DEF StopTransfer, PartsKeepLimit
  <2>7. CASE NextSong
    BY <2>7 DEF NextSong
  <2>8. CASE UNCHANGED exportVars
    BY <2>8 DEF exportVars, PartsKeepLimit
  <2> QED BY <2>2, <2>3, <2>4, <2>5, <2>6, <2>7, <2>8, TurnHasBuffer DEF ExportNext
<1> QED BY <1>1, <1>2, ExTypes, PTL DEF ExportSpec

\* While songs are copied without the user's agreement, no file was there for
\* the tracks that are copied, whole or as a first part.
NoneInTheWay ==
    exPc \in {"song", "block", "songdone"} /\ ~exAgreed =>
      \A f \in DOMAIN exFiles :
        exFiles[f] = <<OldFile>> /\ f.track \in exJob.sel => f.part \notin {0, 1}

\* What a step does to a file that was there: it is left as it was, or it is
\* one of the files of the part that is opened or written.
LEMMA OldFileTouched ==
    ASSUME ExTypeInv, [ExportNext]_exportVars,
           NEW f \in DOMAIN exFiles, exFiles[f] = <<OldFile>>, exFiles'[f] # <<OldFile>>
    PROVE  exPc \in {"song", "block"} /\ f.part \in Nat /\ f.track \in exJob.sel
<1>1. f \in ExportFile
  BY DEF ExTypeInv
<1>2. CASE PrepareJob
  <2>1. DOMAIN exFiles = {}
    BY <1>2 DEF PrepareJob, ExTypeInv
  <2> QED BY <2>1
<1>3. CASE StartSong
  <2>1. exPc = "song" /\ (exFiles' = exFiles \/ exFiles' = OpenPart(exFiles, exPart'))
    BY <1>3, StartOpens DEF StartSong
  <2>2. PICK part : part = exPart'
    OBVIOUS
  <2>3. exFiles' = OpenPart(exFiles, part)
    BY <2>1, <2>2
  <2>4. PICK t \in GroupFirsts(exJob) : f = FileOf(t, part)
    BY <2>3, OpenedFile
  <2> QED BY <1>1, <2>1, <2>4 DEF FileOf, GroupFirsts, ExportFile
<1>4. ASSUME NEW buf, CopyTurn(buf)
      PROVE  exPc \in {"song", "block"} /\ f.part \in Nat /\ f.track \in exJob.sel
  <2>1. /\ exPc = "block"
        /\ exFiles' = [g \in DOMAIN TurnOpen |->
             IF ~exJob.mixdown /\ g.song = exSong /\ g.part = TurnPart
                /\ g.track \in GroupFirsts(exJob)
             THEN TurnOpen[g] \o TurnWrites(buf, g.track) ELSE TurnOpen[g]]
    BY <1>4, TurnIs
  <2>2. TurnOpen = exFiles \/ TurnOpen = OpenPart(exFiles, TurnPart)
    BY DEF TurnOpen
  <2>3. f \in DOMAIN TurnOpen /\ (TurnOpen[f] = exFiles[f] \/ f.track \in GroupFirsts(exJob))
    BY <2>2, OpenedFile DEF FileOf
  <2>4. f.track \in GroupFirsts(exJob)
    BY <2>1, <2>3
  <2> QED BY <1>1, <2>1, <2>4 DEF GroupFirsts, ExportFile
<1>5. CASE OpenFails
  <2>1. PICK firsts \in SUBSET GroupFirsts(exJob) :
          exFiles' = Opening(exFiles, FirstPart, firsts)
    BY <1>5 DEF OpenFails
  <2>2. exPc = "song"
    BY <1>5 DEF OpenFails
  <2>3. PICK t \in firsts : f = FileOf(t, FirstPart)
    BY <2>1, OpeningFiles
  <2> QED BY <1>1, <2>2, <2>3 DEF FileOf, GroupFirsts, ExportFile
<1>6. CASE ReadCrashes \/ StopTransfer \/ NextSong \/ UNCHANGED exportVars
  BY <1>6 DEF ReadCrashes, StopTransfer, NextSong, exportVars
<1> QED BY <1>2, <1>3, <1>4, <1>5, <1>6, TurnHasBuffer DEF ExportNext

\* A step makes no file look like one that was there before.
LEMMA OldFileStays ==
    ASSUME ExTypeInv, ExTypeInv', [ExportNext]_exportVars, exPc # "idle",
           NEW f \in DOMAIN exFiles', exFiles'[f] = <<OldFile>>
    PROVE  f \in DOMAIN exFiles /\ exFiles[f] = <<OldFile>> /\ exJob' = exJob
<1>1. CASE PrepareJob
  BY <1>1 DEF PrepareJob
<1>2. CASE StartSong
  <2>1. exJob' = exJob /\ (exFiles' = exFiles \/ exFiles' = OpenPart(exFiles, exPart'))
    BY <1>2, StartOpens DEF StartSong
  <2>2. PICK part : part = exPart'
    OBVIOUS
  <2>3. CASE exFiles' = OpenPart(exFiles, part)
    BY <2>1, <2>3, OpenedFile, OldIsNotWritten
  <2> QED BY <2>1, <2>2, <2>3
<1>3. ASSUME NEW buf \in [BufferSamples -> ExSamples], CopyTurn(buf)
      PROVE  f \in DOMAIN exFiles /\ exFiles[f] = <<OldFile>> /\ exJob' = exJob
  <2>1. /\ exPc = "block" /\ exJob' = exJob
        /\ exFiles' = [g \in DOMAIN TurnOpen |->
             IF ~exJob.mixdown /\ g.song = exSong /\ g.part = TurnPart
                /\ g.track \in GroupFirsts(exJob)
             THEN TurnOpen[g] \o TurnWrites(buf, g.track) ELSE TurnOpen[g]]
    BY <1>3, TurnIs
  <2>2. TurnOpen = exFiles \/ TurnOpen = OpenPart(exFiles, TurnPart)
    BY DEF TurnOpen
  <2>3. /\ f \in DOMAIN TurnOpen
        /\ (f \in DOMAIN exFiles /\ TurnOpen[f] = exFiles[f]) \/ TurnOpen[f] = <<>>
    BY <2>1, <2>2, OpenedFile
  <2>4. CASE exFiles'[f] = TurnOpen[f]
    BY <2>1, <2>3, <2>4, OldIsNotWritten
  <2>5. CASE exFiles'[f] # TurnOpen[f]
    <3>1. ~exJob.mixdown /\ f.song = exSong /\ f.part = TurnPart /\ f.track \in GroupFirsts(exJob)
          /\ exFiles'[f] = TurnOpen[f] \o TurnWrites(buf, f.track)
      BY <2>1, <2>5
    <3>2. TurnWrites(buf, f.track) \in Seq(ExSamples)
      BY <2>1, TurnWritesType
    <3>3. ASSUME TurnOpen[f] \in Seq(ExSamples) PROVE FALSE
      <4>1. exFiles'[f] \in Seq(ExSamples)
        <5> HIDE DEF ExSamples
        <5> QED BY <3>1, <3>2, <3>3, ConcatProperties
      <4> QED BY <4>1, OldIsNotWritten
    <3>4. TurnOpen[f] = <<OldFile>> /\ TurnOpen = exFiles
      <4>1. <<>> \in Seq(ExSamples)
        BY EmptySeq
      <4>2. f \in DOMAIN exFiles /\ TurnOpen[f] = exFiles[f] /\ exFiles[f] = <<OldFile>>
        BY <2>3, <3>3, <4>1 DEF ExTypeInv
      <4>3. f = FileOf(f.track, TurnPart)
        BY <3>1, <4>2 DEF FileOf, ExTypeInv, ExportFile
      <4>4. OpenPart(exFiles, TurnPart)[f] = <<>>
        BY <3>1, <4>3, OpenedFile
      <4> QED BY <2>2, <4>2, <4>4, OldIsNotWritten
    <3> QED BY <2>1, <2>3, <3>4, OldIsNotWritten
  <2> QED BY <2>4, <2>5
<1>4. CASE OpenFails
  <2>1. PICK firsts \in SUBSET GroupFirsts(exJob) :
          exFiles' = Opening(exFiles, FirstPart, firsts)
    BY <1>4 DEF OpenFails
  <2>2. exJob' = exJob
    BY <1>4 DEF OpenFails
  <2>3. f \in DOMAIN exFiles /\ exFiles'[f] = exFiles[f]
    BY <2>1, OpeningFiles, OldIsNotWritten
  <2> QED BY <2>2, <2>3
<1>5. CASE ReadCrashes \/ StopTransfer \/ NextSong \/ UNCHANGED exportVars
  BY <1>5 DEF ReadCrashes, StopTransfer, NextSong, exportVars
<1> QED BY <1>1, <1>2, <1>3, <1>4, <1>5, TurnHasBuffer DEF ExportNext

\* In no order of songs, parts, stops and failures is a file that was there
\* before replaced without the user's agreement, but for second and later
\* parts, which anyfilesexist does not look for.
THEOREM NothingReplacedSilently == ExportSpec => NoSilentOverwrite
<1>1. ExportInit => NoneInTheWay
  BY DEF ExportInit, NoneInTheWay
<1>2. ExTypeInv /\ ExTypeInv' /\ NoneInTheWay /\ [ExportNext]_exportVars => NoneInTheWay'
  <2> SUFFICES ASSUME ExTypeInv, ExTypeInv', NoneInTheWay, [ExportNext]_exportVars,
                      exPc' \in {"song", "block", "songdone"}, ~exAgreed',
                      NEW f \in DOMAIN exFiles', exFiles'[f] = <<OldFile>>, f.track \in exJob'.sel
               PROVE  f.part \notin {0, 1}
    BY DEF NoneInTheWay
  <2>1. CASE exPc = "idle"
    <3>1. CASE PrepareJob
      <4>1. PICK j \in ExportJobs, old \in ExportOld, yes \in BOOLEAN :
              /\ exAgreed' = (AnyFilesExist(j, old) /\ yes)
              /\ exPc' = IF AnyFilesExist(j, old) /\ ~yes THEN "done" ELSE "song"
              /\ exJob' = [j EXCEPT !.start = IF j.multi THEN 0 ELSE @,
                                    !.end   = IF j.multi THEN j.songs[Len(j.songs)] ELSE @,
                                    !.limit = IF Splits(j) THEN @ ELSE 0]
              /\ exFiles' = [g \in old |-> <<OldFile>>]
        BY <3>1 DEF PrepareJob
      <4>2. ~AnyFilesExist(j, old)
        BY <4>1
      <4>3. exJob'.sel = j.sel /\ f \in old
        BY <4>1, ExportAssumption DEF ExportJob
      <4> QED BY <4>2, <4>3 DEF AnyFilesExist
    <3>2. CASE UNCHANGED exportVars
      BY <2>1, <3>2 DEF exportVars
    <3> QED BY <2>1, <3>1, <3>2
        DEF ExportNext, StartSong, OpenFails, CopyBlock, CopyDamaged, CopyTurn, ReadCrashes,
            StopTransfer, NextSong
  <2>2. CASE exPc # "idle"
    <3>1. f \in DOMAIN exFiles /\ exFiles[f] = <<OldFile>> /\ exJob' = exJob
      BY <2>2, OldFileStays
    <3>2. exPc \in {"song", "block", "songdone"} /\ exAgreed' = exAgreed
      BY <2>2 DEF ExportNext, PrepareJob, StartSong, OpenFails, CopyBlock, CopyDamaged, CopyTurn,
                  ReadCrashes, StopTransfer, NextSong, exportVars
    <3> QED BY <3>1, <3>2 DEF NoneInTheWay
  <2> QED BY <2>1, <2>2
<1>3. ExTypeInv /\ NoneInTheWay /\ [ExportNext]_exportVars =>
        [\A f \in DOMAIN exFiles :
           exFiles[f] = <<OldFile>> /\ exFiles'[f] # <<OldFile>> => exAgreed \/ f.part >= 2
        ]_exportVars
  <2> SUFFICES ASSUME ExTypeInv, NoneInTheWay, [ExportNext]_exportVars,
                      NEW f \in DOMAIN exFiles, exFiles[f] = <<OldFile>>,
                      exFiles'[f] # <<OldFile>>, ~exAgreed
               PROVE  f.part >= 2
    OBVIOUS
  <2>1. exPc \in {"song", "block"} /\ f.part \in Nat /\ f.track \in exJob.sel
    BY OldFileTouched
  <2>2. f.part \notin {0, 1}
    BY <2>1 DEF NoneInTheWay
  <2> QED BY <2>1, <2>2
<1> QED BY <1>1, <1>2, <1>3, ExTypes, PTL DEF ExportSpec, NoSilentOverwrite

------------------------------------------------------------------------------
(* The parts of a split file, one after the other.  Exported joins them     *)
(* recursively; what that gives follows from the least number of parts for  *)
(* which it would not.                                                      *)

\* g joins the parts q[0] .. q[n].
IsJoin(q, n, g) == g = [p \in 0 .. n |-> IF p = 0 THEN q[0] ELSE g[p - 1] \o q[p]]
JoinExists(q, n) == \E g : IsJoin(q, n, g)

LEMMA JoinUnfolds ==
    ASSUME NEW q, NEW n \in Nat, NEW g, IsJoin(q, n, g)
    PROVE  g[0] = q[0] /\ \A p \in 1 .. n : g[p] = g[p - 1] \o q[p]
<1>1. \A p \in 0 .. n : g[p] = IF p = 0 THEN q[0] ELSE g[p - 1] \o q[p]
  BY DEF IsJoin
<1>2. 0 \in 0 .. n /\ \A p \in 1 .. n : p \in 0 .. n /\ p # 0
  OBVIOUS
<1> QED BY <1>1, <1>2

LEMMA JoinsExist == ASSUME NEW q PROVE \A n \in Nat : JoinExists(q, n)
<1> DEFINE Bad == {n \in Nat : ~JoinExists(q, n)}
<1> SUFFICES ASSUME Bad # {} PROVE FALSE
  OBVIOUS
<1>1. PICK m \in Bad : \A n \in Bad : m <= n
  BY LeastNumber
<1>2. m # 0
  <2> DEFINE g == [p \in 0 .. 0 |-> q[0]]
  <2>1. IsJoin(q, 0, g)
    BY DEF IsJoin
  <2> QED BY <1>1, <2>1 DEF JoinExists
<1>3. m - 1 \in Nat /\ m \in Nat
  BY <1>1, <1>2
<1>4. PICK g : IsJoin(q, m - 1, g)
  BY <1>1, <1>3 DEF JoinExists
<1> DEFINE h == [p \in 0 .. m |-> IF p = m THEN g[m - 1] \o q[m] ELSE g[p]]
<1>5. ASSUME NEW p \in 0 .. m
      PROVE  h[p] = IF p = 0 THEN q[0] ELSE h[p - 1] \o q[p]
  <2>1. CASE p = m
    <3>1. h[p] = g[m - 1] \o q[m] /\ h[m - 1] = g[m - 1]
      BY <1>3, <2>1
    <3> QED BY <1>2, <2>1, <3>1
  <2>2. CASE p # m
    <3>1. p \in 0 .. m - 1 /\ h[p] = g[p]
      BY <1>3, <2>2
    <3>2. g[p] = IF p = 0 THEN q[0] ELSE g[p - 1] \o q[p]
      BY <1>4, <3>1 DEF IsJoin
    <3>3. p # 0 => h[p - 1] = g[p - 1]
      BY <1>3, <2>2, <3>1
    <3> QED BY <3>1, <3>2, <3>3
  <2> QED BY <2>1, <2>2
<1>6. IsJoin(q, m, h)
  <2>1. h = [p \in 0 .. m |-> h[p]]
    OBVIOUS
  <2> HIDE DEF h
  <2> QED BY <1>5, <2>1 DEF IsJoin
<1> QED BY <1>1, <1>6 DEF JoinExists

\* Joins are sequences, and depend on the parts they join only.
LEMMA JoinType ==
    ASSUME NEW S, NEW q, NEW n \in Nat, NEW g, IsJoin(q, n, g),
           \A p \in 0 .. n : q[p] \in Seq(S)
    PROVE  \A p \in 0 .. n : g[p] \in Seq(S)
<1> DEFINE Bad == {p \in 0 .. n : g[p] \notin Seq(S)}
<1> SUFFICES ASSUME Bad # {} PROVE FALSE
  OBVIOUS
<1>1. PICK m \in Bad : \A p \in Bad : m <= p
  <2>1. Bad \in SUBSET Nat
    OBVIOUS
  <2> HIDE DEF Bad
  <2> QED BY <2>1, LeastNumber
<1>2. m # 0 /\ m \in 1 .. n
  <2>1. g[0] = q[0]
    BY JoinUnfolds
  <2> QED BY <1>1, <2>1
<1>3. g[m - 1] \in Seq(S) /\ q[m] \in Seq(S) /\ g[m] = g[m - 1] \o q[m]
  <2>1. m - 1 \in 0 .. n /\ ~(m <= m - 1)
    BY <1>2
  <2> QED BY <1>1, <1>2, <2>1, JoinUnfolds
<1>4. g[m] \in Seq(S)
  BY <1>3, ConcatProperties
<1> QED BY <1>1, <1>4

LEMMA JoinsAgree ==
    ASSUME NEW q, NEW r, NEW n \in Nat, NEW m \in Nat, n <= m, NEW g, NEW h,
           IsJoin(q, n, g), IsJoin(r, m, h), NEW k \in 0 .. n,
           \A p \in 0 .. k : q[p] = r[p]
    PROVE  g[k] = h[k]
<1> DEFINE Bad == {p \in 0 .. k : g[p] # h[p]}
<1> SUFFICES ASSUME Bad # {} PROVE FALSE
  OBVIOUS
<1>1. PICK i \in Bad : \A p \in Bad : i <= p
  <2>1. Bad \in SUBSET Nat
    OBVIOUS
  <2> HIDE DEF Bad
  <2> QED BY <2>1, LeastNumber
<1>2. i # 0 /\ i \in 1 .. n /\ i \in 1 .. m
  <2>1. g[0] = q[0] /\ h[0] = r[0]
    BY JoinUnfolds
  <2> QED BY <1>1, <2>1
<1>3. g[i - 1] = h[i - 1]
  <2>1. i - 1 \in 0 .. k /\ ~(i <= i - 1)
    BY <1>1, <1>2
  <2> QED BY <1>1, <2>1
<1>4. g[i] = g[i - 1] \o q[i] /\ h[i] = h[i - 1] \o r[i]
  BY <1>2, JoinUnfolds
<1> QED BY <1>1, <1>3, <1>4

\* The parts of the file of track t, as Exported takes them.
PartOf(files, song, t, p) ==
    LET f == [song |-> song, track |-> t, part |-> p]
    IN  IF f \in DOMAIN files /\ files[f] # <<OldFile>> THEN files[f] ELSE <<>>
PartsOf(files, song, t) == [p \in Nat |-> PartOf(files, song, t, p)]

ExportedJoins ==
    \A song, t : \E g :
      IsJoin(PartsOf(exFiles, song, t), exPart, g) /\ Exported(song, t) = g[exPart]

PartIsNumber == exPart \in Nat

LEMMA ExportedIsJoin == PartIsNumber => ExportedJoins
<1> USE DEF PartIsNumber
<1> SUFFICES ASSUME exPart \in Nat, NEW song, NEW t
             PROVE  \E g : IsJoin(PartsOf(exFiles, song, t), exPart, g)
                           /\ Exported(song, t) = g[exPart]
  BY DEF ExportedJoins
<1> DEFINE Body(g) == g = [p \in 0 .. exPart |->
             IF p = 0 THEN PartOf(exFiles, song, t, 0) ELSE g[p - 1] \o PartOf(exFiles, song, t, p)]
<1>1. \A p \in Nat : PartsOf(exFiles, song, t)[p] = PartOf(exFiles, song, t, p)
  BY DEF PartsOf
<1>2. PICK g : IsJoin(PartsOf(exFiles, song, t), exPart, g)
  BY JoinsExist DEF JoinExists
<1>3. \A h : Body(h) <=> IsJoin(PartsOf(exFiles, song, t), exPart, h)
  <2>1. \A h : [p \in 0 .. exPart |->
                  IF p = 0 THEN PartOf(exFiles, song, t, 0)
                  ELSE h[p - 1] \o PartOf(exFiles, song, t, p)]
               = [p \in 0 .. exPart |->
                    IF p = 0 THEN PartsOf(exFiles, song, t)[0]
                    ELSE h[p - 1] \o PartsOf(exFiles, song, t)[p]]
    BY <1>1
  <2> QED BY <2>1 DEF IsJoin
<1>4. Body(CHOOSE h : Body(h))
  BY <1>2, <1>3
<1>5. Exported(song, t) = (CHOOSE h : Body(h))[exPart]
  BY DEF Exported, PartOf
<1> HIDE DEF Body
<1> QED BY <1>3, <1>4, <1>5

LEMMA ExportedIsJoinNext == PartIsNumber' => ExportedJoins'
BY ExportedIsJoin, PTL

------------------------------------------------------------------------------
(* What a turn of the loop writes are the samples that were asked for.      *)

\* The members of a group of tracks have the ranks from one on.
LEMMA RanksAreAll ==
    ASSUME NEW g \in SUBSET Nat, IsFiniteSet(g), NEW k \in 1 .. Cardinality(g)
    PROVE  InGroup(g, k) \in g
<1>1. PICK c \in Nat : c = Cardinality(g)
  BY FS_CardinalityType
<1> DEFINE upto(u) == {v \in g : v <= u}
           rank == [u \in g |-> ExRank(g, u)]
<1>2. ASSUME NEW u \in g
      PROVE  /\ IsFiniteSet(upto(u)) /\ Cardinality(upto(u)) \in 1 .. c
             /\ rank[u] = Cardinality(upto(u))
  <2>1. upto(u) \in SUBSET g /\ u \in upto(u)
    OBVIOUS
  <2>2. rank[u] = Cardinality(upto(u))
    BY DEF ExRank
  <2> HIDE DEF upto, rank
  <2>3. IsFiniteSet(upto(u)) /\ Cardinality(upto(u)) <= c
    BY <1>1, <2>1, FS_Subset
  <2>4. Cardinality(upto(u)) # 0 /\ Cardinality(upto(u)) \in Nat
    BY <2>1, <2>3, FS_EmptySet, FS_CardinalityType
  <2> QED BY <1>1, <2>2, <2>3, <2>4
<1>3. ASSUME NEW u \in g, NEW v \in g, u < v
      PROVE  rank[u] # rank[v]
  <2>1. upto(u) \in SUBSET upto(v) /\ v \in upto(v) /\ v \notin upto(u)
    <3>1. u \in Nat /\ v \in Nat /\ \A w \in g : w \in Nat
      OBVIOUS
    <3>2. \A w \in g : w <= u => w <= v
      BY <1>3, <3>1
    <3>3. v <= v /\ ~(v <= u)
      BY <1>3, <3>1
    <3> QED BY <3>2, <3>3
  <2> HIDE DEF upto, rank
  <2>2. Cardinality(upto(u)) # Cardinality(upto(v))
    BY <1>2, <2>1, FS_Subset
  <2> QED BY <1>2, <2>2
<1>4. rank \in Injection(g, 1 .. c)
  <2>1. rank \in [g -> 1 .. c]
    <3>1. rank = [u \in g |-> rank[u]]
      OBVIOUS
    <3> HIDE DEF rank
    <3> QED BY <1>2, <3>1
  <2>2. \A u, v \in g : rank[u] = rank[v] => u = v
    <3>1. \A u, v \in g : u \in Nat /\ v \in Nat
      OBVIOUS
    <3> HIDE DEF rank
    <3> QED BY <1>3, <3>1
  <2> HIDE DEF rank
  <2> QED BY <2>1, <2>2 DEF Injection, IsInjective
<1>5. IsFiniteSet(1 .. c) /\ Cardinality(1 .. c) = c
  BY FS_Interval
<1>6. rank \in Surjection(g, 1 .. c)
  <2> HIDE DEF rank
  <2> QED BY <1>1, <1>4, <1>5, FS_Injection
<1>7. \E u \in g : rank[u] = k
  <2> HIDE DEF rank
  <2> QED BY <1>1, <1>6 DEF Surjection
<1>8. \E u \in g : ExRank(g, u) = k
  BY <1>7
<1> QED BY <1>8 DEF InGroup

LEMMA LeastAndGreatest ==
    ASSUME NEW S \in SUBSET SongTracks, NEW x \in S
    PROVE  /\ LeastOf(S) \in S /\ LeastOf(S) <= x
           /\ GreatestOf(S) \in S /\ x <= GreatestOf(S)
<1>1. S \in SUBSET Nat /\ S # {}
  BY BlockSize DEF SongTracks
<1>2. \E y \in S : \A z \in S : y <= z
  BY <1>1, LeastNumber
<1>3. \E y \in S : \A z \in S : z <= y
  <2> DEFINE T == {BlockTracks - y : y \in S}
  <2>1. T \in SUBSET Nat /\ T # {}
    BY <1>1, BlockSize DEF SongTracks
  <2>2. PICK w \in T : \A z \in T : w <= z
    <3> HIDE DEF T
    <3> QED BY <2>1, LeastNumber
  <2>3. PICK y \in S : w = BlockTracks - y
    BY <2>2
  <2>4. ASSUME NEW z \in S
        PROVE  z <= y
    <3>1. BlockTracks - z \in T
      OBVIOUS
    <3>2. w <= BlockTracks - z
      BY <2>2, <3>1
    <3> QED BY <1>1, <2>3, <3>2, BlockSize
  <2> QED BY <2>4
<1>4. LeastOf(S) \in S /\ \A z \in S : LeastOf(S) <= z
  BY <1>2 DEF LeastOf
<1>5. GreatestOf(S) \in S /\ \A z \in S : z <= GreatestOf(S)
  BY <1>3 DEF GreatestOf
<1> QED BY <1>4, <1>5

\* The samples of the selected tracks are read, if the first one is the first
\* of the song or the sample rate is not high.
LEMMA PlaceIsRead ==
    ASSUME NEW sel \in SUBSET SongTracks, NEW chanmult \in {1, 2}, chanmult = 2 => 0 \in sel,
           NEW t \in sel, NEW r \in 0 .. BlockSamples - 1, NEW block
    PROVE  BlockRead(block, sel, chanmult)[t * BlockSamples + r] = block[t * BlockSamples + r]
<1>1. PICK lo \in sel, hi \in sel : /\ lo = LeastOf(sel) /\ hi = GreatestOf(sel)
                                    /\ lo <= t /\ t <= hi /\ (chanmult = 2 => lo = 0)
  <2>1. /\ LeastOf(sel) \in sel /\ GreatestOf(sel) \in sel
        /\ LeastOf(sel) <= t /\ t <= GreatestOf(sel)
    BY LeastAndGreatest
  <2>2. chanmult = 2 => LeastOf(sel) <= 0
    BY LeastAndGreatest
  <2>3. LeastOf(sel) \in Nat
    <3>1. LeastOf(sel) \in SongTracks
      BY <2>1
    <3> QED BY <3>1, BlockSize DEF SongTracks
  <2> QED BY <2>1, <2>2, <2>3
<1>2. lo \in Nat /\ hi \in Nat /\ t \in Nat /\ BlockSamples \in Nat \ {0}
  BY BlockSize DEF SongTracks
<1> DEFINE o == t * BlockSamples + r
<1>3. o \in BufferSamples
  BY PlaceInBuffer
<1>4. FirstRead(sel, chanmult) = chanmult * lo * BlockSamples
      /\ SamplesRead(sel, chanmult) = (chanmult * (hi - lo) + 1) * BlockSamples
  BY <1>1 DEF FirstRead, SamplesRead
<1>5. /\ t * BlockSamples \in Nat /\ lo * BlockSamples \in Nat /\ hi * BlockSamples \in Nat
      /\ lo * BlockSamples <= t * BlockSamples /\ t * BlockSamples <= hi * BlockSamples
  BY <1>1, <1>2, ProductIsNat, ProductsGrow
<1>6. o \in FirstRead(sel, chanmult) .. FirstRead(sel, chanmult) + SamplesRead(sel, chanmult) - 1
  <2>1. CASE chanmult = 1
    <3>1. chanmult * lo * BlockSamples = lo * BlockSamples
      BY <1>2, <2>1
    <3>2. (chanmult * (hi - lo) + 1) * BlockSamples
            = hi * BlockSamples - lo * BlockSamples + BlockSamples
      BY <1>2, <2>1, SMT
    <3> QED BY <1>2, <1>4, <1>5, <3>1, <3>2
  <2>2. CASE chanmult = 2
    <3>1. chanmult * lo * BlockSamples = 0
      BY <1>1, <1>2, <2>2, SMT
    <3>2. (chanmult * (hi - lo) + 1) * BlockSamples
            = hi * BlockSamples + hi * BlockSamples + BlockSamples
      BY <1>1, <1>2, <2>2, SMT
    <3> QED BY <1>2, <1>4, <1>5, <3>1, <3>2
  <2> QED BY <2>1, <2>2
<1> HIDE DEF o
<1>7. BlockRead(block, sel, chanmult)[o] = block[o]
  BY <1>3, <1>6 DEF BlockRead
<1> QED BY <1>7 DEF o

\* The buffer of a turn has the samples of the block in their order.
IsSampleOfTurn(song, len, chanmult, sel, b, t, r) ==
    TurnBuffer(song, len, chanmult, sel, b)[t * BlockSamples + r]
      = <<song, t, b * BlockSamples + r>>

LEMMA TurnBufferHolds ==
    ASSUME NEW song, NEW len \in Nat, NEW chanmult \in {1, 2}, NEW sel \in SUBSET SongTracks,
           chanmult = 2 => 0 \in sel, NEW b \in Nat, b < BlockCount(len, chanmult),
           NEW t \in sel, NEW r \in 0 .. BlockSamples - 1
    PROVE  IsSampleOfTurn(song, len, chanmult, sel, b, t, r)
<1> SUFFICES TurnBuffer(song, len, chanmult, sel, b)[t * BlockSamples + r]
               = <<song, t, b * BlockSamples + r>>
  BY DEF IsSampleOfTurn
<1> DEFINE half == BlockSamples \div 2
           At(x) == IF chanmult = 1 THEN x ELSE IF x < half THEN 2 * x ELSE 2 * (x - half) + 1
           block == BlockOnDrive(song, len, chanmult, b)
           read == BlockRead(block, sel, chanmult)
<1>1. ASSUME NEW x \in 0 .. BlockSamples - 1
      PROVE  read[t * BlockSamples + x] = <<song, t, b * BlockSamples + At(x)>>
  <2>1. read[t * BlockSamples + x] = block[t * BlockSamples + x]
    BY PlaceIsRead
  <2>2. /\ t * BlockSamples + x \in BufferSamples
        /\ (t * BlockSamples + x) \div BlockSamples = t
        /\ (t * BlockSamples + x) % BlockSamples = x
    BY PlaceInBuffer
  <2>3. PICK o \in BufferSamples : o = t * BlockSamples + x
    BY <2>2
  <2>4. o \div BlockSamples = t /\ o % BlockSamples = x
    BY <2>2, <2>3, Zenon
  <2>5. block[o] = <<song, o \div BlockSamples, b * BlockSamples + At(o % BlockSamples)>>
    BY DEF BlockOnDrive
  <2>6. block[o] = <<song, t, b * BlockSamples + At(x)>>
    <3> HIDE DEF At, block
    <3> QED BY <2>4, <2>5
  <2> HIDE DEF At, block, read
  <2> QED BY <2>1, <2>3, <2>6
<1>2. CASE chanmult = 1
  <2>1. TurnBuffer(song, len, chanmult, sel, b) = read
    BY <1>2 DEF TurnBuffer
  <2>2. At(r) = r
    BY <1>2
  <2> HIDE DEF At, read
  <2> QED BY <1>1, <2>1, <2>2
<1>3. CASE chanmult = 2
  <2>1. TurnBuffer(song, len, chanmult, sel, b) = Deinterlaced(read)
    BY <1>3 DEF TurnBuffer
  <2> DEFINE at == (r \div 2) + IF r % 2 = 0 THEN 0 ELSE half
  <2>2. /\ at \in 0 .. BlockSamples - 1
        /\ Deinterlaced(read)[t * BlockSamples + r] = read[t * BlockSamples + at]
    <3> HIDE DEF read
    <3> QED BY DeinterlacedPlace
  <2>3. At(at) = r
    <3>1. half \in Nat /\ BlockSamples = 2 * half
      BY HalfBlock
    <3> HIDE DEF half
    <3> QED BY <1>3, <3>1
  <2>4. read[t * BlockSamples + at] = <<song, t, b * BlockSamples + At(at)>>
    <3> HIDE DEF At, read, at
    <3> QED BY <1>1, <2>2
  <2> HIDE DEF At, read, at
  <2> QED BY <2>1, <2>2, <2>3, <2>4
<1> QED BY <1>2, <1>3

\* The turns of the loop end at the ends of blocks of the song.
Progress(s) == s = 0 \/ \E m \in Nat : s = FirstBlock(exJob) + m * BlockSamples

\* Where a turn reads: from its first sample to the end of a block.
LEMMA TurnPlace ==
    ASSUME exJob \in ExportJob, exSam \in Nat, exSam < TransLen(exJob),
           TransLen(exJob) >= BlockSamples, exJob.chanmult = 2 => ExStart(exJob) = 0,
           Progress(exSam)
    PROVE  LET at == TurnFrom % BlockSamples
           IN  /\ TurnFrom \in Nat /\ at \in 0 .. BlockSamples - 1 /\ TurnSkip = at
               /\ TurnBlock = TurnFrom \div BlockSamples /\ TurnBlock \in Nat
               /\ at + SamsInCurrBlock(exJob, exSam) = BlockSamples
               /\ at + SubBlock(exJob, exSam) <= BlockSamples
               /\ TurnFrom = TurnBlock * BlockSamples + at
               /\ Progress(exSam + SamsInCurrBlock(exJob, exSam))
<1> DEFINE start == ExStart(exJob)
           at == TurnFrom % BlockSamples
           cur == SamsInCurrBlock(exJob, exSam)
<1>1. /\ start \in Nat /\ TransLen(exJob) \in Nat /\ exJob.chanmult \in {1, 2}
      /\ FirstBlock(exJob) \in 1 .. BlockSamples /\ BlockSamples \in Nat \ {0}
      /\ FirstBlock(exJob) = BlockSamples - (start % BlockSamples)
  BY JobNumbers, BlockSize DEF FirstBlock
<1>2. PICK q \in Nat, r \in 0 .. BlockSamples - 1 :
         q = start \div BlockSamples /\ r = start % BlockSamples /\ start = q * BlockSamples + r
  BY <1>1, BlockOfSample
<1>3. TurnFrom = exSam + start
  BY DEF TurnFrom
<1>4. TurnFrom \in Nat /\ at \in 0 .. BlockSamples - 1
  BY <1>1, <1>3, BlockOfSample
<1>5. /\ at + cur = BlockSamples /\ Progress(exSam + cur)
      /\ exJob.chanmult = 2 => at = 0
  <2>1. CASE exSam = 0
    <3>1. cur = FirstBlock(exJob) /\ TurnFrom = start
      BY <1>1, <1>3, <2>1 DEF SamsInCurrBlock
    <3>2. at = r
      BY <1>2, <3>1
    <3>3. exSam + cur = FirstBlock(exJob) + 0 * BlockSamples
      BY <1>1, <2>1, <3>1
    <3>4. Progress(exSam + cur)
      <4> HIDE DEF cur
      <4> QED BY <3>3 DEF Progress
    <3>5. exJob.chanmult = 2 => r = 0
      <4>1. 0 \div BlockSamples = 0 /\ 0 % BlockSamples = 0
        BY <1>1
      <4> QED BY <1>2, <4>1
    <3> HIDE DEF cur, at, start
    <3> QED BY <1>1, <1>2, <3>1, <3>2, <3>4, <3>5
  <2>2. CASE exSam # 0
    <3>1. PICK m \in Nat : exSam = FirstBlock(exJob) + m * BlockSamples
      BY <2>2 DEF Progress
    <3>2. m * BlockSamples \in Nat
      BY <1>1, ProductIsNat
    <3>3. ~OneBlock(exJob)
      <4>1. PICK mb \in Nat : mb = m * BlockSamples
        BY <3>2
      <4>2. exSam >= FirstBlock(exJob)
        BY <1>1, <3>1, <4>1
      <4> QED BY <1>1, <4>2 DEF OneBlock
    <3>4. cur = BlockSamples
      BY <2>2, <3>3 DEF SamsInCurrBlock
    <3>5. TurnFrom = (q + 1 + m) * BlockSamples + 0
      <4>1. (q + 1 + m) * BlockSamples = q * BlockSamples + BlockSamples + m * BlockSamples
        BY <1>1, SMT
      <4>2. q * BlockSamples \in Nat
        BY <1>1, ProductIsNat
      <4> HIDE DEF start
      <4> QED BY <1>1, <1>2, <1>3, <3>1, <3>2, <4>1, <4>2
    <3>6. at = 0
      <4>1. PICK k \in Int : k = q + 1 + m
        OBVIOUS
      <4>2. 0 \in 0 .. BlockSamples - 1
        BY <1>1
      <4>3. (k * BlockSamples + 0) % BlockSamples = 0
        BY <1>1, <4>1, <4>2, QuotientIs
      <4> QED BY <3>5, <4>1, <4>3
    <3>7. exSam + cur = FirstBlock(exJob) + (m + 1) * BlockSamples
      <4>1. (m + 1) * BlockSamples = m * BlockSamples + BlockSamples
        BY <1>1, NextProduct
      <4> HIDE DEF cur
      <4> QED BY <1>1, <3>1, <3>2, <3>4, <4>1
    <3>8. Progress(exSam + cur)
      <4> HIDE DEF cur
      <4> QED BY <3>7 DEF Progress
    <3> HIDE DEF cur, at
    <3> QED BY <1>1, <3>4, <3>6, <3>8
  <2> QED BY <2>1, <2>2
<1>6. at + SubBlock(exJob, exSam) <= BlockSamples
  <2>1. SubBlock(exJob, exSam) <= cur
    BY TurnLengths
  <2>2. SubBlock(exJob, exSam) \in 0 .. BlockSamples /\ cur \in 1 .. BlockSamples
    BY TurnLengths
  <2> HIDE DEF at, cur
  <2> QED BY <1>1, <1>4, <1>5, <2>1, <2>2
<1>7. /\ TurnBlock = TurnFrom \div BlockSamples /\ TurnBlock \in Nat
      /\ TurnFrom = TurnBlock * BlockSamples + at
  <2>1. PICK b \in Nat : b = TurnFrom \div BlockSamples /\ TurnFrom = b * BlockSamples + at
    BY <1>4, BlockOfSample
  <2>2. cur \in Nat
    BY <1>1, TurnLengths
  <2>3. TurnFrom + cur - 1 = b * BlockSamples + (BlockSamples - 1)
    <3>1. b * BlockSamples \in Nat
      BY <1>1, ProductIsNat
    <3> HIDE DEF at, cur
    <3> QED BY <1>1, <1>4, <1>5, <2>1, <2>2, <3>1
  <2>4. (b * BlockSamples + (BlockSamples - 1)) \div BlockSamples = b
    <3>1. BlockSamples - 1 \in 0 .. BlockSamples - 1 /\ b \in Int
      BY <1>1
    <3> QED BY <1>1, <2>1, <3>1, QuotientIs, Zenon
  <2>5. TurnBlock = b
    <3>1. TurnBlock = (TurnFrom + cur - 1) \div BlockSamples
      BY DEF TurnBlock
    <3> QED BY <2>3, <2>4, <3>1
  <2> QED BY <2>1, <2>5
<1>8. TurnSkip = at
  <2>1. TurnSkip = exJob.chanmult * at
    BY DEF TurnSkip
  <2> HIDE DEF at
  <2> QED BY <1>1, <1>4, <1>5, <2>1
<1> QED BY <1>4, <1>5, <1>6, <1>7, <1>8

\* How many samples of a track are written after a turn, and altogether: a
\* last block that is full is left out.
LEMMA TurnDone ==
    ASSUME exJob \in ExportJob, exSam \in Nat, exSam < TransLen(exJob),
           TransLen(exJob) >= BlockSamples, Progress(exSam)
    PROVE  LET cur == SamsInCurrBlock(exJob, exSam)
               sub == SubBlock(exJob, exSam)
           IN  /\ exSam + cur < TransLen(exJob) => sub = cur
               /\ exSam + cur >= TransLen(exJob) => WholeLength = exSam + sub
               /\ WholeLength \in Nat /\ exSam <= WholeLength
<1> DEFINE cur == SamsInCurrBlock(exJob, exSam)
           sub == SubBlock(exJob, exSam)
<1>1. PICK len \in Nat, first \in 1 .. BlockSamples :
         len = TransLen(exJob) /\ first = FirstBlock(exJob) /\ BlockSamples \in Nat \ {0}
         /\ exSam < len /\ len >= BlockSamples
  BY JobNumbers, BlockSize
<1>2. PICK rest : rest = (len - first) % BlockSamples
  OBVIOUS
<1>3. /\ sub = IF OneBlock(exJob) THEN BlockSamples
               ELSE IF exSam + cur >= len THEN rest ELSE cur
      /\ WholeLength = IF OneBlock(exJob) \/ rest # 0 THEN len ELSE len - BlockSamples
      /\ cur = IF exSam = 0 \/ OneBlock(exJob) THEN first ELSE BlockSamples
  BY <1>1, <1>2 DEF SubBlock, WholeLength, SamsInCurrBlock
<1>4. OneBlock(exJob) <=> len = first
  BY <1>1 DEF OneBlock
<1>5. CASE exSam = 0
  <2>1. rest \in 0 .. BlockSamples - 1
    <3>1. PICK d \in Int : d = len - first
      BY <1>1
    <3> QED BY <1>1, <1>2, <3>1, QuotientAndRemainder
  <2>2. cur = first
    BY <1>3, <1>5
  <2>3. CASE OneBlock(exJob)
    <3>1. sub = BlockSamples /\ WholeLength = len /\ len = first
      BY <1>3, <1>4, <2>3
    <3> QED BY <1>1, <1>5, <2>2, <3>1
  <2>4. CASE ~OneBlock(exJob)
    <3>1. exSam + cur < len
      <4> QED BY <1>1, <1>4, <1>5, <2>2, <2>4
    <3>2. sub = cur /\ WholeLength \in {len, len - BlockSamples}
      <4> QED BY <1>1, <1>3, <2>2, <2>4, <3>1
    <3> QED BY <1>1, <1>5, <2>2, <3>1, <3>2
  <2> QED BY <2>3, <2>4
<1>6. CASE exSam # 0
  <2>1. PICK m \in Nat : exSam = first + m * BlockSamples
    BY <1>1, <1>6 DEF Progress
  <2>2. PICK mb \in Nat : mb = m * BlockSamples
    BY <1>1, ProductIsNat
  <2>3. ~OneBlock(exJob) /\ cur = BlockSamples
    BY <1>1, <1>3, <1>4, <1>6, <2>1, <2>2
  <2>4. PICK d \in Nat \ {0} : d = len - exSam
    BY <1>1
  <2>5. len - first = mb + d
    BY <1>1, <2>1, <2>2, <2>4
  <2>6. d < BlockSamples => rest = d
    <3> SUFFICES ASSUME d < BlockSamples PROVE rest = d
      OBVIOUS
    <3>1. d \in 0 .. BlockSamples - 1 /\ m \in Int
      BY <1>1
    <3>2. (m * BlockSamples + d) % BlockSamples = d
      BY <1>1, <3>1, QuotientIs
    <3> QED BY <1>2, <2>2, <2>5, <3>2
  <2>7. d = BlockSamples => rest = 0
    <3>1. (m + 1) * BlockSamples = mb + BlockSamples
      BY <1>1, <2>2, NextProduct
    <3>2. 0 \in 0 .. BlockSamples - 1 /\ m + 1 \in Int
      BY <1>1
    <3>3. ((m + 1) * BlockSamples + 0) % BlockSamples = 0
      BY <1>1, <3>2, QuotientIs
    <3>4. (m + 1) * BlockSamples + 0 = (m + 1) * BlockSamples
      BY <1>1, <2>2, <3>1
    <3> QED BY <1>2, <2>5, <3>1, <3>3, <3>4
  <2>8. rest \in 0 .. BlockSamples - 1
    <3>1. PICK e \in Int : e = len - first
      BY <1>1
    <3> QED BY <1>1, <1>2, <3>1, QuotientAndRemainder
  <2>9. /\ sub = IF exSam + cur >= len THEN rest ELSE cur
        /\ WholeLength = IF rest # 0 THEN len ELSE len - BlockSamples
    BY <1>3, <2>3
  <2>10. CASE d < BlockSamples
    <3>1. sub = d /\ WholeLength = len /\ exSam + cur >= len
      <4> QED BY <1>1, <2>3, <2>4, <2>6, <2>9, <2>10
    <3> QED BY <1>1, <2>3, <2>4, <3>1
  <2>11. CASE d = BlockSamples
    <3>1. sub = 0 /\ WholeLength = len - BlockSamples /\ exSam + cur >= len
      <4> QED BY <1>1, <2>3, <2>4, <2>7, <2>9, <2>11
    <3> QED BY <1>1, <2>3, <2>4, <2>11, <3>1
  <2>12. CASE d > BlockSamples
    <3>1. sub = cur /\ exSam + cur < len /\ WholeLength \in {len, len - BlockSamples}
      <4> QED BY <1>1, <2>3, <2>4, <2>9, <2>12
    <3> QED BY <1>1, <2>3, <2>4, <2>12, <3>1
  <2> QED BY <1>1, <2>4, <2>10, <2>11, <2>12
<1> QED BY <1>5, <1>6

\* A block that starts before the end of the song is one of its blocks.
LEMMA BlockIsOfSong ==
    ASSUME NEW len \in Nat, NEW chanmult \in {1, 2}, NEW b \in Nat,
           b * BlockSamples < len * chanmult
    PROVE  b < BlockCount(len, chanmult)
<1>1. BlockSamples \in Nat \ {0}
  BY BlockSize
<1>2. PICK l \in Nat : l = len * chanmult
  BY ProductIsNat
<1>3. PICK s \in Nat : s = l + BlockSamples - 1
  BY <1>1, <1>2
<1>4. PICK q \in Nat : q = s \div BlockSamples /\ s = q * BlockSamples + (s % BlockSamples)
                       /\ s % BlockSamples \in 0 .. BlockSamples - 1
  BY BlockOfSample
<1>5. ASSUME q <= b
      PROVE  FALSE
  <2>1. q * BlockSamples <= b * BlockSamples
    BY <1>1, <1>5, ProductsGrow
  <2>2. q * BlockSamples \in Nat /\ b * BlockSamples \in Nat
    BY <1>1, ProductIsNat
  <2> QED BY <1>1, <1>2, <1>3, <1>4, <2>1, <2>2
<1>6. BlockCount(len, chanmult) = q
  <2>1. len * chanmult + BlockSamples - 1 = s
    BY <1>2, <1>3
  <2> QED BY <1>4, <2>1 DEF BlockCount
<1> QED BY <1>4, <1>5, <1>6

\* What is wanted of a song from sample `from` of each track on.
WantedFrom(song, t, from, n) ==
    LET g == GroupOf(exJob, t)
        c == Cardinality(g)
    IN  [i \in 1 .. n * c |->
           <<song, InGroup(g, ((i - 1) % c) + 1),
             exJob.chanmult * ExStart(exJob) + from + ((i - 1) \div c)>>]

\* A turn writes the samples that are wanted next, for songs that are copied right.
LEMMA TurnIsWanted ==
    ASSUME ExTypeInv, exPc = "block", Regular(exSong), exSam < TransLen(exJob), Progress(exSam),
           NEW t
    PROVE  TurnWrites(TurnBuf, t) = WantedFrom(exSong, t, exSam, SubBlock(exJob, exSam))
<1> DEFINE start == ExStart(exJob)
           len == exJob.songs[exSong]
           g == GroupOf(exJob, t)
           n == SubBlock(exJob, exSam)
           at == TurnFrom % BlockSamples
<1>1. /\ exJob \in ExportJob /\ exSam \in Nat /\ exSong \in Nat /\ len \in Nat
      /\ start \in Nat /\ ExEnd(exJob) \in Nat /\ start <= ExEnd(exJob)
      /\ exJob.chanmult \in {1, 2} /\ exJob.sel \in SUBSET SongTracks
      /\ exJob.sel \in SUBSET Nat /\ BlockSamples \in Nat \ {0}
  <2>1. exJob \in ExportJob /\ exSam \in Nat /\ exSong \in 1 .. Len(exJob.songs) /\ exSong \in Nat
    BY DEF ExTypeInv
  <2>2. exJob.songs \in Seq(Nat)
    BY <2>1 DEF ExportJob
  <2>3. len \in Nat
    BY <2>1, <2>2, ElementOfSeq
  <2> QED BY <2>1, <2>3, JobNumbers, BlockSize
<1>2. /\ TransLen(exJob) >= BlockSamples /\ ExEnd(exJob) <= len
      /\ exJob.chanmult = 2 => start = 0 /\ 0 \in exJob.sel
  BY DEF Regular
<1>3. /\ TurnFrom \in Nat /\ at \in 0 .. BlockSamples - 1 /\ TurnSkip = at
      /\ TurnBlock \in Nat /\ at + n <= BlockSamples /\ TurnFrom = TurnBlock * BlockSamples + at
  BY <1>1, <1>2, TurnPlace
<1>4. exJob.chanmult * start = start
  <2> HIDE DEF start
  <2> QED BY <1>1, <1>2
<1>5. TurnBlock < BlockCount(len, exJob.chanmult)
  <2>1. TurnFrom = exSam + start /\ exSam < (ExEnd(exJob) - start) * exJob.chanmult
    BY DEF TurnFrom, TransLen
  <2>2. TurnFrom < len * exJob.chanmult
    <3> HIDE DEF start, len
    <3> QED BY <1>1, <1>2, <2>1
  <2>3. TurnBlock * BlockSamples \in Nat /\ len * exJob.chanmult \in Nat
    BY <1>1, <1>3, ProductIsNat
  <2>4. TurnBlock * BlockSamples < len * exJob.chanmult
    <3> HIDE DEF at, len
    <3> QED BY <1>1, <1>3, <2>2, <2>3
  <2> HIDE DEF len
  <2> QED BY <1>1, <1>3, <2>4, BlockIsOfSong
<1>6. /\ n \in Nat /\ IsFiniteSet(g) /\ g \in SUBSET exJob.sel
      /\ Cardinality(g) \in Nat
  <2>1. n \in Nat /\ IsFiniteSet(g)
    BY TurnBufType, TurnWritesType
  <2> QED BY <2>1, FS_CardinalityType DEF GroupOf
<1>7. PICK c \in Nat : c = Cardinality(g)
  BY <1>6
<1> DEFINE Ch(i) == InGroup(g, ((i - 1) % c) + 1)
           El(i) == FromBuffer(TurnBuf, Ch(i), TurnSkip, n)[((i - 1) \div c) + 1]
           Want(i) == <<exSong, Ch(i), exJob.chanmult * start + exSam + ((i - 1) \div c)>>
<1>8. TurnWrites(TurnBuf, t) = [i \in 1 .. n * c |-> El(i)]
  BY <1>7 DEF TurnWrites, Interlaced
<1>9. WantedFrom(exSong, t, exSam, n) = [i \in 1 .. n * c |-> Want(i)]
  BY <1>7 DEF WantedFrom
<1>10. ASSUME NEW i \in 1 .. n * c
       PROVE  El(i) = Want(i)
  <2>1. c # 0 /\ (i - 1) % c \in 0 .. c - 1 /\ (i - 1) \div c \in 0 .. n - 1
    BY <1>6, <1>7, ChannelAndTime
  <2>2. PICK k \in 0 .. n - 1 : k = (i - 1) \div c
    BY <2>1
  <2>3. Ch(i) \in g
    <3>1. ((i - 1) % c) + 1 \in 1 .. Cardinality(g)
      BY <1>7, <2>1
    <3>2. g \in SUBSET Nat
      BY <1>1, <1>6
    <3> HIDE DEF g
    <3> QED BY <1>6, <3>1, <3>2, RanksAreAll
  <2>4. PICK tr \in exJob.sel : tr = Ch(i)
    BY <1>6, <2>3
  <2>5. PICK r \in 0 .. BlockSamples - 1 : r = at + k
    <3> HIDE DEF at, n
    <3> QED BY <1>1, <1>3, <1>6, <2>2
  <2>6. tr * BlockSamples + r \in BufferSamples /\ tr * BlockSamples \in Nat
    <3>1. tr \in SongTracks /\ tr \in Nat
      BY <1>1, <2>4
    <3> QED BY <1>1, <3>1, PlaceInBuffer, ProductIsNat
  <2>7. El(i) = TurnBuf[tr * BlockSamples + r]
    <3>1. El(i) = FromBuffer(TurnBuf, tr, at, n)[k + 1]
      BY <1>3, <2>2, <2>4
    <3>2. k + 1 \in 1 .. n
      BY <1>6, <2>2
    <3>3. tr * BlockSamples + at + (k + 1) - 1 = tr * BlockSamples + r
      <4>1. PICK base \in Nat : base = tr * BlockSamples
        BY <2>6
      <4> HIDE DEF at
      <4> QED BY <1>3, <2>2, <2>5, <4>1
    <3> HIDE DEF El, at, n
    <3> QED BY <2>6, <3>1, <3>2, <3>3 DEF FromBuffer
  <2>8. TurnBuf[tr * BlockSamples + r] = <<exSong, tr, TurnBlock * BlockSamples + r>>
    <3> HIDE DEF len
    <3>1. TurnBuf = TurnBuffer(exSong, len, exJob.chanmult, exJob.sel, TurnBlock)
      BY DEF TurnBuf, len
    <3>2. exJob.chanmult = 2 => 0 \in exJob.sel
      BY <1>2
    <3>3. /\ len \in Nat /\ exJob.chanmult \in {1, 2} /\ exJob.sel \in SUBSET SongTracks
          /\ TurnBlock \in Nat
      BY <1>1, <1>3
    <3>4. TurnBuffer(exSong, len, exJob.chanmult, exJob.sel, TurnBlock)[tr * BlockSamples + r]
            = <<exSong, tr, TurnBlock * BlockSamples + r>>
      <4>1. IsSampleOfTurn(exSong, len, exJob.chanmult, exJob.sel, TurnBlock, tr, r)
        BY <1>5, <3>2, <3>3, TurnBufferHolds
      <4> QED BY <4>1, Zenon DEF IsSampleOfTurn
    <3> QED BY <3>1, <3>4, Zenon
  <2>9. TurnBlock * BlockSamples + r = exJob.chanmult * start + exSam + k
    <3>1. PICK base \in Nat : base = TurnBlock * BlockSamples
      BY <1>1, <1>3, ProductIsNat
    <3>2. TurnFrom = exSam + start
      BY DEF TurnFrom
    <3> HIDE DEF at, start
    <3> QED BY <1>1, <1>3, <1>4, <2>2, <2>5, <3>1, <3>2
  <2>10. Want(i) = <<exSong, tr, exJob.chanmult * start + exSam + k>>
    BY <2>2, <2>4
  <2> HIDE DEF El, Want
  <2> QED BY <2>7, <2>8, <2>9, <2>10
<1> HIDE DEF El, Want, n
<1>11. TurnWrites(TurnBuf, t) = WantedFrom(exSong, t, exSam, n)
  BY <1>8, <1>9, <1>10
<1> QED BY <1>11 DEF n

\* What is wanted is put together from its beginning and the rest.
LEMMA WantedJoins ==
    ASSUME exJob \in ExportJob, NEW song, NEW t, NEW n \in Nat, NEW m \in Nat,
           NEW S, Wanted(song, t, n) \in Seq(S), WantedFrom(song, t, n, m) \in Seq(S)
    PROVE  /\ Wanted(song, t, n) \o WantedFrom(song, t, n, m) = Wanted(song, t, n + m)
           /\ Wanted(song, t, n + m) \in Seq(S)
<1> DEFINE g == GroupOf(exJob, t)
           start == exJob.chanmult * ExStart(exJob)
<1>1. start \in Nat /\ IsFiniteSet(g)
  <2>1. /\ ExStart(exJob) \in Nat /\ exJob.chanmult \in {1, 2} /\ IsFiniteSet(exJob.sel)
    BY JobNumbers
  <2> QED BY <2>1, ProductIsNat, FS_Subset DEF GroupOf
<1>2. PICK c \in Nat : c = Cardinality(g)
  BY <1>1, FS_CardinalityType
<1> DEFINE Ch(i) == InGroup(g, ((i - 1) % c) + 1)
           W(i) == <<song, Ch(i), start + ((i - 1) \div c)>>
           F(i) == <<song, Ch(i), start + n + ((i - 1) \div c)>>
           a == Wanted(song, t, n)
           b == WantedFrom(song, t, n, m)
           d == Wanted(song, t, n + m)
<1>3. /\ a = [i \in 1 .. n * c |-> W(i)] /\ b = [i \in 1 .. m * c |-> F(i)]
      /\ d = [i \in 1 .. (n + m) * c |-> W(i)]
  BY <1>2 DEF Wanted, WantedFrom
<1>4. PICK nc \in Nat, mc \in Nat : nc = n * c /\ mc = m * c /\ (n + m) * c = nc + mc
  <2>1. (n + m) * c = n * c + m * c
    BY SMT
  <2> QED BY <2>1, ProductIsNat
<1>5. /\ Len(a) = nc /\ Len(b) = mc
      /\ \A i \in 1 .. nc : a[i] = W(i)
      /\ \A i \in 1 .. mc : b[i] = F(i)
      /\ DOMAIN d = 1 .. nc + mc /\ \A i \in 1 .. nc + mc : d[i] = W(i)
  <2> HIDE DEF W, F, a, b, d
  <2> QED BY <1>3, <1>4
<1>6. /\ a \o b \in Seq(S) /\ Len(a \o b) = nc + mc
      /\ \A i \in 1 .. nc + mc : (a \o b)[i] = IF i <= nc THEN a[i] ELSE b[i - nc]
  <2>1. a \in Seq(S) /\ b \in Seq(S)
    OBVIOUS
  <2> HIDE DEF W, F, a, b, d
  <2> QED BY <1>5, <2>1, ConcatProperties
<1>7. ASSUME NEW i \in 1 .. nc + mc
      PROVE  (a \o b)[i] = W(i)
  <2>1. CASE i <= nc
    <3> HIDE DEF W, F, a, b, d
    <3> QED BY <1>5, <1>6, <2>1
  <2>2. CASE i > nc
    <3>1. PICK j \in 1 .. mc : j = i - nc
      BY <2>2
    <3>2. (a \o b)[i] = F(j)
      <4> HIDE DEF W, F, a, b, d
      <4> QED BY <1>5, <1>6, <2>2, <3>1
    <3>3. c # 0 /\ (j - 1) % c \in 0 .. c - 1 /\ (j - 1) \div c \in 0 .. m - 1
      BY <1>4, <3>1, ChannelAndTime
    <3>4. PICK q \in Nat, r \in 0 .. c - 1 :
             q = (j - 1) \div c /\ r = (j - 1) % c /\ j - 1 = q * c + r
      <4>1. j - 1 \in Int
        BY <3>1
      <4>2. j - 1 = ((j - 1) \div c) * c + ((j - 1) % c)
        BY <3>3, <4>1, QuotientAndRemainder
      <4> QED BY <3>3, <4>2
    <3>5. i - 1 = (n + q) * c + r
      <4>1. (n + q) * c = nc + q * c /\ q * c \in Nat
        <5>1. (n + q) * c = n * c + q * c
          BY SMT
        <5> QED BY <1>4, <5>1, ProductIsNat
      <4> QED BY <3>1, <3>4, <4>1
    <3>6. (i - 1) \div c = n + q /\ (i - 1) % c = r
      <4>1. n + q \in Int
        OBVIOUS
      <4>2. ((n + q) * c + r) \div c = n + q /\ ((n + q) * c + r) % c = r
        BY <3>3, <3>4, <4>1, QuotientIs, Zenon
      <4> QED BY <3>5, <4>2
    <3>7. W(i) = F(j)
      <4>1. Ch(i) = Ch(j)
        BY <3>4, <3>6
      <4>2. start + ((i - 1) \div c) = start + n + ((j - 1) \div c)
        <5>1. PICK x \in Nat : x = (i - 1) \div c /\ x = n + q
          BY <3>6
        <5> HIDE DEF start
        <5>2. start + x = start + n + q
          BY <1>1, <5>1
        <5> QED BY <3>4, <5>1, <5>2, Zenon
      <4> HIDE DEF Ch
      <4> QED BY <4>1, <4>2
    <3> HIDE DEF W, F, a, b
    <3> QED BY <3>2, <3>7
  <2>3. i <= nc \/ i > nc
    BY <1>4
  <2> HIDE DEF W, F, a, b, d
  <2> QED BY <2>1, <2>2, <2>3, Zenon
<1>8. DOMAIN (a \o b) = 1 .. nc + mc /\ a \o b = [i \in 1 .. nc + mc |-> (a \o b)[i]]
  <2> HIDE DEF W, F, a, b, d
  <2>1. a \o b \in [1 .. nc + mc -> S]
    BY <1>6, LenProperties
  <2> QED BY <2>1
<1>9. d = [i \in 1 .. nc + mc |-> d[i]]
  <2> HIDE DEF W, F, a, b
  <2> QED BY <1>3, <1>5
<1>10. a \o b = d
  <2> HIDE DEF W, F, a, b, d
  <2> QED BY <1>5, <1>7, <1>8, <1>9
<1> QED BY <1>6, <1>10

------------------------------------------------------------------------------
(* The whole of what is written of a song.                                  *)

\* One more piece at the end of the last part, or as a part of its own.
IsGrown(S, q, n, r, m, w) ==
    /\ \A p \in 0 .. n : q[p] \in Seq(S)
    /\ \A p \in 0 .. n : p # m => r[p] = q[p]
    /\ r[m] = IF m = n THEN q[n] \o w ELSE w

IsAppended(S, old, w, new) == old \in Seq(S) /\ new = old \o w

LEMMA JoinGrows ==
    ASSUME NEW S, NEW q, NEW r, NEW n \in Nat, NEW m \in Nat, NEW g, NEW h,
           m = n \/ m = n + 1,
           IsJoin(q, n, g), IsJoin(r, m, h), NEW w \in Seq(S), IsGrown(S, q, n, r, m, w)
    PROVE  IsAppended(S, g[n], w, h[m])
<1> USE DEF IsGrown
<1> SUFFICES g[n] \in Seq(S) /\ h[m] = g[n] \o w
  BY DEF IsAppended
<1>1. /\ \A p \in 0 .. n : g[p] \in Seq(S)
      /\ g[0] = q[0] /\ \A p \in 1 .. n : g[p] = g[p - 1] \o q[p]
      /\ h[0] = r[0] /\ \A p \in 1 .. m : h[p] = h[p - 1] \o r[p]
  <2>1. m \in Nat
    OBVIOUS
  <2>2. \A p \in 0 .. n : g[p] \in Seq(S)
    BY JoinType, Zenon
  <2>3. g[0] = q[0] /\ \A p \in 1 .. n : g[p] = g[p - 1] \o q[p]
    BY JoinUnfolds, Zenon
  <2>4. h[0] = r[0] /\ \A p \in 1 .. m : h[p] = h[p - 1] \o r[p]
    BY <2>1, JoinUnfolds, Zenon
  <2> QED BY <2>2, <2>3, <2>4
<1>2. CASE m = n + 1
  <2>1. \A p \in 0 .. n : q[p] = r[p]
    BY <1>2
  <2>2. n <= m /\ n \in 0 .. n
    BY <1>2
  <2>3. g[n] = h[n]
    BY <2>1, <2>2, JoinsAgree
  <2>4. h[m] = h[n] \o w
    <3>1. m \in 1 .. m /\ m - 1 = n /\ m # n
      BY <1>2
    <3> QED BY <1>1, <3>1
  <2> QED BY <1>1, <2>3, <2>4
<1>3. CASE m = n /\ n = 0
  <2>1. 0 \in 0 .. n /\ h[m] = r[m] /\ g[n] = q[n] /\ r[m] = q[n] \o w
    BY <1>1, <1>3
  <2> QED BY <1>1, <1>3, <2>1
<1>4. CASE m = n /\ n # 0
  <2>1. n - 1 \in 0 .. n /\ n \in 1 .. n /\ n \in 1 .. m /\ n <= m /\ n \in 0 .. n
    BY <1>4
  <2>2. \A p \in 0 .. n - 1 : q[p] = r[p]
    BY <1>4
  <2>3. g[n - 1] = h[n - 1]
    BY <2>1, <2>2, JoinsAgree
  <2>4. g[n] = g[n - 1] \o q[n] /\ h[n] = g[n - 1] \o (q[n] \o w)
    BY <1>1, <1>4, <2>1, <2>3
  <2>5. g[n - 1] \in Seq(S) /\ q[n] \in Seq(S)
    BY <1>1, <2>1
  <2>6. (g[n - 1] \o q[n]) \o w = g[n - 1] \o (q[n] \o w)
    <3>1. PICK a \in Seq(S), b \in Seq(S) : a = g[n - 1] /\ b = q[n]
      BY <2>5
    <3>2. (a \o b) \o w = a \o (b \o w)
      BY ConcatAssociative
    <3> QED BY <3>1, <3>2, Zenon
  <2> QED BY <1>1, <1>4, <2>1, <2>4, <2>6
<1> QED BY <1>2, <1>3, <1>4

\* The first parts of a song, opened and empty, join to nothing.
LEMMA JoinOfNothing ==
    ASSUME NEW q, NEW n \in {0, 1}, NEW g, IsJoin(q, n, g), \A p \in 0 .. n : q[p] = <<>>
    PROVE  g[n] = <<>>
<1>1. g[0] = q[0] /\ \A p \in 1 .. n : g[p] = g[p - 1] \o q[p]
  <2>1. n \in Nat
    OBVIOUS
  <2> QED BY <2>1, JoinUnfolds, Zenon
<1>2. CASE n = 1
  <2>1. 1 \in 1 .. n /\ 1 - 1 = 0 /\ 1 \in 0 .. n
    BY <1>2
  <2>2. g[1] = g[0] \o q[1]
    BY <1>1, <2>1
  <2>3. <<>> \o <<>> = <<>>
    OBVIOUS
  <2> QED BY <1>1, <1>2, <2>1, <2>2, <2>3
<1>3. n = 0 => 0 \in 0 .. n
  OBVIOUS
<1> QED BY <1>1, <1>2, <1>3

\* The samples of each track that are in the files of the song.
Done == IF exSam < TransLen(exJob) THEN exSam ELSE WholeLength

\* The files of a song hold the samples that were asked for, up to where the
\* loop is.
ExactInv ==
    exPc \in {"block", "songdone"} /\ ~exJob.mixdown /\ Regular(exSong) =>
      /\ exPc = "block" => exSam < TransLen(exJob)
      /\ exPc = "songdone" /\ ~exCancel => exSam >= TransLen(exJob)
      /\ exSam < TransLen(exJob) => Progress(exSam)
      /\ \A t \in GroupFirsts(exJob) : Exported(exSong, t) = Wanted(exSong, t, Done)

\* Nothing is written of the songs to come.
SongsToCome ==
    exPc \in {"song", "block", "songdone"} =>
      \A f \in DOMAIN exFiles :
        f.song > exSong \/ (exPc = "song" /\ f.song = exSong) => exFiles[f] = <<OldFile>>

LEMMA SongsToComeStep ==
    ASSUME ExTypeInv, SongsToCome, [ExportNext]_exportVars
    PROVE  SongsToCome'
<1> SUFFICES ASSUME exPc' \in {"song", "block", "songdone"}, NEW f \in DOMAIN exFiles',
                    f.song > exSong' \/ (exPc' = "song" /\ f.song = exSong')
             PROVE  exFiles'[f] = <<OldFile>>
  BY DEF SongsToCome
<1>1. \A e \in DOMAIN exFiles : e.song \in Nat
  BY DEF ExTypeInv, ExportFile
<1>2. exSong \in Nat
  BY DEF ExTypeInv
<1>3. CASE PrepareJob
  BY <1>3 DEF PrepareJob
<1>4. CASE StartSong
  <2>1. /\ exPc = "song" /\ exSong' = exSong /\ exPc' # "song"
        /\ exFiles' = exFiles \/ exFiles' = OpenPart(exFiles, exPart')
    BY <1>4, StartOpens DEF StartSong
  <2>2. PICK part : part = exPart'
    OBVIOUS
  <2>3. f.song > exSong
    BY <2>1
  <2>4. CASE exFiles' = OpenPart(exFiles, part)
    <3>1. f \notin {FileOf(t, part) : t \in GroupFirsts(exJob)}
      BY <1>2, <2>3 DEF FileOf
    <3>2. f \in DOMAIN exFiles /\ exFiles'[f] = exFiles[f]
      <4> DEFINE firsts == {FileOf(t, part) : t \in GroupFirsts(exJob)}
      <4>1. DOMAIN OpenPart(exFiles, part) = DOMAIN exFiles \cup firsts
            /\ \A e \in DOMAIN OpenPart(exFiles, part) :
                 OpenPart(exFiles, part)[e] = IF e \in firsts THEN <<>> ELSE exFiles[e]
        BY OpenedFiles
      <4> HIDE DEF firsts
      <4> QED BY <2>4, <3>1, <4>1 DEF firsts
    <3> QED BY <2>1, <2>3, <3>2 DEF SongsToCome
  <2> QED BY <2>1, <2>2, <2>3, <2>4 DEF SongsToCome
<1>5. ASSUME NEW buf, CopyTurn(buf) PROVE exFiles'[f] = <<OldFile>>
  <2>1. /\ exPc = "block" /\ exSong' = exSong /\ exPc' # "song"
        /\ exFiles' = [e \in DOMAIN TurnOpen |->
             IF ~exJob.mixdown /\ e.song = exSong /\ e.part = TurnPart
                /\ e.track \in GroupFirsts(exJob)
             THEN TurnOpen[e] \o TurnWrites(buf, e.track) ELSE TurnOpen[e]]
    BY <1>5, TurnIs
  <2>2. f.song > exSong /\ f.song # exSong
    BY <1>2, <2>1
  <2>3. f \in DOMAIN TurnOpen /\ exFiles'[f] = TurnOpen[f]
    BY <2>1, <2>2
  <2>4. f \in DOMAIN exFiles /\ TurnOpen[f] = exFiles[f]
    <3> DEFINE firsts == {FileOf(t, TurnPart) : t \in GroupFirsts(exJob)}
    <3>1. f \notin firsts
      BY <2>2 DEF FileOf
    <3>2. DOMAIN OpenPart(exFiles, TurnPart) = DOMAIN exFiles \cup firsts
          /\ \A e \in DOMAIN OpenPart(exFiles, TurnPart) :
               OpenPart(exFiles, TurnPart)[e] = IF e \in firsts THEN <<>> ELSE exFiles[e]
      BY OpenedFiles
    <3> HIDE DEF firsts
    <3> QED BY <2>3, <3>1, <3>2 DEF TurnOpen
  <2> QED BY <2>1, <2>2, <2>3, <2>4 DEF SongsToCome
<1>6. CASE OpenFails \/ ReadCrashes
  BY <1>6 DEF OpenFails, ReadCrashes
<1>7. CASE StopTransfer
  BY <1>7 DEF StopTransfer, SongsToCome
<1>8. CASE NextSong
  <2>1. /\ exPc = "songdone" /\ exFiles' = exFiles
        /\ exPc' = "song" /\ exSong' = exSong + 1
    BY <1>8 DEF NextSong
  <2>2. f.song > exSong
    BY <1>1, <1>2, <2>1
  <2> QED BY <2>1, <2>2 DEF SongsToCome
<1>9. CASE UNCHANGED exportVars
  BY <1>9 DEF exportVars, SongsToCome
<1> QED BY <1>3, <1>4, <1>5, <1>6, <1>7, <1>8, <1>9, TurnHasBuffer DEF ExportNext

\* When a song is begun its parts are empty.
LEMMA StartParts ==
    ASSUME ExTypeInv, SongsToCome, StartSong, ~exJob.mixdown, NEW t \in GroupFirsts(exJob)
    PROVE  /\ exPart' \in {0, 1}
           /\ \A p \in 0 .. exPart' : PartOf(exFiles', exSong, t, p) = <<>>
<1>1. /\ exPc = "song" /\ exPart' \in {0, 1} /\ exFiles' = OpenPart(exFiles, exPart')
  BY StartOpens DEF StartSong
<1>2. PICK part \in {0, 1} : part = exPart'
  BY <1>1
<1>3. PICK files : files = exFiles' /\ files = OpenPart(exFiles, part)
  BY <1>1, <1>2
<1>4. ASSUME NEW p \in 0 .. part
      PROVE  PartOf(files, exSong, t, p) = <<>>
  <2>1. FileOf(t, p).song = exSong
    BY DEF FileOf
  <2>2. ASSUME FileOf(t, p) \in DOMAIN files
        PROVE  files[FileOf(t, p)] \in {<<>>, <<OldFile>>}
    <3>1. FileOf(t, p) \in DOMAIN exFiles => exFiles[FileOf(t, p)] = <<OldFile>>
      BY <1>1, <2>1 DEF SongsToCome
    <3> QED BY <1>3, <2>2, <3>1, OpenedFile
  <2>3. PartOf(files, exSong, t, p) =
          IF FileOf(t, p) \in DOMAIN files /\ files[FileOf(t, p)] # <<OldFile>>
          THEN files[FileOf(t, p)] ELSE <<>>
    BY DEF PartOf, FileOf
  <2> QED BY <2>2, <2>3
<1> QED BY <1>2, <1>3, <1>4

\* A turn of the loop writes to the last part, or to a new one.
LEMMA CopyParts ==
    ASSUME ExTypeInv, NEW buf \in [BufferSamples -> ExSamples], CopyTurn(buf),
           ~exJob.mixdown, NEW t \in GroupFirsts(exJob)
    PROVE  /\ exPart \in Nat /\ exPart' \in {exPart, exPart + 1}
           /\ \A p \in 0 .. exPart : PartOf(exFiles, exSong, t, p) \in Seq(ExSamples)
           /\ \A p \in 0 .. exPart : p # exPart' =>
                PartOf(exFiles', exSong, t, p) = PartOf(exFiles, exSong, t, p)
           /\ PartOf(exFiles', exSong, t, exPart') =
                IF exPart' = exPart THEN PartOf(exFiles, exSong, t, exPart) \o TurnWrites(buf, t)
                ELSE TurnWrites(buf, t)
           /\ TurnWrites(buf, t) \in Seq(ExSamples)
<1>1. /\ exPc = "block" /\ exPart \in Nat /\ exPart' = TurnPart
      /\ TurnPart \in {exPart, exPart + 1}
      /\ TurnWrites(buf, t) \in Seq(ExSamples)
      /\ FileOf(t, exPart) \in DOMAIN exFiles /\ exFiles[FileOf(t, exPart)] \in Seq(ExSamples)
  BY TurnIs, TurnWritesType DEF TurnPart, ExTypeInv
<1>2. PICK part : part = TurnPart /\ part = exPart' /\ part \in {exPart, exPart + 1}
  BY <1>1
<1>3. PICK files : files = exFiles'
        /\ files = [f \in DOMAIN TurnOpen |->
             IF ~exJob.mixdown /\ f.song = exSong /\ f.part = part
                /\ f.track \in GroupFirsts(exJob)
             THEN TurnOpen[f] \o TurnWrites(buf, f.track) ELSE TurnOpen[f]]
  BY <1>2, TurnIs
<1>4. part = exPart + 1 => TurnOpen = OpenPart(exFiles, part)
  BY <1>1, <1>2 DEF TurnOpen, TurnPart
<1>5. part = exPart => TurnOpen = exFiles
  BY <1>1, <1>2 DEF TurnOpen, TurnPart
<1>6. \A fs, p : PartOf(fs, exSong, t, p) =
                   IF FileOf(t, p) \in DOMAIN fs /\ fs[FileOf(t, p)] # <<OldFile>>
                   THEN fs[FileOf(t, p)] ELSE <<>>
  BY DEF PartOf, FileOf
<1>7. \A p : FileOf(t, p).song = exSong /\ FileOf(t, p).track = t /\ FileOf(t, p).part = p
  BY DEF FileOf
<1>8. ASSUME NEW p \in 0 .. exPart
      PROVE  PartOf(exFiles, exSong, t, p) \in Seq(ExSamples)
  <2>1. FileOf(t, p) \in DOMAIN exFiles /\ exFiles[FileOf(t, p)] # <<OldFile>> =>
          exFiles[FileOf(t, p)] \in Seq(ExSamples)
    BY DEF ExTypeInv
  <2>2. <<>> \in Seq(ExSamples)
    BY EmptySeq
  <2> HIDE DEF ExSamples
  <2> QED BY <1>6, <2>1, <2>2
<1>9. ASSUME NEW p \in 0 .. exPart, p # part
      PROVE  PartOf(files, exSong, t, p) = PartOf(exFiles, exSong, t, p)
  <2>1. /\ FileOf(t, p) \in DOMAIN TurnOpen <=> FileOf(t, p) \in DOMAIN exFiles
        /\ FileOf(t, p) \in DOMAIN exFiles => TurnOpen[FileOf(t, p)] = exFiles[FileOf(t, p)]
    <3>1. CASE part = exPart + 1
      <4> DEFINE firsts == {FileOf(u, part) : u \in GroupFirsts(exJob)}
      <4>1. DOMAIN OpenPart(exFiles, part) = DOMAIN exFiles \cup firsts
            /\ \A e \in DOMAIN OpenPart(exFiles, part) :
                 OpenPart(exFiles, part)[e] = IF e \in firsts THEN <<>> ELSE exFiles[e]
        BY OpenedFiles
      <4>2. FileOf(t, p) \notin firsts
        BY <1>9 DEF FileOf
      <4> HIDE DEF firsts
      <4> QED BY <1>4, <3>1, <4>1, <4>2
    <3> QED BY <1>2, <1>5, <3>1
  <2>2. /\ FileOf(t, p) \in DOMAIN files <=> FileOf(t, p) \in DOMAIN exFiles
        /\ FileOf(t, p) \in DOMAIN exFiles => files[FileOf(t, p)] = exFiles[FileOf(t, p)]
    BY <1>3, <1>7, <1>9, <2>1
  <2> QED BY <1>6, <2>2
<1>10. PartOf(files, exSong, t, part) =
         IF part = exPart THEN PartOf(exFiles, exSong, t, exPart) \o TurnWrites(buf, t)
         ELSE TurnWrites(buf, t)
  <2> DEFINE f == FileOf(t, part)
  <2>1. f \in DOMAIN TurnOpen /\ (part = exPart => TurnOpen[f] = exFiles[f])
        /\ (part = exPart + 1 => TurnOpen[f] = <<>>)
    <3>1. CASE part = exPart
      BY <1>1, <1>5, <3>1
    <3>2. CASE part = exPart + 1
      <4>1. f \in DOMAIN OpenPart(exFiles, part) /\ OpenPart(exFiles, part)[f] = <<>>
        <5> DEFINE firsts == {FileOf(u, part) : u \in GroupFirsts(exJob)}
        <5>1. DOMAIN OpenPart(exFiles, part) = DOMAIN exFiles \cup firsts
              /\ \A e \in DOMAIN OpenPart(exFiles, part) :
                   OpenPart(exFiles, part)[e] = IF e \in firsts THEN <<>> ELSE exFiles[e]
          BY OpenedFiles
        <5>2. f \in firsts
          OBVIOUS
        <5> HIDE DEF firsts, f
        <5> QED BY <5>1, <5>2
      <4> QED BY <1>1, <1>4, <3>2, <4>1
    <3> QED BY <1>2, <3>1, <3>2
  <2>2. f \in DOMAIN files /\ files[f] = TurnOpen[f] \o TurnWrites(buf, t)
    <3> HIDE DEF f
    <3>1. f.song = exSong /\ f.track = t /\ f.part = part
      BY <1>7 DEF f
    <3> QED BY <1>3, <2>1, <3>1
  <2>3. CASE part = exPart
    <3>1. exFiles[f] \in Seq(ExSamples)
      BY <1>1, <2>3
    <3>2. PICK old \in Seq(ExSamples) : old = exFiles[f]
      BY <3>1
    <3>3. PICK w \in Seq(ExSamples) : w = TurnWrites(buf, t)
      BY <1>1
    <3>4. old \o w \in Seq(ExSamples)
      <4> HIDE DEF ExSamples
      <4> QED BY ConcatProperties
    <3>5. PartOf(exFiles, exSong, t, exPart) = old
      BY <1>1, <1>6, <2>3, <3>2, OldIsNotWritten
    <3>6. files[f] = old \o w
      BY <2>1, <2>2, <2>3, <3>2, <3>3
    <3>7. PartOf(files, exSong, t, part) = old \o w
      BY <1>6, <2>2, <3>4, <3>6, OldIsNotWritten
    <3> QED BY <2>3, <3>3, <3>5, <3>7
  <2>4. CASE part = exPart + 1
    <3>1. PICK w \in Seq(ExSamples) : w = TurnWrites(buf, t)
      BY <1>1
    <3>2. <<>> \o w = w
      <4> HIDE DEF ExSamples
      <4> QED BY ConcatEmptySeq
    <3>3. files[f] = w
      BY <2>1, <2>2, <2>4, <3>1, <3>2
    <3>4. PartOf(files, exSong, t, part) = w
      BY <1>6, <2>2, <3>3, OldIsNotWritten
    <3> QED BY <1>1, <2>4, <3>1, <3>4
  <2> QED BY <1>2, <2>3, <2>4
<1> QED BY <1>1, <1>2, <1>3, <1>8, <1>9, <1>10

\* Nothing but the job decides what is wanted.
LEMMA JobDecides ==
    ASSUME exJob' = exJob
    PROVE  /\ \A song : Regular(song)' <=> Regular(song)
           /\ \A song, t, n : Wanted(song, t, n)' = Wanted(song, t, n)
           /\ \A s : Progress(s)' <=> Progress(s)
           /\ WholeLength' = WholeLength
BY DEF Regular, Wanted, Progress, WholeLength

LEMMA NothingWanted ==
    ASSUME exJob \in ExportJob, NEW song, NEW t
    PROVE  Wanted(song, t, 0) = <<>>
<1>1. IsFiniteSet(exJob.sel)
  BY JobNumbers
<1>2. PICK c \in Nat : c = Cardinality(GroupOf(exJob, t))
  BY <1>1, FS_Subset, FS_CardinalityType DEF GroupOf
<1>3. 1 .. 0 * c = {}
  <2>1. 0 * c = 0
    OBVIOUS
  <2> QED BY <2>1
<1> DEFINE W(i) == <<song, InGroup(GroupOf(exJob, t), ((i - 1) % c) + 1),
                     exJob.chanmult * ExStart(exJob) + ((i - 1) \div c)>>
<1>4. Wanted(song, t, 0) = [i \in 1 .. 0 * c |-> W(i)]
  BY <1>2 DEF Wanted
<1>5. [i \in {} |-> W(i)] = <<>>
  <2> HIDE DEF W
  <2> QED OBVIOUS
<1> HIDE DEF W
<1> QED BY <1>3, <1>4, <1>5

\* A song begins with nothing written.
LEMMA StartIsExact ==
    ASSUME ExTypeInv, ExTypeInv', SongsToCome, StartSong
    PROVE  ExactInv'
<1>1. /\ exPc = "song" /\ exJob' = exJob /\ exSong' = exSong /\ exSam' = 0
      /\ exPc' = IF TransLen(exJob) = 0 THEN "songdone" ELSE "block"
      /\ exJob \in ExportJob /\ exPart' \in {0, 1}
  BY StartOpens DEF StartSong, ExTypeInv
<1> SUFFICES ASSUME ~exJob.mixdown, Regular(exSong)
             PROVE  /\ exPc' = "block" /\ 0 < TransLen(exJob) /\ Progress(0)
                    /\ \A t \in GroupFirsts(exJob) :
                         Exported(exSong, t)' = Wanted(exSong, t, 0)
  <2>1. /\ \A song : Regular(song)' <=> Regular(song)
        /\ \A song, t, n : Wanted(song, t, n)' = Wanted(song, t, n)
        /\ \A s : Progress(s)' <=> Progress(s)
    BY <1>1, JobDecides
  <2>2. 0 < TransLen(exJob) => Done' = 0
    BY <1>1 DEF Done
  <2> QED BY <1>1, <2>1, <2>2 DEF ExactInv
<1>2. TransLen(exJob) \in Nat /\ TransLen(exJob) >= BlockSamples /\ BlockSamples \in Nat \ {0}
  BY <1>1, JobNumbers, BlockSize DEF Regular
<1>3. ASSUME NEW t \in GroupFirsts(exJob)
      PROVE  Exported(exSong, t)' = Wanted(exSong, t, 0)
  <2>1. PICK part \in {0, 1} : part = exPart'
    BY <1>1
  <2>2. PICK g : IsJoin(PartsOf(exFiles', exSong, t), part, g) /\ Exported(exSong, t)' = g[part]
    <3>1. ExportedJoins'
      BY <1>1, ExportedIsJoinNext DEF PartIsNumber
    <3> QED BY <1>1, <2>1, <3>1 DEF ExportedJoins
  <2>3. \A p \in 0 .. part : PartsOf(exFiles', exSong, t)[p] = <<>>
    <3>1. \A p \in 0 .. part : PartOf(exFiles', exSong, t, p) = <<>>
      BY <2>1, StartParts
    <3> QED BY <3>1 DEF PartsOf
  <2>4. g[part] = <<>>
    BY <2>2, <2>3, JoinOfNothing
  <2> QED BY <1>1, <2>2, <2>4, NothingWanted
<1> QED BY <1>1, <1>2, <1>3 DEF Progress

\* A turn of the loop adds the samples that are wanted next.
LEMMA CopyIsExactStep ==
    ASSUME ExTypeInv, ExTypeInv', ExactInv, CopyBlock \/ CopyDamaged
    PROVE  ExactInv'
<1>0. PICK buf \in [BufferSamples -> ExSamples] :
        CopyTurn(buf) /\ (~Overruns(exJob.sel, exJob.chanmult) => buf = TurnBuf)
  BY TurnHasBuffer
<1>1. /\ exPc = "block" /\ ~exCancel /\ exCancel' = exCancel
      /\ exJob' = exJob /\ exSong' = exSong
      /\ exSam' = exSam + SamsInCurrBlock(exJob, exSam)
      /\ exPc' = IF exSam' < TransLen(exJob) THEN "block" ELSE "songdone"
  BY <1>0, TurnIs
<1>2. exJob \in ExportJob /\ exSam \in Nat /\ exSam' \in Nat /\ exPart' \in Nat
  BY DEF ExTypeInv
<1> DEFINE sub == SubBlock(exJob, exSam)
<1> SUFFICES ASSUME ~exJob.mixdown, Regular(exSong)
             PROVE  /\ exSam' < TransLen(exJob) => Progress(exSam')
                    /\ exSam' < TransLen(exJob) => exSam + sub = exSam'
                    /\ exSam' >= TransLen(exJob) => exSam + sub = WholeLength
                    /\ \A t \in GroupFirsts(exJob) :
                         Exported(exSong, t)' = Wanted(exSong, t, exSam + sub)
  <2>1. /\ \A song : Regular(song)' <=> Regular(song)
        /\ \A song, t, n : Wanted(song, t, n)' = Wanted(song, t, n)
        /\ \A s : Progress(s)' <=> Progress(s)
        /\ WholeLength' = WholeLength
    BY <1>1, JobDecides
  <2>2. TransLen(exJob) \in Nat
    BY <1>2, JobNumbers
  <2>3. exSam' < TransLen(exJob) \/ exSam' >= TransLen(exJob)
    BY <1>2, <2>2
  <2>4. /\ exSam' < TransLen(exJob) => Done' = exSam'
        /\ exSam' >= TransLen(exJob) => Done' = WholeLength
    BY <1>1, <1>2, <2>1, <2>2 DEF Done
  <2> HIDE DEF sub
  <2> QED BY <1>1, <1>2, <2>1, <2>2, <2>3, <2>4 DEF ExactInv
<1>3. /\ exSam < TransLen(exJob) /\ Progress(exSam)
      /\ \A t \in GroupFirsts(exJob) : Exported(exSong, t) = Wanted(exSong, t, exSam)
  BY <1>1 DEF ExactInv, Done
<1>4. /\ TransLen(exJob) >= BlockSamples /\ (exJob.chanmult = 2 => ExStart(exJob) = 0)
      /\ ~Overruns(exJob.sel, exJob.chanmult)
  BY DEF Regular
<1>5. /\ exSam' < TransLen(exJob) => exSam + sub = exSam'
      /\ exSam' >= TransLen(exJob) => exSam + sub = WholeLength
  BY <1>1, <1>2, <1>3, <1>4, TurnDone
<1>6. exSam' < TransLen(exJob) => Progress(exSam')
  <2>1. Progress(exSam + SamsInCurrBlock(exJob, exSam))
    BY <1>2, <1>3, <1>4, TurnPlace
  <2> QED BY <1>1, <2>1
<1>7. ASSUME NEW t \in GroupFirsts(exJob)
      PROVE  Exported(exSong, t)' = Wanted(exSong, t, exSam + sub)
  <2>1. PICK files, m : files = exFiles' /\ m = exPart'
    OBVIOUS
  <2>2. /\ exPart \in Nat /\ m \in {exPart, exPart + 1} /\ m \in Nat
        /\ \A p \in 0 .. exPart : PartOf(exFiles, exSong, t, p) \in Seq(ExSamples)
        /\ \A p \in 0 .. exPart : p # m =>
             PartOf(files, exSong, t, p) = PartOf(exFiles, exSong, t, p)
        /\ PartOf(files, exSong, t, m) =
             IF m = exPart THEN PartOf(exFiles, exSong, t, exPart) \o TurnWrites(buf, t)
             ELSE TurnWrites(buf, t)
        /\ TurnWrites(buf, t) \in Seq(ExSamples)
    BY <1>0, <1>2, <2>1, CopyParts
  <2>3. \A fs, p : p \in Nat => PartsOf(fs, exSong, t)[p] = PartOf(fs, exSong, t, p)
    BY DEF PartsOf
  <2>4. PICK g : IsJoin(PartsOf(exFiles, exSong, t), exPart, g)
                 /\ Exported(exSong, t) = g[exPart]
    BY <2>2, ExportedIsJoin DEF PartIsNumber, ExportedJoins
  <2>5. PICK h : IsJoin(PartsOf(files, exSong, t), m, h) /\ Exported(exSong, t)' = h[m]
    <3>1. ExportedJoins'
      BY <1>2, ExportedIsJoinNext DEF PartIsNumber
    <3>2. PICK h : IsJoin(PartsOf(exFiles', exSong, t), exPart', h)
                   /\ Exported(exSong, t)' = h[exPart']
      BY <1>1, <3>1 DEF ExportedJoins
    <3> QED BY <2>1, <3>2
  <2>6. PICK q, r : q = PartsOf(exFiles, exSong, t) /\ r = PartsOf(files, exSong, t)
    OBVIOUS
  <2>7. PICK w \in Seq(ExSamples) : w = TurnWrites(buf, t)
    BY <2>2
  <2>8. \A p \in 0 .. exPart : p \in Nat
    BY <2>2
  <2>9. /\ \A p \in 0 .. exPart : q[p] \in Seq(ExSamples)
        /\ \A p \in 0 .. exPart : p # m => r[p] = q[p]
        /\ r[m] = IF m = exPart THEN q[exPart] \o w ELSE w
    <3> HIDE DEF ExSamples
    <3> QED BY <2>2, <2>3, <2>6, <2>7, <2>8
  <2>10. g[exPart] \in Seq(ExSamples) /\ h[m] = g[exPart] \o w
    <3>1. IsJoin(q, exPart, g) /\ IsJoin(r, m, h)
      BY <2>4, <2>5, <2>6
    <3> HIDE DEF ExSamples
    <3>2. PICK n \in Nat : n = exPart /\ (m = n \/ m = n + 1) /\ m \in Nat
      BY <2>2
    <3>3. IsGrown(ExSamples, q, n, r, m, w)
      BY <2>9, <3>2 DEF IsGrown
    <3>4. IsJoin(q, n, g) /\ IsJoin(r, m, h)
      BY <3>1, <3>2
    <3>5. IsAppended(ExSamples, g[n], w, h[m])
      BY <2>7, <3>2, <3>3, <3>4, JoinGrows, Zenon
    <3> QED BY <3>2, <3>5 DEF IsAppended
  <2>11. w = WantedFrom(exSong, t, exSam, sub)
    BY <1>0, <1>1, <1>3, <1>4, <2>7, TurnIsWanted
  <2>12. sub \in Nat
    BY <1>0, TurnWritesType
  <2>13. Wanted(exSong, t, exSam) = g[exPart]
    BY <1>3, <2>4
  <2>14. Wanted(exSong, t, exSam) \o WantedFrom(exSong, t, exSam, sub)
           = Wanted(exSong, t, exSam + sub)
    <3>1. /\ Wanted(exSong, t, exSam) \in Seq(ExSamples)
          /\ WantedFrom(exSong, t, exSam, sub) \in Seq(ExSamples)
      BY <2>10, <2>11, <2>13
    <3> HIDE DEF sub
    <3> QED BY <1>2, <2>12, <3>1, WantedJoins
  <2> HIDE DEF sub
  <2> QED BY <2>5, <2>10, <2>11, <2>13, <2>14
<1> QED BY <1>5, <1>6, <1>7

\* The invariant holds at first and is kept by every step.
LEMMA ExactInvStep ==
    ExTypeInv /\ ExTypeInv' /\ SongsToCome /\ ExactInv /\ [ExportNext]_exportVars => ExactInv'
<1> SUFFICES ASSUME ExTypeInv, ExTypeInv', SongsToCome, ExactInv, [ExportNext]_exportVars
             PROVE  ExactInv'
  OBVIOUS
<1>1. CASE PrepareJob
  BY <1>1 DEF PrepareJob, ExactInv
<1>2. CASE StartSong
  BY <1>2, StartIsExact
<1>3. CASE OpenFails \/ ReadCrashes
  BY <1>3 DEF OpenFails, ReadCrashes, ExactInv
<1>4. CASE CopyBlock \/ CopyDamaged
  BY <1>4, CopyIsExactStep
<1>5. CASE StopTransfer
  <2>1. /\ exPc \in {"block", "songdone"} /\ ~exCancel /\ exPc' = "songdone" /\ exCancel'
        /\ UNCHANGED <<exJob, exSong, exSam, exPart, exFiles>>
    BY <1>5 DEF StopTransfer
  <2>2. \A song, t : Exported(song, t)' = Exported(song, t)
    BY <2>1 DEF Exported
  <2>3. Done' = Done
    BY <2>1, JobDecides DEF Done
  <2> QED BY <2>1, <2>2, <2>3, JobDecides DEF ExactInv
<1>6. CASE NextSong
  BY <1>6 DEF NextSong, ExactInv
<1>7. CASE UNCHANGED exportVars
  <2>1. /\ UNCHANGED <<exJob, exPc, exSong, exSam, exPart, exCancel, exFiles>>
    BY <1>7 DEF exportVars
  <2>2. \A song, t : Exported(song, t)' = Exported(song, t)
    BY <2>1 DEF Exported
  <2>3. Done' = Done
    BY <2>1, JobDecides DEF Done
  <2> QED BY <2>1, <2>2, <2>3, JobDecides DEF ExactInv
<1> QED BY <1>1, <1>2, <1>3, <1>4, <1>5, <1>6, <1>7 DEF ExportNext

\* What is wanted begins with less of the same.
LEMMA WantedBegins ==
    ASSUME exJob \in ExportJob, NEW song, NEW t, NEW n \in Nat, NEW m \in Nat, n <= m
    PROVE  LET got == Wanted(song, t, n)
               all == Wanted(song, t, m)
           IN  Len(got) <= Len(all) /\ got = SubSeq(all, 1, Len(got))
<1>1. PICK c \in Nat : c = Cardinality(GroupOf(exJob, t))
  <2>1. IsFiniteSet(exJob.sel)
    BY JobNumbers
  <2> QED BY <2>1, FS_Subset, FS_CardinalityType DEF GroupOf
<1>2. PICK nc \in Nat, mc \in Nat : nc = n * c /\ mc = m * c /\ nc <= mc
  BY ProductIsNat, ProductsGrow
<1> DEFINE W(i) == <<song, InGroup(GroupOf(exJob, t), ((i - 1) % c) + 1),
                     exJob.chanmult * ExStart(exJob) + ((i - 1) \div c)>>
           got == Wanted(song, t, n)
           all == Wanted(song, t, m)
<1>3. got = [i \in 1 .. nc |-> W(i)] /\ all = [i \in 1 .. mc |-> W(i)]
  BY <1>1, <1>2 DEF Wanted
<1> HIDE DEF W, got, all
<1>4. /\ DOMAIN got = 1 .. nc /\ Len(got) = nc /\ Len(all) = mc
      /\ \A i \in 1 .. nc : got[i] = W(i) /\ all[i] = W(i)
  BY <1>2, <1>3
<1>5. PICK S : \A i \in 1 .. nc : all[i] \in S
  <2>1. \A i \in 1 .. nc : all[i] \in {all[k] : k \in 1 .. nc}
    OBVIOUS
  <2> QED BY <2>1
<1>6. /\ SubSeq(all, 1, nc) \in Seq(S) /\ Len(SubSeq(all, 1, nc)) = nc
      /\ \A i \in 1 .. nc : SubSeq(all, 1, nc)[i] = all[i]
  <2>1. /\ SubSeq(all, 1, nc) \in Seq(S)
        /\ Len(SubSeq(all, 1, nc)) = IF 1 <= nc THEN nc - 1 + 1 ELSE 0
        /\ \A i \in 1 .. nc - 1 + 1 : SubSeq(all, 1, nc)[i] = all[1 + i - 1]
    <3>1. 1 \in Int /\ nc \in Int
      OBVIOUS
    <3> QED BY <1>5, <3>1, SubSeqProperties
  <2> QED BY <2>1
<1>7. got = SubSeq(all, 1, nc)
  <2>1. got = [i \in 1 .. nc |-> W(i)] /\ SubSeq(all, 1, nc) \in [1 .. nc -> S]
    BY <1>3, <1>6, LenProperties
  <2> QED BY <1>4, <1>6, <2>1
<1>8. Len(got) <= Len(all) /\ got = SubSeq(all, 1, Len(got))
  BY <1>2, <1>4, <1>7
<1> QED BY <1>8 DEF got, all

\* Any songs, tracks, files of any number of channels, any range and limit
\* that are copied right at all: the files hold every sample that was asked
\* for once and in its place, whatever the user stops and wherever the parts
\* of a split file end.
THEOREM FilesHoldTheSong == ExportSpec => []ExportIsExact
<1>1. ExportInit => ExactInv /\ SongsToCome
  BY DEF ExportInit, ExactInv, SongsToCome
<1>2. ExTypeInv /\ SongsToCome /\ [ExportNext]_exportVars => SongsToCome'
  BY SongsToComeStep
<1>3. ExTypeInv /\ ExactInv => ExportIsExact
  <2> SUFFICES ASSUME ExTypeInv, ExactInv, NEW t \in GroupFirsts(exJob),
                      exPc \in {"block", "songdone"}, ~exJob.mixdown, Regular(exSong)
               PROVE  LET all == Wanted(exSong, t, WholeLength)
                          got == Exported(exSong, t)
                      IN  /\ Len(got) <= Len(all) /\ got = SubSeq(all, 1, Len(got))
                          /\ (exPc = "songdone" /\ ~exCancel) => got = all
    BY DEF ExportIsExact
  <2>1. exJob \in ExportJob /\ exSam \in Nat
    BY DEF ExTypeInv
  <2>2. TransLen(exJob) \in Nat /\ TransLen(exJob) >= BlockSamples /\ BlockSamples \in Nat \ {0}
    BY <2>1, JobNumbers, BlockSize DEF Regular
  <2>3. /\ exSam < TransLen(exJob) => Progress(exSam)
        /\ exPc = "songdone" /\ ~exCancel => exSam >= TransLen(exJob)
        /\ Exported(exSong, t) = Wanted(exSong, t, Done)
    BY DEF ExactInv
  <2>4. WholeLength \in Nat /\ (exSam < TransLen(exJob) => exSam <= WholeLength)
    <3>1. exSam < TransLen(exJob) => WholeLength \in Nat /\ exSam <= WholeLength
      BY <2>1, <2>2, <2>3, TurnDone
    <3>2. WholeLength \in {TransLen(exJob), TransLen(exJob) - BlockSamples}
      BY DEF WholeLength
    <3> QED BY <2>2, <3>1, <3>2
  <2>5. Done \in Nat /\ Done <= WholeLength
    BY <2>1, <2>4 DEF Done
  <2>6. exPc = "songdone" /\ ~exCancel => Done = WholeLength
    BY <2>1, <2>2, <2>3 DEF Done
  <2> HIDE DEF Done
  <2>7. LET got == Wanted(exSong, t, Done)
            all == Wanted(exSong, t, WholeLength)
        IN  Len(got) <= Len(all) /\ got = SubSeq(all, 1, Len(got))
    BY <2>1, <2>4, <2>5, WantedBegins
  <2> QED BY <2>3, <2>6, <2>7
<1> QED BY <1>1, <1>2, <1>3, ExactInvStep, ExTypes, PTL DEF ExportSpec

------------------------------------------------------------------------------
(* Import: the place of a sample in its block, and the block made of the    *)
(* files.                                                                   *)

\* Where sample i of a block is within its track.
InTrack(chanmult, i) ==
    IF chanmult = 1 THEN i ELSE (i \div 2) + (i % 2) * (BlockSamples \div 2)

\* Each sample of a block has a place of its own.
LEMMA PlaceInTrack ==
    ASSUME NEW cm \in {1, 2}, NEW i \in 0 .. BlockSamples - 1
    PROVE  /\ InTrack(cm, i) \in 0 .. BlockSamples - 1
           /\ \A k \in 0 .. BlockSamples - 1 : InTrack(cm, k) = InTrack(cm, i) => k = i
<1>1. PICK half \in Nat \ {0} : half = BlockSamples \div 2 /\ BlockSamples = 2 * half
  BY HalfBlock
<1>2. CASE cm = 1
  BY <1>2 DEF InTrack
<1>3. CASE cm = 2
  <2>1. \A k \in 0 .. BlockSamples - 1 :
          InTrack(cm, k) = IF k % 2 = 0 THEN k \div 2 ELSE (k \div 2) + half
    <3>1. \A k \in 0 .. BlockSamples - 1 : InTrack(cm, k) = (k \div 2) + (k % 2) * half
      BY <1>1, <1>3 DEF InTrack
    <3>2. \A k \in 0 .. BlockSamples - 1 :
            k % 2 \in {0, 1} /\ k \div 2 \in Nat
      BY <1>1
    <3>3. 0 * half = 0 /\ 1 * half = half
      OBVIOUS
    <3> QED BY <3>1, <3>2, <3>3
  <2>2. \A k \in 0 .. BlockSamples - 1 :
          k \div 2 \in 0 .. half - 1 /\ k % 2 \in {0, 1} /\ k = 2 * (k \div 2) + (k % 2)
    BY <1>1
  <2>3. PICK q \in 0 .. half - 1, r \in {0, 1} : q = i \div 2 /\ r = i % 2 /\ i = 2 * q + r
    BY <2>2
  <2>4. InTrack(cm, i) = IF r = 0 THEN q ELSE q + half
    BY <2>1, <2>3
  <2>5. ASSUME NEW k \in 0 .. BlockSamples - 1, InTrack(cm, k) = InTrack(cm, i)
        PROVE  k = i
    <3>1. PICK u \in 0 .. half - 1, v \in {0, 1} : u = k \div 2 /\ v = k % 2 /\ k = 2 * u + v
      BY <2>2
    <3>2. InTrack(cm, k) = IF v = 0 THEN u ELSE u + half
      BY <2>1, <3>1
    <3>3. u = q /\ v = r
      BY <1>1, <2>4, <2>5, <3>2
    <3> QED BY <2>3, <3>1, <3>3
  <2>6. InTrack(cm, i) \in 0 .. BlockSamples - 1
    BY <1>1, <2>4
  <2> QED BY <2>5, <2>6
<1> QED BY <1>2, <1>3

LEMMA PlaceOfSample ==
    ASSUME NEW cm \in {1, 2}, NEW t \in SongTracks, NEW i \in 0 .. BlockSamples - 1
    PROVE  /\ PlaceOf(cm, t, i) = t * BlockSamples + InTrack(cm, i)
           /\ PlaceOf(cm, t, i) \in BufferSamples
           /\ PlaceOf(cm, t, i) \div BlockSamples = t
           /\ \A k \in 0 .. BlockSamples - 1 : PlaceOf(cm, t, k) = PlaceOf(cm, t, i) => k = i
<1>1. \A k \in 0 .. BlockSamples - 1 : k % BlockSamples = k
  <2> SUFFICES ASSUME NEW k \in 0 .. BlockSamples - 1 PROVE k % BlockSamples = k
    OBVIOUS
  <2>1. BlockSamples \in Nat \ {0} /\ 0 \in Int
    BY BlockSize
  <2>2. (0 * BlockSamples + k) % BlockSamples = k
    BY <2>1, QuotientIs
  <2>3. 0 * BlockSamples + k = k
    BY <2>1
  <2> QED BY <2>2, <2>3
<1>2. \A k \in 0 .. BlockSamples - 1 :
        PlaceOf(cm, t, k) = t * BlockSamples + InTrack(cm, k)
  BY <1>1 DEF PlaceOf, InTrack
<1>3. PICK x \in 0 .. BlockSamples - 1 : x = InTrack(cm, i)
  BY PlaceInTrack
<1>4. /\ t * BlockSamples + x \in BufferSamples
      /\ (t * BlockSamples + x) \div BlockSamples = t
  BY PlaceInBuffer
<1>5. ASSUME NEW k \in 0 .. BlockSamples - 1, PlaceOf(cm, t, k) = PlaceOf(cm, t, i)
      PROVE  k = i
  <2>1. PICK y \in 0 .. BlockSamples - 1 : y = InTrack(cm, k)
    BY PlaceInTrack
  <2>2. PICK base \in Nat : base = t * BlockSamples
    BY BlockSize, ProductIsNat DEF SongTracks
  <2>3. base + y = base + x
    BY <1>2, <1>3, <1>5, <2>1, <2>2
  <2>4. y = x
    BY <2>2, <2>3, BlockSize
  <2> QED BY <1>3, <2>1, <2>4, PlaceInTrack
<1>6. PlaceOf(cm, t, i) = t * BlockSamples + x
  BY <1>2, <1>3
<1> QED BY <1>2, <1>4, <1>5, <1>6

\* Samples of the song and samples of a block.
LEMMA PlaceOfBlock ==
    ASSUME NEW cm \in {1, 2}, NEW t \in SongTracks, NEW b \in Nat,
           NEW i \in 0 .. BlockSamples - 1
    PROVE  /\ PlaceOf(cm, t, b * BlockSamples + i) = PlaceOf(cm, t, i)
           /\ (b * BlockSamples + i) \div BlockSamples = b
           /\ b * BlockSamples + i \in Nat
<1>1. BlockSamples \in Nat \ {0} /\ b \in Int /\ 0 \in Int
  BY BlockSize
<1>2. (b * BlockSamples + i) \div BlockSamples = b /\ (b * BlockSamples + i) % BlockSamples = i
  BY <1>1, QuotientIs, Zenon
<1>3. (0 * BlockSamples + i) % BlockSamples = i
  BY <1>1, QuotientIs
<1>4. 0 * BlockSamples + i = i
  BY <1>1
<1>5. i % BlockSamples = i
  BY <1>3, <1>4
<1>6. b * BlockSamples \in Nat
  BY <1>1, ProductIsNat
<1>7. PICK p : p = b * BlockSamples + i
  OBVIOUS
<1>8. p % BlockSamples = i /\ p \in Nat
  BY <1>1, <1>2, <1>6, <1>7
<1>9. PlaceOf(cm, t, p) = PlaceOf(cm, t, i)
  BY <1>5, <1>8 DEF PlaceOf
<1> QED BY <1>2, <1>7, <1>8, <1>9

\* What a buffer holds in the place of sample i of track t.
LEMMA FoundPlace ==
    ASSUME NEW cm \in {1, 2}, NEW t \in SongTracks, NEW i \in 0 .. BlockSamples - 1,
           NEW o, o = PlaceOf(cm, t, i)
    PROVE  /\ o \in BufferSamples /\ o \div BlockSamples = t
           /\ (CHOOSE k \in 0 .. BlockSamples - 1 : PlaceOf(cm, o \div BlockSamples, k) = o) = i
<1>1. o \in BufferSamples /\ o \div BlockSamples = t
      /\ \A k \in 0 .. BlockSamples - 1 : PlaceOf(cm, t, k) = o => k = i
  BY PlaceOfSample
<1>2. \A k \in 0 .. BlockSamples - 1 : PlaceOf(cm, o \div BlockSamples, k) = o <=> k = i
  BY <1>1
<1> QED BY <1>1, <1>2

LEMMA OldSample ==
    ASSUME NEW j \in ImportJob, NEW t \in SongTracks, NEW i \in 0 .. BlockSamples - 1,
           NEW b \in 0 .. BlockCount(j.length, j.chanmult) - 1
    PROVE  OldBlocks(j)[b][PlaceOf(j.chanmult, t, i)] = <<-1, t, b * BlockSamples + i>>
<1>1. j.chanmult \in {1, 2}
  BY DEF ImportJob
<1>2. PICK o : o = PlaceOf(j.chanmult, t, i)
  OBVIOUS
<1>3. PICK k : k = CHOOSE n \in 0 .. BlockSamples - 1 :
                     PlaceOf(j.chanmult, o \div BlockSamples, n) = o
  OBVIOUS
<1>4. o \in BufferSamples /\ o \div BlockSamples = t /\ k = i
  BY <1>1, <1>2, <1>3, FoundPlace
<1>5. OldBlocks(j)[b][o] = <<-1, o \div BlockSamples, b * BlockSamples + k>>
  BY <1>3, <1>4 DEF OldBlocks
<1> QED BY <1>2, <1>4, <1>5

LEMMA BufferSample ==
    ASSUME imJob \in ImportJob, NEW t \in SongTracks, NEW i \in 0 .. BlockSamples - 1
    PROVE  ImportBuffer(imJob)[PlaceOf(imJob.chanmult, t, i)] =
             IF t \in Filled(imJob) /\ i < FramesRead(imJob, t)
             THEN Frame(imJob, t, imAt[t] + i) ELSE Silence
<1>1. imJob.chanmult \in {1, 2}
  BY DEF ImportJob
<1>2. PICK o : o = PlaceOf(imJob.chanmult, t, i)
  OBVIOUS
<1>3. PICK k : k = CHOOSE n \in 0 .. BlockSamples - 1 :
                     PlaceOf(imJob.chanmult, o \div BlockSamples, n) = o
  OBVIOUS
<1>4. o \in BufferSamples /\ o \div BlockSamples = t /\ k = i
  BY <1>1, <1>2, <1>3, FoundPlace
<1>5. ImportBuffer(imJob)[o] =
        IF o \div BlockSamples \in Filled(imJob) /\ k < FramesRead(imJob, o \div BlockSamples)
        THEN Frame(imJob, o \div BlockSamples, imAt[o \div BlockSamples] + k) ELSE Silence
  BY <1>3, <1>4 DEF ImportBuffer
<1> QED BY <1>2, <1>4, <1>5

------------------------------------------------------------------------------
(* Import: the state of a transfer. *)

\* Blocks the loop has been over, and a block of the damaged part of the song
\* at or before block b.
Turns == imWam \div Wamples(imJob)
BadUpTo(b) == \E d \in imJob.bad : d <= b

\* The types, and what is open and armed in each phase.
ImTypeInv ==
    /\ imJob \in ImportJob
    /\ imPc \in {"idle", "open", "lengthen", "block", "done"}
    /\ imLength \in Nat /\ imWam \in Nat /\ imRehearse \in BOOLEAN
    /\ imAt \in [SongTracks -> Nat]
    /\ imPc = "idle" => imSong = <<>>
    /\ imPc # "idle" => DOMAIN imSong = 0 .. BlockCount(imLength, imJob.chanmult) - 1
    /\ imPc \in {"idle", "open", "lengthen"} =>
         /\ imWam = 0 /\ ~imRehearse /\ imEof = {} /\ imLength = imJob.length
         /\ \A t \in SongTracks : imAt[t] = 0
    /\ imPc \in {"open", "lengthen", "block"} => imArmed = Chosen(imJob)
    /\ imPc \in {"lengthen", "block"} => imOpen = {t \in SongTracks : HasFile(imJob, t)}

\* A turn advances by a block.
TurnsInv == Turns \in Nat /\ imWam = Turns * Wamples(imJob)

\* How far each file is read: to where the loop is, or to its end.
FilesRead ==
    imPc = "block" => \A t \in Filled(imJob) :
      IF t \in imEof THEN imJob.frames[t] < Turns * BlockSamples
      ELSE imAt[t] = Turns * BlockSamples /\ imAt[t] <= imJob.frames[t]

RoomForFiles ==
    imPc = "block" => \A t \in imOpen : imJob.frames[t] <= imLength * imJob.chanmult

\* Rehearse mode is on if and only if a damaged block was met.
RehearsesBehindBad == imRehearse <=> \E d \in imJob.bad : d < Turns

\* Every sample of the song: replaced up to where the loop is, and up to the
\* first damaged block.
SampleIs(t, b, i) ==
    imSong[b][PlaceOf(imJob.chanmult, t, i)] =
      IF t \in Chosen(imJob) /\ b < Turns /\ ~BadUpTo(b)
      THEN After(t, b * BlockSamples + i) ELSE Before(t, b * BlockSamples + i)
SongIs ==
    \A t \in SongTracks : \A b \in DOMAIN imSong : \A i \in 0 .. BlockSamples - 1 :
      SampleIs(t, b, i)

ImportInv ==
    ImTypeInv /\ TurnsInv /\ FilesRead /\ RoomForFiles /\ RehearsesBehindBad /\ SongIs

\* The wamples of a block, and the samples of a number of blocks.
LEMMA WamplesOfBlock ==
    ASSUME NEW j \in ImportJob
    PROVE  /\ j.chanmult \in {1, 2} /\ Wamples(j) \in Nat \ {0}
           /\ \A k \in Nat : (k * Wamples(j)) * j.chanmult = k * BlockSamples
<1>1. j.chanmult \in {1, 2}
  BY DEF ImportJob
<1>2. PICK half \in Nat \ {0} : half = BlockSamples \div 2 /\ BlockSamples = 2 * half
  BY HalfBlock
<1>3. CASE j.chanmult = 1
  <2>1. Wamples(j) = BlockSamples
    BY <1>2, <1>3 DEF Wamples
  <2>2. \A k \in Nat : k * BlockSamples \in Nat
    BY BlockSize, ProductIsNat
  <2> QED BY <1>2, <1>3, <2>1, <2>2
<1>4. CASE j.chanmult = 2
  <2>1. Wamples(j) = half
    BY <1>2, <1>4 DEF Wamples
  <2>2. \A k \in Nat : (k * half) * 2 = k * (2 * half)
    BY SMT
  <2> QED BY <1>2, <1>4, <2>1, <2>2
<1> QED BY <1>1, <1>3, <1>4

LEMMA TurnsAtStart == ASSUME imJob \in ImportJob, imWam = 0 PROVE Turns = 0 /\ TurnsInv
<1>1. Wamples(imJob) \in Nat \ {0} /\ 0 \in Int
  BY WamplesOfBlock
<1>2. (0 * Wamples(imJob) + 0) \div Wamples(imJob) = 0
  <2>1. 0 \in 0 .. Wamples(imJob) - 1
    BY <1>1
  <2> QED BY <1>1, <2>1, QuotientIs
<1>3. 0 * Wamples(imJob) + 0 = 0 /\ 0 * Wamples(imJob) = 0
  BY <1>1
<1>4. Turns = 0
  BY <1>2, <1>3 DEF Turns
<1> QED BY <1>3, <1>4 DEF TurnsInv

\* A number of files has a longest one.
LEMMA BoundedAbove ==
    ASSUME NEW f, \A x \in Nat : f[x] \in Nat
    PROVE  \A n \in Nat : \E top \in Nat : \A x \in 0 .. n - 1 : f[x] <= top
<1> DEFINE Bounded(n) == \E top \in Nat : \A x \in 0 .. n - 1 : f[x] <= top
           Bad == {n \in Nat : ~Bounded(n)}
<1> SUFFICES ASSUME Bad # {} PROVE FALSE
  OBVIOUS
<1>1. PICK m \in Bad : \A n \in Bad : m <= n
  <2>1. Bad \in SUBSET Nat
    OBVIOUS
  <2> HIDE DEF Bad
  <2> QED BY <2>1, LeastNumber
<1>2. m # 0
  OBVIOUS
<1>3. m \in Nat /\ m - 1 \in Nat /\ m - 1 \notin Bad
  <2>1. m \in Nat /\ m - 1 \in Nat /\ ~(m <= m - 1)
    BY <1>2
  <2> HIDE DEF Bad
  <2> QED BY <1>1, <2>1
<1>4. PICK top \in Nat : \A x \in 0 .. m - 2 : f[x] <= top
  BY <1>3
<1>5. PICK last \in Nat : last = f[m - 1]
  BY <1>3
<1>6. PICK both \in Nat : top <= both /\ last <= both
  <2>1. top <= top + last /\ last <= top + last /\ top + last \in Nat
    OBVIOUS
  <2> QED BY <2>1
<1>7. ASSUME NEW x \in 0 .. m - 1
      PROVE  f[x] <= both
  <2>1. f[x] \in Nat
    OBVIOUS
  <2>2. CASE x = m - 1
    BY <1>5, <1>6, <2>2
  <2>3. CASE x # m - 1
    <3>1. x \in 0 .. m - 2
      BY <1>3, <2>3
    <3>2. PICK y \in Nat : y = f[x] /\ y <= top
      BY <1>4, <2>1, <3>1
    <3>3. y <= both
      <4>1. top <= both /\ y <= top /\ y \in Nat /\ top \in Nat /\ both \in Nat
        BY <1>4, <1>6, <3>2
      <4> QED BY <4>1
    <3> QED BY <3>2, <3>3
  <2> QED BY <2>2, <2>3
<1> QED BY <1>1, <1>7

LEMMA GreatestIs ==
    ASSUME NEW S \in SUBSET Nat, S # {}, NEW top \in Nat, \A x \in S : x <= top
    PROVE  GreatestOf(S) \in S /\ \A x \in S : x <= GreatestOf(S)
<1> DEFINE Over == {n \in Nat : \A x \in S : x <= n}
<1>1. PICK u \in Over : \A n \in Over : u <= n
  <2>1. Over \in SUBSET Nat /\ top \in Over
    OBVIOUS
  <2> HIDE DEF Over
  <2> QED BY <2>1, LeastNumber
<1>2. u \in Nat /\ \A x \in S : x \in Nat /\ x <= u
  OBVIOUS
<1>3. u \in S
  <2> SUFFICES ASSUME u \notin S PROVE FALSE
    OBVIOUS
  <2>1. PICK y \in S : TRUE
    OBVIOUS
  <2>2. u # 0 /\ u - 1 \in Nat
    BY <1>2, <2>1
  <2>3. \A x \in S : x <= u - 1
    BY <1>2, <2>2
  <2>4. u <= u - 1
    BY <1>1, <2>2, <2>3
  <2> QED BY <1>2, <2>4
<1> QED BY <1>2, <1>3 DEF GreatestOf

\* The song is made long enough for every open file.
LEMMA LongEnough ==
    ASSUME imJob \in ImportJob, imOpen = {t \in SongTracks : HasFile(imJob, t)}
    PROVE  /\ RequiredLength(imJob) \in Nat
           /\ \A t \in imOpen : imJob.frames[t] <= RequiredLength(imJob) * imJob.chanmult
<1> DEFINE cm == imJob.chanmult
           Need(t) == (imJob.frames[t] + cm - 1) \div cm
           S == {imJob.length} \cup {Need(t) : t \in imOpen}
<1>1. cm \in {1, 2} /\ imJob.length \in Nat /\ imJob.frames \in [SongTracks -> Nat \cup {-1}]
  BY DEF ImportJob
<1>2. ASSUME NEW t \in imOpen
      PROVE  /\ imJob.frames[t] \in Nat /\ Need(t) \in Nat
             /\ imJob.frames[t] <= Need(t) * cm
  <2>1. PICK n \in Nat : n = imJob.frames[t]
    BY <1>1, <1>2 DEF HasFile
  <2>2. PICK s \in Nat : s = n + cm - 1
    BY <1>1
  <2>3. n <= (s \div cm) * cm /\ s \div cm \in Nat
    <3>1. CASE cm = 1
      BY <2>1, <2>2, <3>1
    <3>2. CASE cm = 2
      BY <2>1, <2>2, <3>2
    <3> QED BY <1>1, <3>1, <3>2
  <2>4. Need(t) = s \div cm
    BY <2>1, <2>2
  <2> HIDE DEF Need, cm
  <2> QED BY <2>1, <2>3, <2>4
<1>3. S \in SUBSET Nat /\ imJob.length \in S /\ \A t \in imOpen : Need(t) \in S
  <2>1. \A t \in imOpen : Need(t) \in Nat
    BY <1>2
  <2> HIDE DEF Need
  <2> QED BY <1>1, <2>1
<1>4. PICK top \in Nat : \A x \in S : x <= top
  <2> DEFINE f == [t \in Nat |-> IF t \in imOpen THEN Need(t) ELSE 0]
  <2>1. \A x \in Nat : f[x] \in Nat
    <3>1. \A t \in imOpen : Need(t) \in Nat
      BY <1>2
    <3> HIDE DEF Need
    <3> QED BY <3>1
  <2>2. \A t \in imOpen : t \in 0 .. BlockTracks - 1 /\ t \in Nat /\ f[t] = Need(t)
    <3>1. \A t \in imOpen : t \in 0 .. BlockTracks - 1 /\ t \in Nat
      BY DEF SongTracks
    <3> HIDE DEF Need
    <3> QED BY <3>1
  <2>3. PICK most \in Nat : \A x \in 0 .. BlockTracks - 1 : f[x] <= most
    <3> HIDE DEF f
    <3> QED BY <2>1, BoundedAbove, BlockSize
  <2>4. PICK both \in Nat : most <= both /\ imJob.length <= both
    <3>1. most <= imJob.length \/ imJob.length <= most
      BY <1>1
    <3> QED BY <1>1, <3>1
  <2>5. \A t \in imOpen : Need(t) <= both
    <3>1. \A t \in imOpen : Need(t) \in Nat /\ Need(t) <= most
      <4> HIDE DEF f, Need
      <4> QED BY <1>3, <2>2, <2>3
    <3> HIDE DEF Need
    <3> QED BY <2>4, <3>1
  <2>6. \A x \in S : x <= both
    <3> HIDE DEF Need
    <3> QED BY <2>4, <2>5
  <2> QED BY <2>6
<1>5. GreatestOf(S) \in S /\ \A x \in S : x <= GreatestOf(S)
  <2> HIDE DEF S
  <2> QED BY <1>3, <1>4, GreatestIs
<1>6. RequiredLength(imJob) = GreatestOf(S)
  BY DEF RequiredLength
<1>7. ASSUME NEW t \in imOpen
      PROVE  imJob.frames[t] <= GreatestOf(S) * cm
  <2>1. PICK n \in Nat, g \in Nat, k \in Nat, c \in Nat :
          n = Need(t) /\ g = GreatestOf(S) /\ k = imJob.frames[t] /\ c = cm
    <3> HIDE DEF S, Need
    <3> QED BY <1>1, <1>2, <1>3, <1>5
  <2>2. n <= g /\ k <= n * c
    <3> HIDE DEF S, Need, cm
    <3> QED BY <1>2, <1>3, <1>5, <2>1
  <2>3. n * c <= g * c /\ n * c \in Nat /\ g * c \in Nat
    BY <2>2, ProductsGrow, ProductIsNat
  <2>4. k <= g * c
    BY <2>2, <2>3
  <2> HIDE DEF S, Need, cm
  <2> QED BY <2>1, <2>4
<1>8. GreatestOf(S) \in Nat
  <2> HIDE DEF S
  <2> QED BY <1>3, <1>5
<1> HIDE DEF S
<1> QED BY <1>6, <1>7, <1>8

\* Nothing but the job decides what is asked for.
LEMMA SameImport ==
    ASSUME imJob' = imJob
    PROVE  /\ \A t, p : After(t, p)' = After(t, p) /\ Before(t, p)' = Before(t, p)
           /\ \A b : BadUpTo(b)' <=> BadUpTo(b)
BY DEF After, Before, BadUpTo

LEMMA BlocksAreNumbers ==
    ASSUME NEW len \in Nat, NEW cm \in {1, 2}
    PROVE  BlockCount(len, cm) \in Nat
<1>1. PICK s \in Nat : s = len * cm + BlockSamples - 1
  <2>1. len * cm \in Nat /\ BlockSamples \in Nat \ {0}
    BY ProductIsNat, BlockSize
  <2> QED BY <2>1
<1>2. s \div BlockSamples \in Nat
  BY BlockOfSample
<1> QED BY <1>1, <1>2 DEF BlockCount

LEMMA ImportInvInit == ImportInit => ImportInv
<1> SUFFICES ASSUME ImportInit PROVE ImportInv
  OBVIOUS
<1>1. /\ imJob = NoImport /\ imPc = "idle" /\ imWam = 0 /\ imLength = 0 /\ ~imRehearse
      /\ imEof = {} /\ imAt = [t \in SongTracks |-> 0] /\ imSong = <<>>
      /\ imRehearse \in BOOLEAN
  BY DEF ImportInit
<1>2. imJob \in ImportJob /\ imJob.length = 0 /\ imJob.bad = {}
  BY <1>1 DEF NoImport, ImportJob
<1>3. Turns = 0 /\ TurnsInv
  BY <1>1, <1>2, TurnsAtStart
<1>4. ImTypeInv
  BY <1>1, <1>2 DEF ImTypeInv
<1>5. DOMAIN imSong = {}
  BY <1>1
<1> QED BY <1>1, <1>2, <1>3, <1>4, <1>5
    DEF ImportInv, FilesRead, RoomForFiles, RehearsesBehindBad, SongIs

LEMMA PrepareKeeps ==
    ASSUME ImportInv, PrepareImport
    PROVE  ImportInv'
<1>1. PICK j \in ImportJobs :
         /\ imArmed' = {t \in SongTracks : HasFile(j, t) \/ j.action[t] \in {0, 1}}
         /\ imJob' = j /\ imLength' = j.length /\ imSong' = OldBlocks(j)
  BY DEF PrepareImport
<1>2. /\ imPc = "idle" /\ imPc' = IF imArmed' = {} THEN "done" ELSE "open"
      /\ UNCHANGED <<imWam, imOpen, imAt, imEof, imRehearse, imCancel>>
  BY DEF PrepareImport
<1>3. /\ j \in ImportJob /\ j.length \in Nat /\ j.chanmult \in {1, 2} /\ j.bad \in SUBSET Nat
  BY ImportAssumption DEF ImportJob
<1>4. /\ imWam = 0 /\ ~imRehearse /\ imEof = {} /\ imAt \in [SongTracks -> Nat]
      /\ \A t \in SongTracks : imAt[t] = 0
      /\ imRehearse \in BOOLEAN
  BY <1>2 DEF ImportInv, ImTypeInv
<1>5. DOMAIN OldBlocks(j) = 0 .. BlockCount(j.length, j.chanmult) - 1
  BY DEF OldBlocks
<1>6. ImTypeInv'
  BY <1>1, <1>2, <1>3, <1>4, <1>5 DEF ImTypeInv, Chosen
<1>7. Turns' = 0 /\ TurnsInv'
  <2>1. Wamples(j) \in Nat \ {0} /\ 0 \in Int
    BY <1>3, WamplesOfBlock
  <2>2. (0 * Wamples(j) + 0) \div Wamples(j) = 0
    <3>1. 0 \in 0 .. Wamples(j) - 1
      BY <2>1
    <3> QED BY <2>1, <3>1, QuotientIs
  <2>3. 0 * Wamples(j) + 0 = 0 /\ 0 * Wamples(j) = 0
    BY <2>1
  <2>4. Turns' = 0
    BY <1>1, <1>2, <1>4, <2>2, <2>3 DEF Turns
  <2> QED BY <1>1, <1>2, <1>4, <2>3, <2>4 DEF TurnsInv
<1>8. FilesRead' /\ RoomForFiles'
  BY <1>2 DEF FilesRead, RoomForFiles
<1>9. RehearsesBehindBad'
  BY <1>1, <1>2, <1>3, <1>4, <1>7 DEF RehearsesBehindBad
<1>10. SongIs'
  <2> SUFFICES ASSUME NEW t \in SongTracks, NEW b \in DOMAIN imSong',
                      NEW i \in 0 .. BlockSamples - 1
               PROVE  SampleIs(t, b, i)'
    BY DEF SongIs
  <2>1. b \in 0 .. BlockCount(j.length, j.chanmult) - 1 /\ b \in Nat
    BY <1>1, <1>5
  <2>2. OldBlocks(j)[b][PlaceOf(j.chanmult, t, i)] = <<-1, t, b * BlockSamples + i>>
    BY <1>3, <2>1, OldSample
  <2>3. b * BlockSamples + i < BlockCount(j.length, j.chanmult) * BlockSamples
    <3>1. PICK n \in Nat : n = BlockCount(j.length, j.chanmult)
      BY <1>3, BlocksAreNumbers
    <3>2. b + 1 \in Nat /\ b + 1 <= n
      BY <2>1, <3>1
    <3>3. (b + 1) * BlockSamples <= n * BlockSamples /\ n * BlockSamples \in Nat
      BY <3>1, <3>2, ProductsGrow, ProductIsNat, BlockSize
    <3>4. (b + 1) * BlockSamples = b * BlockSamples + BlockSamples /\ b * BlockSamples \in Nat
      BY <2>1, NextProduct, ProductIsNat, BlockSize
    <3> QED BY <3>1, <3>3, <3>4, BlockSize
  <2>4. ~(b < Turns')
    BY <1>7, <2>1
  <2>5. Before(t, b * BlockSamples + i)' = <<-1, t, b * BlockSamples + i>>
    BY <1>1, <2>3 DEF Before
  <2> QED BY <1>1, <2>2, <2>4, <2>5 DEF SampleIs
<1> QED BY <1>6, <1>7, <1>8, <1>9, <1>10 DEF ImportInv

LEMMA OpenKeeps ==
    ASSUME ImportInv, OpenInputFiles
    PROVE  ImportInv'
<1>1. /\ imPc = "open"
      /\ imOpen' = {t \in SongTracks : HasFile(imJob, t) /\ imJob.opens[t]}
      /\ imPc' = IF \A t \in SongTracks : HasFile(imJob, t) => imJob.opens[t]
                 THEN "lengthen" ELSE "done"
      /\ UNCHANGED <<imJob, imWam, imLength, imArmed, imAt, imEof, imRehearse, imSong, imCancel>>
  BY DEF OpenInputFiles
<1>2. ImTypeInv'
  <2>1. ImTypeInv
    BY DEF ImportInv
  <2>2. imPc' = "lengthen" => imOpen' = {t \in SongTracks : HasFile(imJob, t)}
    BY <1>1
  <2> QED BY <1>1, <2>1, <2>2 DEF ImTypeInv, Chosen
<1>3. Turns' = Turns /\ TurnsInv'
  BY <1>1 DEF ImportInv, TurnsInv, Turns
<1>4. FilesRead' /\ RoomForFiles'
  BY <1>1 DEF FilesRead, RoomForFiles
<1>5. RehearsesBehindBad'
  BY <1>1, <1>3 DEF ImportInv, RehearsesBehindBad
<1>6. SongIs'
  BY <1>1, <1>3, SameImport DEF ImportInv, SongIs, SampleIs
<1> QED BY <1>2, <1>3, <1>4, <1>5, <1>6 DEF ImportInv

\* The user stops, the transfer ends, or nothing happens.
LEMMA EndKeeps ==
    ASSUME ImportInv, StopImport \/ EndImport \/ UNCHANGED importVars
    PROVE  ImportInv'
<1>1. /\ UNCHANGED <<imJob, imWam, imLength, imAt, imEof, imRehearse, imSong>>
      /\ \/ imPc' = imPc /\ UNCHANGED <<imArmed, imOpen>>
         \/ imPc = "block" /\ imPc' = "done"
  BY DEF StopImport, EndImport, importVars
<1>2. ImTypeInv'
  BY <1>1 DEF ImportInv, ImTypeInv, Chosen
<1>3. Turns' = Turns /\ TurnsInv'
  BY <1>1 DEF ImportInv, TurnsInv, Turns
<1>4. FilesRead' /\ RoomForFiles'
  <2>1. CASE imPc' = "done"
    BY <2>1 DEF FilesRead, RoomForFiles
  <2>2. CASE imPc' = imPc /\ UNCHANGED <<imArmed, imOpen>>
    BY <1>1, <1>3, <2>2 DEF ImportInv, FilesRead, RoomForFiles, Filled
  <2> QED BY <1>1, <2>1, <2>2
<1>5. RehearsesBehindBad'
  BY <1>1, <1>3 DEF ImportInv, RehearsesBehindBad
<1>6. SongIs'
  BY <1>1, <1>3, SameImport DEF ImportInv, SongIs, SampleIs
<1> QED BY <1>2, <1>3, <1>4, <1>5, <1>6 DEF ImportInv

LEMMA LengthenKeeps ==
    ASSUME ImportInv, LengthenSong
    PROVE  ImportInv'
<1> DEFINE len == RequiredLength(imJob)
           cm == imJob.chanmult
<1>1. /\ imPc = "lengthen"
      /\ UNCHANGED <<imJob, imWam, imArmed, imAt, imEof, imRehearse, imCancel>>
      /\ \/ /\ imPc' = "done" /\ imLength' = imLength /\ imSong' = imSong
         \/ /\ imLength' = len /\ imPc' = "block" /\ imOpen' = imOpen
            /\ imSong' = [b \in 0 .. BlockCount(len, cm) - 1 |->
                 IF b \in DOMAIN imSong THEN imSong[b] ELSE [o \in BufferSamples |-> Silence]]
  BY DEF LengthenSong
<1>2. /\ ImTypeInv /\ imJob \in ImportJob /\ cm \in {1, 2} /\ imWam = 0
      /\ imLength = imJob.length /\ imLength \in Nat /\ imEof = {}
      /\ \A t \in SongTracks : imAt[t] = 0
      /\ imOpen = {t \in SongTracks : HasFile(imJob, t)}
      /\ DOMAIN imSong = 0 .. BlockCount(imLength, cm) - 1
      /\ imJob.frames \in [SongTracks -> Nat \cup {-1}]
  BY <1>1 DEF ImportInv, ImTypeInv, ImportJob
<1>3. Turns = 0
  BY <1>2, TurnsAtStart
<1>4. Turns' = Turns /\ TurnsInv'
  BY <1>1 DEF ImportInv, TurnsInv, Turns
<1>5. RehearsesBehindBad'
  BY <1>1, <1>4 DEF ImportInv, RehearsesBehindBad
<1>6. CASE imPc' = "done" /\ imLength' = imLength /\ imSong' = imSong
  <2>1. ImTypeInv'
    BY <1>1, <1>2, <1>6 DEF ImTypeInv, Chosen
  <2>2. FilesRead' /\ RoomForFiles'
    BY <1>6 DEF FilesRead, RoomForFiles
  <2>3. SongIs'
    BY <1>1, <1>4, <1>6, SameImport DEF ImportInv, SongIs, SampleIs
  <2> QED BY <1>4, <1>5, <2>1, <2>2, <2>3 DEF ImportInv
<1>7. CASE /\ imLength' = len /\ imPc' = "block" /\ imOpen' = imOpen
           /\ imSong' = [b \in 0 .. BlockCount(len, cm) - 1 |->
                IF b \in DOMAIN imSong THEN imSong[b] ELSE [o \in BufferSamples |-> Silence]]
  <2>1. len \in Nat /\ \A t \in imOpen : imJob.frames[t] <= len * cm
    BY <1>2, LongEnough
  <2> HIDE DEF len
  <2>2. ImTypeInv'
    BY <1>1, <1>2, <1>7, <2>1 DEF ImTypeInv, Chosen
  <2>3. RoomForFiles'
    BY <1>1, <1>7, <2>1 DEF RoomForFiles
  <2>4. FilesRead'
    <3> SUFFICES ASSUME NEW t \in Filled(imJob)'
                 PROVE  /\ t \notin imEof'
                        /\ imAt'[t] = Turns' * BlockSamples /\ imAt'[t] <= imJob'.frames[t]
      BY DEF FilesRead
    <3>1. t \in imOpen
      BY <1>7 DEF Filled
    <3>2. t \in SongTracks /\ imJob.frames[t] >= 0 /\ imAt[t] = 0
      BY <1>2, <3>1 DEF HasFile
    <3>3. 0 * BlockSamples = 0
      BY BlockSize
    <3> QED BY <1>1, <1>2, <1>3, <1>4, <3>2, <3>3
  <2>5. SongIs'
    <3> SUFFICES ASSUME NEW t \in SongTracks, NEW b \in DOMAIN imSong',
                        NEW i \in 0 .. BlockSamples - 1
                 PROVE  SampleIs(t, b, i)'
      BY DEF SongIs
    <3>1. b \in 0 .. BlockCount(len, cm) - 1 /\ b \in Nat
      BY <1>7
    <3>2. ~(b < Turns) /\ ~(b < Turns')
      BY <1>3, <1>4, <3>1
    <3>3. Before(t, b * BlockSamples + i)' = Before(t, b * BlockSamples + i)
      BY <1>1, SameImport
    <3> SUFFICES imSong'[b][PlaceOf(cm, t, i)] = Before(t, b * BlockSamples + i)
      BY <1>1, <3>2, <3>3 DEF SampleIs
    <3>4. CASE b \in DOMAIN imSong
      <4>1. SampleIs(t, b, i)
        BY <3>4 DEF ImportInv, SongIs
      <4> QED BY <1>7, <3>1, <3>2, <3>4, <4>1 DEF SampleIs
    <3>5. CASE b \notin DOMAIN imSong
      <4>1. PlaceOf(cm, t, i) \in BufferSamples
        BY <1>2, PlaceOfSample
      <4>2. imSong'[b][PlaceOf(cm, t, i)] = Silence
        BY <1>7, <3>1, <3>5, <4>1
      <4>3. ~(b * BlockSamples + i < BlockCount(imJob.length, cm) * BlockSamples)
        <5>1. PICK n \in Nat : n = BlockCount(imJob.length, cm)
          BY <1>2, BlocksAreNumbers
        <5>2. n <= b
          BY <1>2, <3>1, <3>5, <5>1
        <5>3. /\ n * BlockSamples <= b * BlockSamples
              /\ n * BlockSamples \in Nat /\ b * BlockSamples \in Nat
          BY <3>1, <5>1, <5>2, ProductsGrow, ProductIsNat, BlockSize
        <5> QED BY <5>1, <5>3
      <4> QED BY <4>2, <4>3 DEF Before
    <3> QED BY <3>4, <3>5
  <2> QED BY <1>4, <1>5, <2>2, <2>3, <2>4, <2>5 DEF ImportInv
<1> QED BY <1>1, <1>6, <1>7

LEMMA BlockKeeps ==
    ASSUME ImportInv, ImportBlock
    PROVE  ImportInv'
<1> DEFINE cm == imJob.chanmult
           buf == ImportBuffer(imJob)
<1>1. /\ imPc = "block" /\ imWam < imLength
      /\ imRehearse' = (imRehearse \/ Turns \in imJob.bad)
      /\ imSong' = IF imRehearse' THEN imSong
                   ELSE [imSong EXCEPT ![Turns] = BlockWritten(@, buf, imArmed)]
      /\ imAt' = [t \in SongTracks |->
                    imAt[t] + IF t \in Filled(imJob) THEN FramesRead(imJob, t) ELSE 0]
      /\ imEof' = imEof \cup {t \in Filled(imJob) : FramesRead(imJob, t) < BlockSamples}
      /\ imWam' = imWam + Wamples(imJob)
      /\ UNCHANGED <<imJob, imPc, imLength, imArmed, imOpen, imCancel>>
  BY DEF ImportBlock, Rehearsing, Turns
<1>2. /\ ImTypeInv /\ imJob \in ImportJob /\ cm \in {1, 2} /\ imWam \in Nat /\ imLength \in Nat
      /\ imOpen = {t \in SongTracks : HasFile(imJob, t)} /\ imArmed = Chosen(imJob)
      /\ DOMAIN imSong = 0 .. BlockCount(imLength, cm) - 1
      /\ imJob.frames \in [SongTracks -> Nat \cup {-1}] /\ imAt \in [SongTracks -> Nat]
      /\ imJob.bad \in SUBSET Nat /\ imRehearse \in BOOLEAN
      /\ imJob.action \in [SongTracks -> Nat]
  BY <1>1 DEF ImportInv, ImTypeInv, ImportJob
<1>3. /\ Turns \in Nat /\ imWam = Turns * Wamples(imJob) /\ Wamples(imJob) \in Nat \ {0}
      /\ (Turns * Wamples(imJob)) * cm = Turns * BlockSamples
      /\ BlockSamples \in Nat \ {0} /\ Turns * BlockSamples \in Nat
      /\ (Turns + 1) * BlockSamples = Turns * BlockSamples + BlockSamples
  <2>1. Turns \in Nat /\ imWam = Turns * Wamples(imJob)
    BY DEF ImportInv, TurnsInv
  <2>2. Wamples(imJob) \in Nat \ {0} /\ (Turns * Wamples(imJob)) * cm = Turns * BlockSamples
    BY <1>2, <2>1, WamplesOfBlock
  <2>3. BlockSamples \in Nat \ {0} /\ Turns * BlockSamples \in Nat
    BY <2>1, BlockSize, ProductIsNat
  <2>4. (Turns + 1) * BlockSamples = Turns * BlockSamples + BlockSamples
    BY <2>1, <2>3, NextProduct
  <2> QED BY <2>1, <2>2, <2>3, <2>4
<1>4. Turns' = Turns + 1 /\ TurnsInv'
  <2>1. imWam' = (Turns + 1) * Wamples(imJob) + 0
    <3>1. (Turns + 1) * Wamples(imJob) = Turns * Wamples(imJob) + Wamples(imJob)
      BY <1>3, NextProduct
    <3>2. PICK w \in Nat : w = Turns * Wamples(imJob)
      BY <1>2, <1>3
    <3> QED BY <1>1, <1>3, <3>1, <3>2
  <2>2. ((Turns + 1) * Wamples(imJob) + 0) \div Wamples(imJob) = Turns + 1
    <3>1. 0 \in 0 .. Wamples(imJob) - 1 /\ Turns + 1 \in Int
      BY <1>3
    <3> QED BY <1>3, <3>1, QuotientIs, Zenon
  <2>3. Turns' = Turns + 1
    <3>1. Turns' = imWam' \div Wamples(imJob)
      BY <1>1 DEF Turns
    <3> QED BY <2>1, <2>2, <3>1
  <2>4. imWam' = Turns' * Wamples(imJob)
    <3>1. (Turns + 1) * Wamples(imJob) + 0 = (Turns + 1) * Wamples(imJob)
      <4>1. (Turns + 1) * Wamples(imJob) \in Nat
        BY <1>3, ProductIsNat
      <4> QED BY <4>1
    <3> QED BY <2>1, <2>3, <3>1
  <2> QED BY <1>1, <1>3, <2>3, <2>4 DEF TurnsInv
<1>5. Turns \in DOMAIN imSong
  <2>1. Turns * BlockSamples < imLength * cm
    <3>1. CASE cm = 1
      BY <1>1, <1>2, <1>3, <3>1
    <3>2. CASE cm = 2
      BY <1>1, <1>2, <1>3, <3>2
    <3> QED BY <1>2, <3>1, <3>2
  <2>2. Turns < BlockCount(imLength, cm)
    BY <1>2, <1>3, <2>1, BlockIsOfSong
  <2>3. BlockCount(imLength, cm) \in Nat
    BY <1>2, BlocksAreNumbers
  <2> QED BY <1>2, <1>3, <2>2, <2>3
<1>6. \A t : t \in Filled(imJob) <=>
        t \in imArmed /\ imJob.action[t] >= 2 /\ t \in imOpen
  BY DEF Filled
<1>7. ASSUME NEW t \in Filled(imJob)
      PROVE  /\ t \in SongTracks /\ imJob.frames[t] \in Nat /\ imAt[t] \in Nat
             /\ FramesRead(imJob, t) =
                  IF t \in imEof THEN 0
                  ELSE IF imJob.frames[t] - imAt[t] < BlockSamples
                       THEN imJob.frames[t] - imAt[t] ELSE BlockSamples
             /\ IF t \in imEof THEN imJob.frames[t] < Turns * BlockSamples
                ELSE imAt[t] = Turns * BlockSamples /\ imAt[t] <= imJob.frames[t]
             /\ FramesRead(imJob, t) \in Nat
  <2>1. t \in SongTracks /\ imJob.frames[t] \in Nat /\ imAt[t] \in Nat
    BY <1>2, <1>6, <1>7 DEF HasFile
  <2>2. IF t \in imEof THEN imJob.frames[t] < Turns * BlockSamples
        ELSE imAt[t] = Turns * BlockSamples /\ imAt[t] <= imJob.frames[t]
    BY <1>1, <1>7 DEF ImportInv, FilesRead
  <2>3. FramesRead(imJob, t) =
          IF t \in imEof THEN 0
          ELSE IF imJob.frames[t] - imAt[t] < BlockSamples
               THEN imJob.frames[t] - imAt[t] ELSE BlockSamples
    BY DEF FramesRead
  <2> QED BY <1>3, <2>1, <2>2, <2>3
<1>8. ImTypeInv'
  <2>1. imAt' \in [SongTracks -> Nat]
    BY <1>1, <1>2, <1>7
  <2>2. imWam' \in Nat
    BY <1>1, <1>2, <1>3
  <2>3. DOMAIN imSong' = DOMAIN imSong
    BY <1>1
  <2>4. imRehearse' \in BOOLEAN
    BY <1>1, <1>2
  <2> HIDE DEF cm, buf
  <2> QED BY <1>1, <1>2, <2>1, <2>2, <2>3, <2>4 DEF ImTypeInv, Chosen, cm
<1>9. RoomForFiles'
  BY <1>1 DEF ImportInv, RoomForFiles
<1>10. FilesRead'
  <2> SUFFICES ASSUME NEW t \in Filled(imJob)
               PROVE  IF t \in imEof' THEN imJob.frames[t] < Turns' * BlockSamples
                      ELSE imAt'[t] = Turns' * BlockSamples /\ imAt'[t] <= imJob.frames[t]
    BY <1>1 DEF FilesRead, Filled
  <2>1. PICK n \in Nat, at \in Nat, got \in Nat, from \in Nat :
           /\ n = imJob.frames[t] /\ at = imAt[t] /\ got = FramesRead(imJob, t)
           /\ from = Turns * BlockSamples
    BY <1>3, <1>7
  <2>2. /\ got = IF t \in imEof THEN 0
                 ELSE IF n - at < BlockSamples THEN n - at ELSE BlockSamples
        /\ IF t \in imEof THEN n < from ELSE at = from /\ at <= n
    BY <1>7, <2>1
  <2>3. imAt'[t] = at + got /\ (t \in imEof' <=> t \in imEof \/ got < BlockSamples)
    BY <1>1, <1>7, <2>1
  <2>4. Turns' * BlockSamples = from + BlockSamples
    BY <1>3, <1>4, <2>1
  <2>5. IF t \in imEof' THEN n < from + BlockSamples
        ELSE imAt'[t] = from + BlockSamples /\ imAt'[t] <= n
    BY <1>3, <2>2, <2>3
  <2> QED BY <2>1, <2>4, <2>5
<1>11. RehearsesBehindBad'
  <2>1. imRehearse <=> \E d \in imJob.bad : d < Turns
    BY DEF ImportInv, RehearsesBehindBad
  <2>2. \A d \in imJob.bad : d \in Nat /\ (d < Turns + 1 <=> d < Turns \/ d = Turns)
    BY <1>2, <1>3
  <2> QED BY <1>1, <1>4, <2>1, <2>2 DEF RehearsesBehindBad
<1>12. imRehearse' <=> BadUpTo(Turns)
  <2>1. imRehearse <=> \E d \in imJob.bad : d < Turns
    BY DEF ImportInv, RehearsesBehindBad
  <2>2. \A d \in imJob.bad : d \in Nat /\ (d <= Turns <=> d < Turns \/ d = Turns)
    BY <1>2, <1>3
  <2> QED BY <1>1, <2>1, <2>2 DEF BadUpTo
<1>13. SongIs'
  <2> SUFFICES ASSUME NEW t \in SongTracks, NEW b \in DOMAIN imSong',
                      NEW i \in 0 .. BlockSamples - 1
               PROVE  SampleIs(t, b, i)'
    BY DEF SongIs
  <2>1. b \in DOMAIN imSong /\ b \in Nat
    BY <1>1, <1>2
  <2>2. PICK p \in Nat : p = b * BlockSamples + i
    BY <1>3, <2>1, ProductIsNat
  <2>3. PICK place : place = PlaceOf(cm, t, i)
    OBVIOUS
  <2>4. imSong[b][place] = IF t \in Chosen(imJob) /\ b < Turns /\ ~BadUpTo(b)
                           THEN After(t, p) ELSE Before(t, p)
    BY <2>1, <2>2, <2>3 DEF ImportInv, SongIs, SampleIs
  <2> SUFFICES imSong'[b][place] = IF t \in Chosen(imJob) /\ b < Turns + 1 /\ ~BadUpTo(b)
                                   THEN After(t, p) ELSE Before(t, p)
    BY <1>1, <1>4, <2>2, <2>3, SameImport DEF SampleIs
  <2>5. CASE imRehearse'
    <3>1. imSong' = imSong
      BY <1>1, <2>5
    <3>2. b < Turns + 1 /\ ~BadUpTo(b) => b < Turns
      BY <1>3, <1>12, <2>1, <2>5
    <3>3. b < Turns => b < Turns + 1
      BY <1>3, <2>1
    <3> QED BY <2>4, <3>1, <3>2, <3>3
  <2>6. CASE ~imRehearse' /\ b # Turns
    <3>1. imSong'[b] = imSong[b]
      BY <1>1, <2>1, <2>6
    <3>2. b < Turns + 1 <=> b < Turns
      BY <1>3, <2>1, <2>6
    <3> QED BY <2>4, <3>1, <3>2
  <2>7. CASE ~imRehearse' /\ b = Turns
    <3>1. place \in BufferSamples /\ place \div BlockSamples = t
      BY <1>2, <2>3, PlaceOfSample
    <3>2. imSong'[b] = BlockWritten(imSong[b], buf, imArmed)
      <4> HIDE DEF buf
      <4> QED BY <1>1, <2>1, <2>7
    <3>3. imSong'[b][place] = IF t \in imArmed THEN buf[place] ELSE imSong[b][place]
      <4> HIDE DEF buf
      <4> QED BY <3>1, <3>2 DEF BlockWritten
    <3>4. b < Turns + 1 /\ ~BadUpTo(b) /\ ~(b < Turns)
      BY <1>3, <1>12, <2>7
    <3>5. CASE t \notin imArmed
      BY <1>2, <2>4, <3>3, <3>4, <3>5
    <3>6. CASE t \in imArmed
      <4>1. buf[place] = IF t \in Filled(imJob) /\ i < FramesRead(imJob, t)
                         THEN Frame(imJob, t, imAt[t] + i) ELSE Silence
        BY <1>2, <2>3, BufferSample
      <4>2. After(t, p) = IF imJob.action[t] >= 2 /\ p < imJob.frames[t]
                          THEN Frame(imJob, t, p) ELSE Silence
        BY DEF After
      <4>3. buf[place] = After(t, p)
        <5> HIDE DEF buf
        <5>1. CASE t \in Filled(imJob)
          <6>1. PICK n \in Nat, at \in Nat, got \in Nat, from \in Nat :
                  /\ n = imJob.frames[t] /\ at = imAt[t] /\ got = FramesRead(imJob, t)
                  /\ from = Turns * BlockSamples
            BY <1>3, <1>7, <5>1
          <6>2. /\ got = IF t \in imEof THEN 0
                         ELSE IF n - at < BlockSamples THEN n - at ELSE BlockSamples
                /\ IF t \in imEof THEN n < from ELSE at = from /\ at <= n
            BY <1>7, <5>1, <6>1
          <6>3. p = from + i /\ i \in Nat /\ i < BlockSamples
            BY <1>3, <2>2, <2>7, <6>1
          <6>4. (i < got) <=> (p < n)
            BY <1>3, <6>2, <6>3
          <6>5. i < got => at + i = p
            BY <6>2, <6>3
          <6>6. imJob.action[t] >= 2
            BY <1>6, <5>1
          <6> QED BY <4>1, <4>2, <5>1, <6>1, <6>4, <6>5, <6>6
        <5>2. CASE t \notin Filled(imJob)
          <6>1. ~(imJob.action[t] >= 2 /\ p < imJob.frames[t])
            <7> SUFFICES ASSUME imJob.action[t] >= 2, p < imJob.frames[t] PROVE FALSE
              OBVIOUS
            <7>1. imJob.frames[t] >= 0
              BY <1>2, <2>2
            <7> QED BY <1>2, <1>6, <3>6, <5>2, <7>1 DEF HasFile
          <6> QED BY <4>1, <4>2, <5>2, <6>1
        <5> QED BY <5>1, <5>2
      <4> QED BY <1>2, <3>3, <3>4, <3>6, <4>3
    <3> QED BY <3>5, <3>6
  <2> QED BY <2>5, <2>6, <2>7
<1> QED BY <1>4, <1>8, <1>9, <1>10, <1>11, <1>13 DEF ImportInv

LEMMA ImportIsInvariant == ImportSpec => []ImportInv
<1>1. ImportInv /\ [ImportNext]_importVars => ImportInv'
  BY PrepareKeeps, OpenKeeps, LengthenKeeps, BlockKeeps, EndKeeps DEF ImportNext
<1> QED BY <1>1, ImportInvInit, PTL DEF ImportSpec

\* A sample of the song, by its number and by its block.
LEMMA SampleOfSong ==
    ASSUME ImportInv, NEW t \in SongTracks, NEW p \in SongSamples
    PROVE  LET b == p \div BlockSamples
           IN  /\ b \in Nat /\ imJob.bad \in SUBSET Nat
               /\ Stored(t, p) = IF t \in Chosen(imJob) /\ b < Turns /\ ~BadUpTo(b)
                                 THEN After(t, p) ELSE Before(t, p)
               /\ (p < imWam * imJob.chanmult) <=> (b < Turns)
<1>1. PICK b \in DOMAIN imSong, i \in 0 .. BlockSamples - 1 : p = b * BlockSamples + i
  BY DEF SongSamples
<1>2. /\ imJob \in ImportJob /\ imJob.chanmult \in {1, 2} /\ imJob.bad \in SUBSET Nat
      /\ Turns \in Nat /\ imWam = Turns * Wamples(imJob)
      /\ imPc # "idle" => DOMAIN imSong = 0 .. BlockCount(imLength, imJob.chanmult) - 1
      /\ imPc = "idle" => imSong = <<>>
  BY DEF ImportInv, ImTypeInv, TurnsInv, ImportJob
<1>3. b \in Nat
  <2>1. imPc # "idle"
    <3>1. DOMAIN <<>> = {}
      OBVIOUS
    <3> QED BY <1>1, <1>2, <3>1
  <2> QED BY <1>1, <1>2, <2>1
<1>4. /\ PlaceOf(imJob.chanmult, t, p) = PlaceOf(imJob.chanmult, t, i)
      /\ p \div BlockSamples = b
  BY <1>1, <1>2, <1>3, PlaceOfBlock, Zenon
<1>5. SampleIs(t, b, i)
  BY <1>1 DEF ImportInv, SongIs
<1>6. Stored(t, p) = IF t \in Chosen(imJob) /\ b < Turns /\ ~BadUpTo(b)
                     THEN After(t, p) ELSE Before(t, p)
  BY <1>1, <1>4, <1>5 DEF SampleIs, Stored
<1>7. (p < imWam * imJob.chanmult) <=> (b < Turns)
  <2>1. imWam * imJob.chanmult = Turns * BlockSamples
    BY <1>2, WamplesOfBlock
  <2>2. PICK x \in Nat, y \in Nat : x = b * BlockSamples /\ y = Turns * BlockSamples
    BY <1>2, <1>3, ProductIsNat, BlockSize
  <2>3. BlockSamples \in Nat \ {0}
    BY BlockSize
  <2>4. b < Turns => x + BlockSamples <= y
    <3> SUFFICES ASSUME b < Turns PROVE x + BlockSamples <= y
      OBVIOUS
    <3>1. b + 1 \in Nat /\ b + 1 <= Turns
      BY <1>2, <1>3
    <3>2. (b + 1) * BlockSamples <= y
      BY <1>2, <2>2, <2>3, <3>1, ProductsGrow
    <3>3. (b + 1) * BlockSamples = x + BlockSamples
      BY <1>3, <2>2, <2>3, NextProduct
    <3> QED BY <3>2, <3>3
  <2>5. Turns <= b => y <= x
    BY <1>2, <1>3, <2>2, <2>3, ProductsGrow
  <2>6. b < Turns \/ Turns <= b
    BY <1>2, <1>3
  <2> QED BY <1>1, <2>1, <2>2, <2>3, <2>4, <2>5, <2>6
<1> QED BY <1>2, <1>3, <1>4, <1>6, <1>7

\* Whatever files and tracks the job names, at any sample rate, song length
\* and file length, however far the transfer came: every sample of the song is
\* the one the job asks for or the one that was there.
THEOREM TracksHoldTheFiles == ImportSpec => []ImportIsExact
<1>1. ImportInv => ImportIsExact
  <2> SUFFICES ASSUME ImportInv, imPc \in {"block", "done"}, imJob.bad = {}
               PROVE  /\ imPc = "block" =>
                           \A t \in imOpen : imJob.frames[t] <= imLength * imJob.chanmult
                      /\ \A t \in SongTracks : \A p \in SongSamples :
                           Stored(t, p) = IF t \in Chosen(imJob) /\ p < imWam * imJob.chanmult
                                          THEN After(t, p) ELSE Before(t, p)
    BY DEF ImportIsExact
  <2>1. imPc = "block" =>
          \A t \in imOpen : imJob.frames[t] <= imLength * imJob.chanmult
    BY DEF ImportInv, RoomForFiles
  <2>2. ASSUME NEW t \in SongTracks, NEW p \in SongSamples
        PROVE  Stored(t, p) = IF t \in Chosen(imJob) /\ p < imWam * imJob.chanmult
                              THEN After(t, p) ELSE Before(t, p)
    <3>1. ~BadUpTo(p \div BlockSamples)
      BY DEF BadUpTo
    <3> QED BY <3>1, SampleOfSong
  <2> QED BY <2>1, <2>2
<1> QED BY <1>1, ImportIsInvariant, PTL

\* For every damaged allocation table: from the first block that it places
\* outside the audio area on, the song stays as it was.
THEOREM DamagedSongStays == ImportSpec => []NothingWrittenBehindBadBlock
<1>1. ImportInv => NothingWrittenBehindBadBlock
  <2> SUFFICES ASSUME ImportInv, NEW t \in SongTracks, NEW p \in SongSamples,
                      \E d \in imJob.bad : d <= p \div BlockSamples
               PROVE  Stored(t, p) = Before(t, p)
    BY DEF NothingWrittenBehindBadBlock
  <2>1. BadUpTo(p \div BlockSamples)
    BY DEF BadUpTo
  <2> QED BY <2>1, SampleOfSong
<1> QED BY <1>1, ImportIsInvariant, PTL

------------------------------------------------------------------------------
(* SoundFile: the bytes and the header of a file, as far as it is written.  *)

Bytes == Int \X Int

\* The bytes of whole samples are there, in the format's order.
BytesInOrder ==
  \A k \in 1 .. Len(sfBytes) : k <= SampleBytes * sfGiven => sfBytes[k] = ByteOf(k)

SndInv ==
  /\ sfFormat \in Formats /\ sfGood \in BOOLEAN /\ sfGiven \in Nat /\ sfBytes \in Seq(Bytes)
  /\ sfPc = "new" => sfBytes = <<>> /\ sfGiven = 0 /\ sfHeader = NoHeader
  /\ sfPc = "open" /\ sfGood => Len(sfBytes) = SampleBytes * sfGiven
  /\ sfPc = "open" => Len(sfBytes) <= SampleBytes * sfGiven
  /\ BytesInOrder
  /\ HeaderIsHonest

\* A buffer for the format's order, as it is appended to the file.
LEMMA BufferBytes ==
  ASSUME NEW n \in Nat, sfGiven \in Nat, sfFormat \in Formats,
         NEW buf, buf = IF sfFormat = "aif" THEN Swapped(Buffer(n)) ELSE Buffer(n)
  PROVE  /\ buf \in Seq(Bytes) /\ Len(buf) = SampleBytes * n
         /\ \A k \in 1 .. Len(buf) : buf[k] = ByteOf(SampleBytes * sfGiven + k)
<1>1. /\ Buffer(n) \in Seq(Bytes) /\ Len(Buffer(n)) = 3 * n /\ DOMAIN Buffer(n) = 1 .. 3 * n
      /\ \A k \in 1 .. 3 * n : Buffer(n)[k] = <<sfGiven + (k - 1) \div 3, (k - 1) % 3>>
  BY DEF Buffer, SampleBytes, Bytes
<1>2. ASSUME NEW k \in 1 .. 3 * n
      PROVE  /\ (3 * sfGiven + k - 1) \div 3 = sfGiven + (k - 1) \div 3
             /\ (3 * sfGiven + k - 1) % 3 = (k - 1) % 3
             /\ (k - 1) % 3 \in {0, 1, 2}
  OBVIOUS
<1>3. CASE sfFormat = "wav"
  <2>1. buf = Buffer(n)
    BY <1>3
  <2>2. \A k \in 1 .. 3 * n :
          ByteOf(SampleBytes * sfGiven + k) = <<sfGiven + (k - 1) \div 3, (k - 1) % 3>>
    BY <1>2, <1>3 DEF ByteOf, SampleBytes
  <2> QED BY <1>1, <2>1, <2>2 DEF SampleBytes
<1>4. CASE sfFormat = "aif"
  <2>1. buf = Swapped(Buffer(n))
    BY <1>4
  <2>2. \A k \in 1 .. 3 * n :
          ByteOf(SampleBytes * sfGiven + k) = <<sfGiven + (k - 1) \div 3, 2 - ((k - 1) % 3)>>
    BY <1>2, <1>4 DEF ByteOf, SampleBytes
  <2>3. /\ DOMAIN buf = 1 .. 3 * n
        /\ \A k \in 1 .. 3 * n :
             /\ (k - 1) % 3 = 0 => buf[k] = Buffer(n)[k + 2]
             /\ (k - 1) % 3 = 2 => buf[k] = Buffer(n)[k - 2]
             /\ (k - 1) % 3 = 1 => buf[k] = Buffer(n)[k]
    <3>1. DOMAIN buf = 1 .. 3 * n
      BY <1>1, <2>1 DEF Swapped
    <3> SUFFICES ASSUME NEW k \in 1 .. 3 * n
                 PROVE  /\ (k - 1) % 3 = 0 => buf[k] = Buffer(n)[k + 2]
                        /\ (k - 1) % 3 = 2 => buf[k] = Buffer(n)[k - 2]
                        /\ (k - 1) % 3 = 1 => buf[k] = Buffer(n)[k]
      BY <3>1
    <3>2. buf[k] = CASE (k - 1) % 3 = 0 -> Buffer(n)[k + 2]
                     [] (k - 1) % 3 = 2 -> Buffer(n)[k - 2]
                     [] OTHER -> Buffer(n)[k]
      BY <1>1, <2>1 DEF Swapped, SampleBytes
    <3>3. 0 # 2 /\ 1 # 0 /\ 1 # 2
      OBVIOUS
    <3>4. CASE (k - 1) % 3 = 0
      BY <3>2, <3>3, <3>4, Zenon
    <3>5. CASE (k - 1) % 3 = 2
      BY <3>2, <3>3, <3>5, Zenon
    <3>6. CASE (k - 1) % 3 = 1
      BY <3>2, <3>3, <3>6, Zenon
    <3> QED BY <1>2, <3>4, <3>5, <3>6
  <2> DEFINE Raw(k) == <<sfGiven + (k - 1) \div 3, (k - 1) % 3>>
             Turned(k) == <<sfGiven + (k - 1) \div 3, 2 - ((k - 1) % 3)>>
  <2>4. ASSUME NEW k \in 1 .. 3 * n
        PROVE  buf[k] = Turned(k)
    <3>1. CASE (k - 1) % 3 = 0
      <4>1. /\ k + 2 \in 1 .. 3 * n /\ (k + 2 - 1) \div 3 = (k - 1) \div 3
            /\ (k + 2 - 1) % 3 = 2
        BY <3>1
      <4>2. buf[k] = Buffer(n)[k + 2]
        BY <2>3, <3>1
      <4>3. Buffer(n)[k + 2] = Raw(k + 2)
        BY <1>1, <4>1
      <4>4. Raw(k + 2) = Turned(k)
        BY <3>1, <4>1
      <4> QED BY <4>2, <4>3, <4>4
    <3>2. CASE (k - 1) % 3 = 2
      <4>1. /\ k - 2 \in 1 .. 3 * n /\ (k - 2 - 1) \div 3 = (k - 1) \div 3
            /\ (k - 2 - 1) % 3 = 0
        BY <3>2
      <4>2. buf[k] = Buffer(n)[k - 2]
        BY <2>3, <3>2
      <4>3. Buffer(n)[k - 2] = Raw(k - 2)
        BY <1>1, <4>1
      <4>4. Raw(k - 2) = Turned(k)
        BY <3>2, <4>1
      <4> QED BY <4>2, <4>3, <4>4
    <3>3. CASE (k - 1) % 3 = 1
      <4>1. buf[k] = Buffer(n)[k]
        BY <2>3, <3>3
      <4>2. Buffer(n)[k] = Raw(k)
        BY <1>1
      <4>3. Raw(k) = Turned(k)
        BY <3>3
      <4> QED BY <4>1, <4>2, <4>3
    <3> QED BY <1>2, <3>1, <3>2, <3>3
  <2>5. \A k \in 1 .. 3 * n : buf[k] \in Bytes
    <3>1. \A k \in 1 .. 3 * n : Turned(k) \in Bytes
      BY <1>2 DEF Bytes
    <3> HIDE DEF Turned
    <3> QED BY <2>4, <3>1
  <2>6. buf \in Seq(Bytes) /\ Len(buf) = 3 * n
    <3>1. buf = [k \in 1 .. 3 * n |-> buf[k]]
      BY <1>1, <2>1 DEF Swapped
    <3>2. 3 * n \in Nat
      OBVIOUS
    <3> HIDE DEF Bytes
    <3> QED BY <2>5, <3>1, <3>2
  <2> QED BY <2>2, <2>4, <2>6 DEF SampleBytes
<1> QED BY <1>3, <1>4 DEF Formats

\* What is behind a file is appended: it stays in order.
LEMMA AppendedInOrder ==
  ASSUME SndInv, sfPc = "open", sfGood, NEW n \in Nat, NEW add \in Seq(Bytes),
         Len(add) <= SampleBytes * n, sfFormat' = sfFormat, sfGiven' = sfGiven + n,
         \A k \in 1 .. Len(add) : add[k] = ByteOf(SampleBytes * sfGiven + k),
         sfBytes' = sfBytes \o add
  PROVE  /\ sfBytes' \in Seq(Bytes) /\ sfGiven' \in Nat
         /\ Len(sfBytes') = SampleBytes * sfGiven + Len(add)
         /\ BytesInOrder'
<1>1. /\ sfBytes \in Seq(Bytes) /\ Len(sfBytes) = SampleBytes * sfGiven /\ sfGiven \in Nat
      /\ \A k \in 1 .. Len(sfBytes) : sfBytes[k] = ByteOf(k)
  BY DEF SndInv, BytesInOrder, SampleBytes
<1>2. /\ sfBytes' \in Seq(Bytes) /\ Len(sfBytes') = Len(sfBytes) + Len(add)
      /\ \A k \in 1 .. Len(sfBytes) + Len(add) :
           sfBytes'[k] = IF k <= Len(sfBytes) THEN sfBytes[k] ELSE add[k - Len(sfBytes)]
  <2> HIDE DEF Bytes
  <2> QED BY <1>1, ConcatProperties
<1>3. ASSUME NEW k \in 1 .. Len(sfBytes')
      PROVE  sfBytes'[k] = ByteOf(k)
  <2>1. CASE k <= Len(sfBytes)
    BY <1>1, <1>2, <2>1
  <2>2. CASE k > Len(sfBytes)
    <3> DEFINE j == k - Len(sfBytes)
    <3>1. j \in 1 .. Len(add) /\ SampleBytes * sfGiven + j = k
      BY <1>1, <1>2, <2>2
    <3>2. sfBytes'[k] = add[j]
      BY <1>1, <1>2, <2>2
    <3> HIDE DEF j
    <3> QED BY <3>1, <3>2
  <2> QED BY <1>1, <1>2, <2>1, <2>2
<1>4. \A k : ByteOf(k)' = ByteOf(k)
  BY DEF ByteOf
<1> QED BY <1>1, <1>2, <1>3, <1>4 DEF BytesInOrder

LEMMA SndInvInit == SndInit => SndInv
BY DEF SndInit, SndInv, BytesInOrder, HeaderIsHonest, Formats, NoHeader, EmptyHeader, SampleBytes

LEMMA SndInvStep == SndInv /\ [SndNext]_sndVars => SndInv'
<1> SUFFICES ASSUME SndInv, [SndNext]_sndVars PROVE SndInv'
  OBVIOUS
<1> USE SoundFileAssumption
\* What the header says is of interest in files that are closed only.
<1>1. ASSUME sfPc' # "closed" \/ ~sfGood', sfHeader' \in {EmptyHeader, NoHeader}, BytesInOrder'
      PROVE  HeaderIsHonest'
  BY <1>1 DEF HeaderIsHonest, BytesInOrder, EmptyHeader, NoHeader
<1>2. ~(sfPc = "closed" /\ sfGood) => sfHeader \in {EmptyHeader, NoHeader}
  BY DEF SndInv, HeaderIsHonest
<1>3. ASSUME NEW works \in BOOLEAN, OpenFile(works)
      PROVE  SndInv'
  <2>1. BytesInOrder' /\ sfBytes' = <<>> /\ sfGiven' = 0
    BY <1>3 DEF SndInv, OpenFile, BytesInOrder
  <2>2. HeaderIsHonest'
    BY <1>1, <1>3, <2>1 DEF OpenFile
  <2> QED BY <1>3, <2>1, <2>2 DEF SndInv, OpenFile, SampleBytes
<1>4. ASSUME NEW n \in WriteSizes, WriteRaw(n)
      PROVE  SndInv'
  <2>1. /\ n \in Nat \ {0} /\ sfPc = "open" /\ sfPc' = "open" /\ sfFormat' = sfFormat
        /\ sfHeader' = sfHeader /\ sfGiven' = sfGiven + n /\ sfGiven \in Nat
        /\ sfFormat \in Formats
    BY <1>4 DEF WriteRaw, SndInv
  <2>2. PICK buf : buf = IF sfFormat = "aif" THEN Swapped(Buffer(n)) ELSE Buffer(n)
    OBVIOUS
  <2>3. /\ buf \in Seq(Bytes) /\ Len(buf) = SampleBytes * n
        /\ \A k \in 1 .. Len(buf) : buf[k] = ByteOf(SampleBytes * sfGiven + k)
    BY <2>1, <2>2, BufferBytes
  <2>4. \/ sfGood /\ sfBytes' = sfBytes \o buf /\ sfGood' = sfGood
        \/ /\ sfGood /\ sfGood' = FALSE
           /\ \E k \in 0 .. Len(buf) - 1 : sfBytes' = sfBytes \o SubSeq(buf, 1, k)
        \/ ~sfGood /\ UNCHANGED <<sfBytes, sfGood>>
    BY <1>4, <2>2 DEF WriteRaw
  <2>5. CASE sfGood /\ sfBytes' = sfBytes \o buf /\ sfGood' = sfGood
    <3>1. /\ sfBytes' \in Seq(Bytes) /\ sfGiven' \in Nat /\ BytesInOrder'
          /\ Len(sfBytes') = SampleBytes * sfGiven + Len(buf)
      <4>1. Len(buf) <= SampleBytes * n
        BY <2>1, <2>3 DEF SampleBytes
      <4> QED BY <2>1, <2>3, <2>5, <4>1, AppendedInOrder
    <3>2. Len(sfBytes') = SampleBytes * sfGiven'
      BY <2>1, <2>3, <3>1 DEF SampleBytes
    <3>3. HeaderIsHonest'
      BY <1>1, <1>2, <2>1, <3>1
    <3> QED BY <2>1, <2>5, <3>1, <3>2, <3>3 DEF SndInv, SampleBytes
  <2>6. CASE /\ sfGood /\ sfGood' = FALSE
             /\ \E k \in 0 .. Len(buf) - 1 : sfBytes' = sfBytes \o SubSeq(buf, 1, k)
    <3>1. PICK k \in 0 .. Len(buf) - 1 : sfBytes' = sfBytes \o SubSeq(buf, 1, k)
      BY <2>6
    <3>2. PICK add : add = SubSeq(buf, 1, k)
      OBVIOUS
    <3>3. /\ add \in Seq(Bytes) /\ Len(add) = k /\ k \in Nat
          /\ \A i \in 1 .. Len(add) : add[i] = buf[i] /\ i \in 1 .. Len(buf)
      <4> HIDE DEF Bytes
      <4> QED BY <2>3, <3>2, SubSeqProperties
    <3>4. Len(add) <= SampleBytes * n
      BY <2>1, <2>3, <3>3 DEF SampleBytes
    <3>5. /\ sfBytes' \in Seq(Bytes) /\ sfGiven' \in Nat /\ BytesInOrder'
          /\ Len(sfBytes') = SampleBytes * sfGiven + Len(add)
      <4>1. \A i \in 1 .. Len(add) : add[i] = ByteOf(SampleBytes * sfGiven + i)
        BY <2>3, <3>3
      <4> QED BY <2>1, <2>6, <3>1, <3>2, <3>3, <3>4, <4>1, AppendedInOrder
    <3>6. Len(sfBytes') <= SampleBytes * sfGiven'
      BY <2>1, <3>3, <3>4, <3>5 DEF SampleBytes
    <3>7. HeaderIsHonest'
      BY <1>1, <1>2, <2>1, <2>6, <3>5
    <3> QED BY <2>1, <2>6, <3>5, <3>6, <3>7 DEF SndInv
  <2>7. CASE ~sfGood /\ UNCHANGED <<sfBytes, sfGood>>
    <3>1. Len(sfBytes) \in Nat /\ Len(sfBytes) <= SampleBytes * sfGiven
      BY <2>1 DEF SndInv
    <3>2. BytesInOrder'
      <4>1. \A k \in 1 .. Len(sfBytes) : k <= SampleBytes * sfGiven
        BY <2>1, <3>1 DEF SampleBytes
      <4> QED BY <2>1, <2>7, <4>1 DEF SndInv, BytesInOrder, ByteOf
    <3>3. HeaderIsHonest'
      BY <1>1, <1>2, <2>1, <2>7, <3>2
    <3>4. Len(sfBytes') <= SampleBytes * sfGiven'
      BY <2>1, <2>7, <3>1 DEF SampleBytes
    <3> QED BY <2>1, <2>7, <3>2, <3>3, <3>4 DEF SndInv
  <2> QED BY <2>4, <2>5, <2>6, <2>7
<1>5. CASE CloseFile
  <2>1. /\ sfPc = "open" /\ sfPc' = "closed" /\ UNCHANGED <<sfFormat, sfGood, sfGiven>>
        /\ sfFormat \in Formats /\ sfGood \in BOOLEAN /\ sfGiven \in Nat
        /\ sfBytes \in Seq(Bytes) /\ BytesInOrder
    BY <1>5 DEF CloseFile, SndInv
  <2>2. CASE ~sfGood
    <3>1. sfHeader' = sfHeader /\ sfBytes' = sfBytes
      BY <1>5, <2>2 DEF CloseFile
    <3>2. BytesInOrder'
      BY <2>1, <3>1 DEF BytesInOrder, ByteOf
    <3>3. HeaderIsHonest'
      BY <1>1, <1>2, <2>1, <2>2, <3>1, <3>2
    <3> QED BY <2>1, <3>1, <3>2, <3>3 DEF SndInv
  <2>3. CASE sfGood
    <3>1. Len(sfBytes) = 3 * sfGiven
      BY <2>1, <2>3 DEF SndInv, SampleBytes
    <3>2. PICK pos \in Nat : pos = HeaderBytes + Len(sfBytes)
      BY <2>1, <3>1 DEF HeaderBytes
    <3>3. /\ sfHeader' = Sizes(pos)
          /\ sfBytes' = IF sfFormat = "wav" /\ pos % 2 = 1
                        THEN Append(sfBytes, <<-1, 0>>) ELSE sfBytes
      BY <1>5, <2>3, <3>2 DEF CloseFile
    <3>4. /\ sfBytes' \in Seq(Bytes)
          /\ Len(sfBytes') = Len(sfBytes) + (IF sfFormat = "wav" /\ pos % 2 = 1 THEN 1 ELSE 0)
          /\ \A k \in 1 .. Len(sfBytes) : sfBytes'[k] = sfBytes[k]
      BY <2>1, <3>3 DEF Bytes
    <3>5. BytesInOrder'
      BY <2>1, <3>1, <3>4 DEF BytesInOrder, ByteOf, SampleBytes
    <3>6. CASE sfFormat = "wav"
      <4>1. /\ pos = 44 + 3 * sfGiven
            /\ sfHeader'.form = (pos - 8) % SizeLimit /\ sfHeader'.data = (pos - 44) % SizeLimit
        BY <3>1, <3>2, <3>3, <3>6 DEF HeaderBytes, Sizes
      <4>2. pos - 8 < SizeLimit => sfHeader'.form = pos - 8 /\ sfHeader'.data = 3 * sfGiven
        BY <2>1, <4>1
      <4>3. (44 + Len(sfBytes')) % 2 = 0
        BY <3>1, <3>4, <3>6, <4>1, <2>1
      <4>4. HeaderIsHonest'
        BY <2>1, <3>1, <3>4, <3>5, <3>6, <4>1, <4>2, <4>3, <2>3
           DEF HeaderIsHonest, HeaderBytes, SampleBytes, BytesInOrder
      <4> QED BY <2>1, <3>4, <3>5, <4>4 DEF SndInv
    <3>7. CASE sfFormat = "aif"
      <4>1. /\ pos = 54 + 3 * sfGiven /\ sfBytes' = sfBytes
            /\ sfHeader'.form = (pos - 8) % SizeLimit /\ sfHeader'.data = (pos - 46) % SizeLimit
            /\ sfHeader'.frames = ((pos - 46 - 8) \div 3) % SizeLimit
        BY <3>1, <3>2, <3>3, <3>7 DEF HeaderBytes, Sizes, SampleBytes
      <4>2. pos - 8 < SizeLimit => /\ sfHeader'.form = pos - 8
                                   /\ sfHeader'.data = 8 + 3 * sfGiven
                                   /\ sfHeader'.frames = sfGiven
        BY <2>1, <4>1
      <4>3. HeaderIsHonest'
        BY <2>1, <3>1, <3>5, <3>7, <4>1, <4>2, <2>3
           DEF HeaderIsHonest, HeaderBytes, SampleBytes, BytesInOrder
      <4> QED BY <2>1, <3>4, <3>5, <4>3 DEF SndInv
    <3> QED BY <2>1, <3>6, <3>7 DEF Formats
  <2> QED BY <2>1, <2>2, <2>3
<1>6. CASE StopFile
  <2>1. /\ sfPc = "open" /\ sfPc' = "stopped"
        /\ UNCHANGED <<sfFormat, sfGood, sfHeader, sfBytes, sfGiven>>
    BY <1>6 DEF StopFile
  <2>2. BytesInOrder'
    BY <2>1 DEF SndInv, BytesInOrder, ByteOf
  <2>3. HeaderIsHonest'
    BY <1>1, <1>2, <2>1, <2>2
  <2> QED BY <2>1, <2>2, <2>3 DEF SndInv
<1>7. CASE UNCHANGED sndVars
  BY <1>7 DEF sndVars, SndInv, BytesInOrder, ByteOf, HeaderIsHonest, HeaderBytes
<1> QED BY <1>3, <1>4, <1>5, <1>6, <1>7 DEF SndNext

\* Whatever is written to a sound file and wherever its disk fills up or the
\* program stops (hd24sndfile::open, writerawbuf, close): its header counts
\* the samples that were given, if all went well and they are not more than
\* it can count, and otherwise none; and the bytes are in the format's order.
THEOREM HeaderStaysHonest == SndSpec => []HeaderIsHonest
<1>1. SndInv => HeaderIsHonest
  BY DEF SndInv
<1> QED BY <1>1, SndInvInit, SndInvStep, PTL DEF SndSpec
=============================================================================
