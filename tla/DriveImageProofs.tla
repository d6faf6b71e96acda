-------------------------- MODULE DriveImageProofs --------------------------
(***************************************************************************)
(* Proofs about DriveImage, for images and blocks of any size and any      *)
(* number of requests and failures: where blocks are in the file, how      *)
(* requests are split, and that what was written is read back.             *)
(***************************************************************************)
EXTENDS DriveImage, TLAPS, SequenceTheorems

\* Blocks other than the first are entered where the file ended before them,
\* one sector too low; the block being appended is behind all that is entered.
Top == IF imgOp.pc = "entry" THEN imgOp.lastsec ELSE imgSize - 1

OpIsRecord ==
    imgOp = [pc |-> imgOp.pc, first |-> imgOp.first, count |-> imgOp.count,
             pieces |-> imgOp.pieces, lastsec |-> imgOp.lastsec]

EntryAwaited ==
    imgOp.pc = "entry" =>
      /\ imgOp.lastsec \in Nat /\ imgOp.lastsec >= SharedSector
      /\ imgSize = imgOp.lastsec + 1 + ClusterSize
      /\ Head(imgOp.pieces).block # 0

LaterBlock(b) ==
    BlockStart(b) >= SharedSector /\ BlockStart(b) + ClusterSize <= Top

BlocksInOrder(a, b) ==
    BlockStart(a) + ClusterSize <= BlockStart(b) \/ BlockStart(b) + ClusterSize <= BlockStart(a)

ImageInv ==
    /\ imgSize \in Nat /\ imgSize >= FsOffset + ClusterSize
    /\ imgIndex \in [ImgBlocks -> Nat] /\ imgIndex[0] = FsOffset
    /\ OpIsRecord
    /\ EntryAwaited
    /\ \A b \in ImgBlocks \ {0} : IsReserved(b) => LaterBlock(b)
    /\ \A a, b \in ImgBlocks \ {0} :
         a # b /\ IsReserved(a) /\ IsReserved(b) => BlocksInOrder(a, b)

LEMMA ImageSizes ==
    /\ ClusterSize \in Nat /\ ClusterSize >= 2
    /\ FsOffset \in Nat /\ FsOffset >= 2 /\ SharedSector \in Nat
    /\ SharedSector = FsOffset + ClusterSize - 1
    /\ 0 \in ImgBlocks /\ ImgBlocks \subseteq Nat
<1>1. \A m, n \in Nat \ {0} : m * n \in Nat \ {0}
  OBVIOUS
<1>2. IndexSectors * EntriesPerSector \in Nat \ {0}
  BY <1>1, ImageAssumption
<1> QED BY <1>2, ImageAssumption DEF FsOffset, SharedSector, ImgBlocks

LEMMA ImageInvInit == ImageInit => ImageInv
BY ImageSizes
   DEF ImageInit, ImageInv, ImageIdle, OpIsRecord, EntryAwaited, IsReserved

LEMMA ImageInvStep == ImageInv /\ [ImageNext]_imageVars => ImageInv'
<1> SUFFICES ASSUME ImageInv, [ImageNext]_imageVars
             PROVE  ImageInv'
  OBVIOUS
<1> USE ImageSizes
\* A step that leaves the file and its index alone, and awaits no entry.
<1>1. ASSUME imgSize' = imgSize, imgIndex' = imgIndex, OpIsRecord',
             imgOp.pc # "entry", imgOp'.pc # "entry"
      PROVE  ImageInv'
  BY <1>1 DEF ImageInv, EntryAwaited, LaterBlock, BlocksInOrder, BlockStart, IsReserved, Top
<1>2. ASSUME NEW s \in DriveSectors, NEW n \in 1 .. MaxRequest, ContentWrite(s, n)
      PROVE  ImageInv'
  BY <1>1, <1>2 DEF ContentWrite, ImageIdle, OpIsRecord
<1>3. CASE AlreadyReserved
  BY <1>1, <1>3 DEF AlreadyReserved, OpIsRecord, ImageInv
<1>4. ASSUME NEW n \in 0 .. ClusterSize, AppendBlock(n)
      PROVE  ImageInv'
  <2>1. /\ imgOp.pc = "reserve" /\ imgIndex' = imgIndex /\ imgSize' = imgSize + n
        /\ Head(imgOp.pieces).block # 0
    BY <1>4 DEF AppendBlock, ImageInv, IsReserved
  <2>2. imgSize' \in Nat /\ imgSize' >= imgSize /\ imgSize \in Nat
    BY <2>1 DEF ImageInv
  <2>3. OpIsRecord' /\ EntryAwaited' /\ Top' >= Top /\ Top \in Int /\ Top' \in Int
    <3>1. CASE n = ClusterSize
      <4>1. imgOp' = [imgOp EXCEPT !.pc = "entry", !.lastsec = imgSize - 1]
        BY <1>4, <3>1 DEF AppendBlock, ContainerLastSector
      <4>2. /\ OpIsRecord' /\ imgOp'.pc = "entry" /\ imgOp'.lastsec = imgSize - 1
            /\ imgOp'.pieces = imgOp.pieces
        BY <4>1 DEF ImageInv, OpIsRecord
      <4> QED BY <2>1, <2>2, <3>1, <4>2 DEF EntryAwaited, Top, ImageInv
    <3>2. CASE n # ClusterSize
      <4>1. imgOp' = ImageIdle
        BY <1>4, <3>2 DEF AppendBlock
      <4> QED BY <2>1, <2>2, <4>1 DEF ImageIdle, OpIsRecord, EntryAwaited, Top
    <3> QED BY <3>1, <3>2
  <2>4. ASSUME NEW b \in ImgBlocks \ {0}, imgIndex[b] # 0
        PROVE  LaterBlock(b)'
    BY <2>1, <2>3, <2>4 DEF ImageInv, LaterBlock, BlockStart, IsReserved
  <2>5. \A b \in ImgBlocks \ {0} : IsReserved(b)' => LaterBlock(b)'
    BY <2>1, <2>4 DEF IsReserved
  <2>6. \A a, b \in ImgBlocks \ {0} :
          a # b /\ IsReserved(a)' /\ IsReserved(b)' => BlocksInOrder(a, b)'
    BY <2>1 DEF ImageInv, IsReserved, BlocksInOrder, BlockStart
  <2> QED BY <2>1, <2>2, <2>3, <2>5, <2>6 DEF ImageInv
<1>5. CASE WriteEntry
  <2>0. PICK b, last : b = Head(imgOp.pieces).block /\ last = imgOp.lastsec
    OBVIOUS
  <2>1. /\ imgIndex' = [imgIndex EXCEPT ![b] = last - FsOffset] /\ imgSize' = imgSize
        /\ b # 0 /\ last \in Nat /\ last >= SharedSector
        /\ imgSize = last + 1 + ClusterSize /\ Top = last
    BY <1>5, <2>0 DEF WriteEntry, ImageInv, EntryAwaited, EntryFor, Top
  <2>2. OpIsRecord' /\ EntryAwaited' /\ Top' = last + ClusterSize
    <3>1. imgOp' = [imgOp EXCEPT !.pc = "put"]
      BY <1>5 DEF WriteEntry
    <3>2. OpIsRecord' /\ imgOp'.pc = "put"
      BY <3>1 DEF ImageInv, OpIsRecord
    <3> QED BY <2>1, <3>2 DEF EntryAwaited, Top
  <2>10. last - FsOffset \in Nat /\ FsOffset \in Nat
    BY <2>1
  <2>11. imgIndex \in [ImgBlocks -> Nat] /\ imgIndex[0] = FsOffset
    BY DEF ImageInv
  <2>3. imgIndex' \in [ImgBlocks -> Nat] /\ imgIndex'[0] = FsOffset
    <3>1. imgIndex' \in [ImgBlocks -> Nat]
      BY <2>1, <2>10, <2>11
    <3>2. imgIndex'[0] = imgIndex[0]
      BY <2>1, <2>11
    <3> QED BY <2>11, <3>1, <3>2
  <2>4. ASSUME NEW c \in ImgBlocks \ {0}, c # b
        PROVE  imgIndex'[c] = imgIndex[c]
    BY <2>1, <2>4, <2>11
  <2>5. ASSUME b \in ImgBlocks
        PROVE  imgIndex'[b] = last - FsOffset
    BY <2>1, <2>5, <2>11
  <2>6. ASSUME NEW c \in ImgBlocks \ {0}, IsReserved(c)', c # b
        PROVE  /\ IsReserved(c)
               /\ BlockStart(c)' = BlockStart(c) /\ BlockStart(c) \in Nat
               /\ BlockStart(c) >= SharedSector /\ BlockStart(c) + ClusterSize <= last
    <3>1. imgIndex'[c] = imgIndex[c] /\ imgIndex[c] \in Nat
      BY <2>4, <2>6, <2>11
    <3>2. IsReserved(c) /\ BlockStart(c)' = BlockStart(c) /\ BlockStart(c) \in Nat
      BY <2>6, <3>1 DEF IsReserved, BlockStart
    <3>3. LaterBlock(c)
      BY <2>6, <3>2 DEF ImageInv
    <3> QED BY <2>1, <3>2, <3>3 DEF LaterBlock
  <2>7. ASSUME b \in ImgBlocks
        PROVE  BlockStart(b)' = last
    <3>1. BlockStart(b)' = imgIndex'[b] + FsOffset
      BY <2>1 DEF BlockStart
    <3> QED BY <2>1, <2>5, <2>7, <2>10, <3>1
  <2>8. ASSUME NEW c \in ImgBlocks \ {0}, IsReserved(c)'
        PROVE  LaterBlock(c)'
    <3>1. CASE c = b
      <4>1. BlockStart(c)' = last
        BY <2>7, <2>8, <3>1
      <4> QED BY <2>1, <2>2, <4>1 DEF LaterBlock
    <3>2. CASE c # b
      <4>1. /\ BlockStart(c)' = BlockStart(c) /\ BlockStart(c) \in Nat
            /\ BlockStart(c) >= SharedSector /\ BlockStart(c) + ClusterSize <= last
        BY <2>6, <2>8, <3>2
      <4>2. BlockStart(c)' >= SharedSector /\ BlockStart(c)' + ClusterSize <= Top'
        BY <2>1, <2>2, <4>1
      <4> QED BY <4>2 DEF LaterBlock
    <3> QED BY <3>1, <3>2
  <2>9. ASSUME NEW c \in ImgBlocks \ {0}, NEW d \in ImgBlocks \ {0}, c # d,
               IsReserved(c)', IsReserved(d)'
        PROVE  BlocksInOrder(c, d)'
    <3>1. CASE c # b /\ d # b
      <4>1. /\ IsReserved(c) /\ BlockStart(c)' = BlockStart(c)
            /\ IsReserved(d) /\ BlockStart(d)' = BlockStart(d)
        BY <2>6, <2>9, <3>1
      <4>2. BlocksInOrder(c, d)
        BY <2>9, <4>1 DEF ImageInv
      <4> QED BY <4>1, <4>2 DEF BlocksInOrder
    <3>2. CASE c = b
      <4>1. BlockStart(c)' = last
        BY <2>7, <2>9, <3>2
      <4>2. BlockStart(d)' + ClusterSize <= last
        BY <2>6, <2>9, <3>2
      <4> QED BY <4>1, <4>2 DEF BlocksInOrder
    <3>3. CASE d = b
      <4>1. BlockStart(d)' = last
        BY <2>7, <2>9, <3>3
      <4>2. BlockStart(c)' + ClusterSize <= last
        BY <2>6, <2>9, <3>3
      <4> QED BY <4>1, <4>2 DEF BlocksInOrder
    <3> QED BY <3>1, <3>2, <3>3
  <2> QED BY <2>1, <2>2, <2>3, <2>8, <2>9 DEF ImageInv
<1>6. CASE PutSectors
  <2>1. imgOp.pc = "put" /\ imgSize' = imgSize /\ imgIndex' = imgIndex
    BY <1>6 DEF PutSectors
  <2>2. OpIsRecord' /\ imgOp'.pc # "entry"
    BY <1>6 DEF PutSectors, ImageIdle, OpIsRecord, ImageInv
  <2> QED BY <1>1, <2>1, <2>2
<1>7. CASE AbandonRequest
  \* An entry that is given up leaves its block in the file for nobody.
  <2>1. imgSize' = imgSize /\ imgIndex' = imgIndex /\ imgOp' = ImageIdle
    BY <1>7 DEF AbandonRequest
  <2>2. OpIsRecord' /\ EntryAwaited' /\ Top' = imgSize - 1 /\ Top' >= Top /\ Top \in Int
    BY <2>1 DEF ImageIdle, OpIsRecord, EntryAwaited, Top, ImageInv
  <2> QED BY <2>1, <2>2 DEF ImageInv, LaterBlock, BlocksInOrder, BlockStart, IsReserved
<1>8. CASE UNCHANGED imageVars
  BY <1>8 DEF imageVars, ImageInv, OpIsRecord, EntryAwaited, LaterBlock, BlocksInOrder,
              BlockStart, IsReserved, Top
<1> QED BY <1>2, <1>3, <1>4, <1>5, <1>6, <1>7, <1>8 DEF ImageNext

LEMMA ImageInvApart == ImageInv => ImageBlocksApart
<1> SUFFICES ASSUME ImageInv PROVE ImageBlocksApart
  OBVIOUS
<1> USE ImageSizes
<1>1. Top \in Int /\ Top <= imgSize - 1
  BY DEF ImageInv, EntryAwaited, Top
<1>2. ASSUME NEW b \in ImgBlocks, IsReserved(b)
      PROVE  /\ BlockStart(b) \in Nat /\ FsOffset <= BlockStart(b)
             /\ BlockStart(b) + ClusterSize <= imgSize
             /\ (b # 0 => BlockStart(b) >= SharedSector)
             /\ (b = 0 => BlockStart(b) = FsOffset)
  <2>1. imgIndex[b] \in Nat /\ imgIndex[0] = FsOffset
        /\ imgSize \in Nat /\ imgSize >= FsOffset + ClusterSize
    BY <1>2 DEF ImageInv
  <2>2. BlockStart(b) \in Nat
    BY <2>1 DEF BlockStart
  <2>3. CASE b = 0
    BY <2>1, <2>3 DEF BlockStart
  <2>4. CASE b # 0
    <3>1. BlockStart(b) >= SharedSector /\ BlockStart(b) + ClusterSize <= Top
      BY <1>2, <2>4 DEF ImageInv, LaterBlock
    <3> QED BY <1>1, <2>1, <2>2, <2>4, <3>1
  <2> QED BY <2>3, <2>4
<1>3. ASSUME NEW b \in ImgBlocks, IsReserved(b)
      PROVE  ImageBlockSectors(b) \subseteq FsOffset .. imgSize - 1
  <2>1. /\ BlockStart(b) \in Nat /\ FsOffset <= BlockStart(b)
        /\ BlockStart(b) + ClusterSize <= imgSize /\ imgSize \in Nat
    BY <1>2, <1>3 DEF ImageInv
  <2> QED BY <2>1 DEF ImageBlockSectors
<1>4. ASSUME NEW a \in ImgBlocks, NEW b \in ImgBlocks, a # b, IsReserved(a), IsReserved(b)
      PROVE  ImageBlockSectors(a) \cap ImageBlockSectors(b) \subseteq {SharedSector}
  <2>1. /\ BlockStart(a) \in Nat
        /\ (a # 0 => BlockStart(a) >= SharedSector) /\ (a = 0 => BlockStart(a) = FsOffset)
    BY <1>2, <1>4
  <2>2. /\ BlockStart(b) \in Nat
        /\ (b # 0 => BlockStart(b) >= SharedSector) /\ (b = 0 => BlockStart(b) = FsOffset)
    BY <1>2, <1>4
  <2>3. a # 0 /\ b # 0 => BlocksInOrder(a, b)
    BY <1>4 DEF ImageInv
  <2> SUFFICES ASSUME NEW s \in Int,
                      BlockStart(a) <= s, s <= BlockStart(a) + ClusterSize - 1,
                      BlockStart(b) <= s, s <= BlockStart(b) + ClusterSize - 1
               PROVE  s = SharedSector
    BY <2>1, <2>2 DEF ImageBlockSectors
  <2>4. CASE a = 0
    <3>1. BlockStart(a) = FsOffset /\ BlockStart(b) >= SharedSector
      BY <1>4, <2>1, <2>2, <2>4
    <3> QED BY <2>2, <3>1
  <2>5. CASE b = 0
    <3>1. BlockStart(b) = FsOffset /\ BlockStart(a) >= SharedSector
      BY <1>4, <2>1, <2>2, <2>5
    <3> QED BY <2>1, <3>1
  <2>6. CASE a # 0 /\ b # 0
    BY <2>1, <2>2, <2>3, <2>6 DEF BlocksInOrder
  <2> QED BY <2>4, <2>5, <2>6
<1> QED BY <1>3, <1>4 DEF ImageBlocksApart

\* In an image of any size, after any requests, failed appends and stops, the
\* index never points two blocks at the same sectors, nor outside the file;
\* only the last sector of block 0 is shared, by the block appended first.
THEOREM ImageBlocksStayApart == ImageSpec => []ImageBlocksApart
<1>1. ImageSpec => []ImageInv
  BY ImageInvInit, ImageInvStep, PTL DEF ImageSpec
<1> QED BY <1>1, ImageInvApart, PTL

------------------------------------------------------------------------------
(* How a request is split. *)

\* What division says of quotient and remainder.
LEMMA QuotientAndRemainder ==
    ASSUME NEW s \in Nat, NEW c \in Nat \ {0}
    PROVE  s \div c \in Nat /\ s % c \in 0 .. c - 1 /\ s = (s \div c) * c + (s % c)
BY SMT

LEMMA BlockOfSector ==
    ASSUME NEW s \in Nat
    PROVE  /\ s \div ClusterSize \in Nat /\ s % ClusterSize \in 0 .. ClusterSize - 1
           /\ s = (s \div ClusterSize) * ClusterSize + (s % ClusterSize)
<1>1. ClusterSize \in Nat \ {0}
  BY ImageAssumption
<1> QED BY <1>1, QuotientAndRemainder, Zenon

LEMMA SectorOfBlock ==
    ASSUME NEW b \in Nat, NEW r \in 0 .. ClusterSize - 1
    PROVE  (b * ClusterSize + r) \div ClusterSize = b /\ (b * ClusterSize + r) % ClusterSize = r
<1>1. ClusterSize \in Nat \ {0}
  BY ImageAssumption
<1> QED BY <1>1, SMT

\* Sectors of the drive are in blocks of the image.
LEMMA SectorInImage ==
    ASSUME NEW b \in Nat, NEW s \in Nat, b * ClusterSize <= s, s < ContentSectors
    PROVE  b \in ImgBlocks
<1> DEFINE n == IndexSectors * EntriesPerSector
<1>1. ClusterSize \in Nat \ {0} /\ n \in Nat /\ ContentSectors \in Nat
      /\ ContentSectors <= ClusterSize * IndexSectors * EntriesPerSector
  <2>1. \A x, y \in Nat : x * y \in Nat
    OBVIOUS
  <2>2. IndexSectors \in Nat /\ EntriesPerSector \in Nat
    BY ImageAssumption
  <2>3. n \in Nat
    BY <2>1, <2>2
  <2> QED BY <2>3, ImageAssumption
<1>2. ClusterSize * IndexSectors * EntriesPerSector = n * ClusterSize
  <2>1. \A x, y, z \in Nat : x * y * z = (y * z) * x
    OBVIOUS
  <2> QED BY <2>1, ImageAssumption
<1> HIDE DEF n
<1>3. b * ClusterSize < n * ClusterSize
  <2>1. b * ClusterSize \in Nat /\ n * ClusterSize \in Nat
    BY <1>1
  <2> QED BY <1>1, <1>2, <2>1
<1>4. b < n
  <2>1. SUFFICES ASSUME n <= b PROVE FALSE
    BY <1>1
  <2>2. n * ClusterSize <= b * ClusterSize
    BY <1>1, <2>1
  <2> QED BY <1>1, <1>3, <2>2
<1> QED BY <1>1, <1>4 DEF ImgBlocks, n

\* A piece of the request for `count` sectors from `first` on: some sectors
\* of one block, and sectors that were asked for.
PiecesOf(first, count) ==
    {p \in BlockPiece :
       /\ p.from + p.count <= ClusterSize
       /\ first <= p.block * ClusterSize + p.from
       /\ p.block * ClusterSize + p.from + p.count <= first + count}

LEMMA OnePiece ==
    ASSUME NEW first \in Nat, NEW count \in Nat, first + count <= ContentSectors,
           NEW b \in Nat, NEW from \in Nat, NEW n \in Nat \ {0}, NEW buf \in Nat,
           from + n <= ClusterSize, first <= b * ClusterSize + from,
           b * ClusterSize + from + n <= first + count
    PROVE  [block |-> b, from |-> from, count |-> n, buf |-> buf] \in PiecesOf(first, count)
<1>1. ClusterSize \in Nat /\ ContentSectors \in Nat /\ b * ClusterSize \in Nat
  BY ImageAssumption
<1>2. b * ClusterSize <= b * ClusterSize + from /\ b * ClusterSize + from < ContentSectors
  BY <1>1
<1>3. b \in ImgBlocks
  BY <1>1, <1>2, SectorInImage
<1>4. from \in 0 .. ClusterSize - 1 /\ n \in 1 .. ClusterSize
  BY <1>1
<1> QED BY <1>1, <1>3, <1>4 DEF PiecesOf, BlockPiece

LEMMA PiecesAreRight ==
    ASSUME NEW s \in Nat, NEW n \in Nat \ {0}, s + n <= ContentSectors
    PROVE  /\ BlockPieces(s, n) \in Seq(PiecesOf(s, n)) /\ BlockPieces(s, n) # <<>>
           /\ (s % ClusterSize) + n <= ClusterSize
              => BlockPieces(s, n) = << [block |-> s \div ClusterSize, from |-> s % ClusterSize,
                                         count |-> n, buf |-> 0] >>
<1> DEFINE C     == ClusterSize
           first == s \div C
           from  == s % C
           last  == (s - 1 + n) \div C
           room  == C - from
           start == IF n < room THEN n ELSE room
           end   == (n - start) % C
           whole == (n - (start + end)) \div C
           Part(b, f, count, buf) == [block |-> b, from |-> f, count |-> count, buf |-> buf]
           a == <<Part(first, from, start, 0)>>
           m == [i \in 1 .. whole |-> Part(first + i, 0, C, i * BufferStride)]
           z == IF end = 0 THEN <<>> ELSE <<Part(last, 0, end, (whole + 1) * BufferStride)>>
<1>1. BlockPieces(s, n) = a \o m \o z
  BY Zenon DEF BlockPieces
<1>2. C \in Nat \ {0} /\ BufferStride \in Nat
  BY ImageAssumption
<1>3. first \in Nat /\ from \in 0 .. C - 1 /\ s = first * C + from
  BY BlockOfSector, Zenon
<1> HIDE DEF first, from
<1>4. start \in 1 .. C /\ start <= n /\ from + start <= C /\ (start # n => from + start = C)
      /\ (from + n <= C => start = n)
  BY <1>2, <1>3
<1> HIDE DEF start
<1>5. n - start \in Nat
  BY <1>4
<1>6. end \in 0 .. C - 1 /\ whole \in Nat /\ n = start + whole * C + end
  <2>1. end \in 0 .. C - 1 /\ (n - start) = ((n - start) \div C) * C + end
    BY <1>5, BlockOfSector, Zenon
  <2>2. (n - start) \div C \in Nat
    BY <1>5, BlockOfSector, Zenon
  <2> DEFINE q == (n - start) \div C
  <2> HIDE DEF end, q
  <2>3. n - (start + end) = q * C + 0 /\ q \in Nat /\ 0 \in 0 .. C - 1
    BY <1>2, <1>4, <2>1, <2>2 DEF q
  <2>4. (q * C + 0) \div C = q
    BY <2>3, SectorOfBlock
  <2>5. whole = q
    BY <2>3, <2>4
  <2> HIDE DEF whole
  <2>6. q * C \in Nat
    BY <1>2, <2>3
  <2> QED BY <1>2, <1>4, <2>1, <2>3, <2>5, <2>6 DEF q
<1> HIDE DEF end, whole
<1>7. whole * C \in Nat /\ first * C \in Nat
  BY <1>2, <1>3, <1>6
<1>8. (whole > 0 \/ end # 0) => s + start = (first + 1) * C /\ (first + 1) * C \in Nat
  <2>1. ASSUME whole > 0 PROVE whole * C >= C
    BY <1>2, <1>6, <2>1
  <2>2. (whole > 0 \/ end # 0) => start # n
    BY <1>2, <1>4, <1>6, <1>7, <2>1
  <2>3. (first + 1) * C = first * C + C
    BY <1>2, <1>3
  <2> QED BY <1>2, <1>3, <1>4, <1>7, <2>2, <2>3
<1>9. Part(first, from, start, 0) \in PiecesOf(s, n)
  <2>1. s <= first * C + from /\ first * C + from + start <= s + n
    BY <1>2, <1>3, <1>4, <1>7
  <2> QED BY <1>2, <1>3, <1>4, <2>1, OnePiece
<1>10. ASSUME NEW i \in 1 .. whole
       PROVE  Part(first + i, 0, C, i * BufferStride) \in PiecesOf(s, n)
  <2>1. i \in Nat /\ 1 <= i /\ i <= whole /\ first + i \in Nat /\ i * BufferStride \in Nat
    BY <1>2, <1>3, <1>6
  <2>2. (first + i) * C = (first + 1) * C + (i - 1) * C
    BY <1>2, <1>3, <2>1
  <2>3. (i - 1) * C \in Nat /\ (i - 1) * C + C <= whole * C
    <3>1. (i - 1) * C + C = i * C /\ i * C <= whole * C /\ (i - 1) * C \in Nat
      BY <1>2, <1>6, <2>1
    <3> QED BY <3>1
  <2>4. s <= (first + i) * C /\ (first + i) * C + C <= s + n /\ (first + i) * C \in Nat
    BY <1>2, <1>4, <1>6, <1>7, <1>8, <2>1, <2>2, <2>3
  <2>5. s <= (first + i) * C + 0 /\ (first + i) * C + 0 + C <= s + n
    BY <2>4
  <2> QED BY <1>2, <2>1, <2>5, OnePiece
<1>11. ASSUME end # 0
       PROVE  Part(last, 0, end, (whole + 1) * BufferStride) \in PiecesOf(s, n)
  <2>1. s - 1 + n = (first + 1) * C + whole * C + (end - 1)
    BY <1>2, <1>4, <1>6, <1>7, <1>8, <1>11
  <2>2. (first + 1) * C + whole * C = (first + 1 + whole) * C
    BY <1>2, <1>3, <1>6
  <2>3. first + 1 + whole \in Nat /\ end - 1 \in 0 .. C - 1
    BY <1>2, <1>3, <1>6, <1>11
  <2>4. last = first + 1 + whole
    BY <2>1, <2>2, <2>3, SectorOfBlock
  <2> HIDE DEF last
  <2>5. s <= last * C + 0 /\ last * C + 0 + end <= s + n /\ last \in Nat
    BY <1>2, <1>4, <1>6, <1>7, <1>8, <1>11, <2>2, <2>3, <2>4
  <2>6. (whole + 1) * BufferStride \in Nat /\ end \in Nat \ {0} /\ 0 + end <= C
    BY <1>2, <1>6, <1>11
  <2> QED BY <1>2, <2>5, <2>6, OnePiece
<1> HIDE DEF Part, last
<1>12. a \in Seq(PiecesOf(s, n)) /\ a # <<>> /\ Len(a) = 1
  BY <1>9
<1>13. m \in Seq(PiecesOf(s, n)) /\ Len(m) = whole
  BY <1>6, <1>10
<1>14. z \in Seq(PiecesOf(s, n))
  BY <1>11
<1>15. a \o m \o z \in Seq(PiecesOf(s, n)) /\ a \o m \o z # <<>>
  <2> HIDE DEF a, m, z
  <2>1. a \o m \in Seq(PiecesOf(s, n)) /\ Len(a \o m) = 1 + whole
    BY <1>6, <1>12, <1>13, ConcatProperties
  <2>2. Len((a \o m) \o z) = 1 + whole + Len(z) /\ (a \o m) \o z \in Seq(PiecesOf(s, n))
        /\ Len(z) \in Nat
    <3>1. Len(z) \in Nat
      BY <1>14
    <3> QED BY <1>6, <1>14, <2>1, <3>1, ConcatProperties
  <2>3. (a \o m) \o z # <<>>
    BY <1>6, <2>2
  <2> QED BY <2>2, <2>3
<1>16. ASSUME from + n <= C PROVE a \o m \o z = <<Part(first, from, n, 0)>>
  <2>1. start = n
    BY <1>4, <1>16
  <2>2. whole = 0 /\ end = 0
    <3>1. whole * C + end = 0
      BY <1>4, <1>6, <1>7, <2>1
    <3>2. whole * C = 0 /\ end = 0
      BY <1>6, <1>7, <3>1
    <3>3. whole = 0
      BY <1>2, <1>6, <3>2
    <3> QED BY <3>2, <3>3
  <2>3. z = <<>> /\ m = <<>>
    BY <2>2
  <2>4. a = <<Part(first, from, n, 0)>>
    BY <2>1
  <2> HIDE DEF a, m, z
  <2> QED BY <1>9, <1>12, <2>3, <2>4
<1> QED BY <1>1, <1>15, <1>16 DEF Part, first, from

------------------------------------------------------------------------------
(* What is written is read back. *)

\* The request in progress, and the piece of it at hand: its block is there
\* when its sectors are put, and not when its entry is written.
RequestOK ==
    /\ imgOp.pc \in {"idle", "reserve", "entry", "put"}
    /\ imgOp.first \in Nat /\ imgOp.count \in Nat
    /\ imgOp.pieces \in Seq(PiecesOf(imgOp.first, imgOp.count))
    /\ (imgOp.pc = "idle") <=> (imgOp.pieces = <<>>)
    /\ imgOp.pc = "put" => IsReserved(Head(imgOp.pieces).block)
    /\ imgOp.pc = "entry" => ~IsReserved(Head(imgOp.pieces).block)
    /\ imgWrites \in 0 .. MaxWrites /\ imgPartial \in 0 .. MaxPartial

\* What no block has in the file is empty: so a block is when it appears.
Free(x) == \A b \in ImgBlocks : IsReserved(b) => x \notin ImageBlockSectors(b)
FileOK ==
    /\ DOMAIN imgData = FsOffset .. imgSize - 1
    /\ \A x \in FsOffset .. imgSize - 1 : Free(x) => imgData[x] = EmptySector

\* Each sector of the drive reads as it was written.
SectorReads(s) ==
    \/ imgHeld[s] = NotDecided \/ OnSharedSector(s)
    \/ ReadBlock(s \div ClusterSize, s % ClusterSize) = imgHeld[s]

ReadInv == ImageInv /\ RequestOK /\ FileOK /\ \A s \in DriveSectors : SectorReads(s)

\* A sector of the drive has its block and its place there.
LEMMA PlaceOfSector ==
    ASSUME NEW s \in DriveSectors
    PROVE  /\ s \in Nat /\ s \div ClusterSize \in ImgBlocks
           /\ s % ClusterSize \in 0 .. ClusterSize - 1
           /\ s = (s \div ClusterSize) * ClusterSize + (s % ClusterSize)
<1>1. s \in Nat /\ s < ContentSectors
  BY ImageAssumption DEF DriveSectors
<1> DEFINE b == s \div ClusterSize
           r == s % ClusterSize
<1>2. b \in Nat /\ r \in 0 .. ClusterSize - 1 /\ s = b * ClusterSize + r
  BY <1>1, BlockOfSector, Zenon
<1> HIDE DEF b, r
<1>3. b * ClusterSize <= s
  BY <1>1, <1>2, ImageSizes
<1>4. b \in ImgBlocks
  BY <1>1, <1>2, <1>3, SectorInImage
<1> QED BY <1>1, <1>2, <1>4 DEF b, r

\* A block that is there has its sectors behind the index and in the file.
LEMMA PlaceOfBlock ==
    ASSUME ImageInv, NEW b \in ImgBlocks, IsReserved(b)
    PROVE  /\ BlockStart(b) \in Nat /\ BlockStart(b) >= FsOffset
           /\ BlockStart(b) + ClusterSize <= imgSize /\ imgSize \in Nat
<1>1. imgIndex[b] \in Nat /\ imgSize \in Nat
  BY DEF ImageInv
<1>2. BlockStart(b) \in Nat
  BY <1>1, ImageSizes DEF BlockStart
<1>3. ImageBlockSectors(b) \subseteq FsOffset .. imgSize - 1
  BY ImageInvApart DEF ImageBlocksApart
<1>4. /\ BlockStart(b) \in ImageBlockSectors(b)
      /\ BlockStart(b) + ClusterSize - 1 \in ImageBlockSectors(b)
  BY <1>2, ImageSizes DEF ImageBlockSectors
<1>5. /\ BlockStart(b) \in FsOffset .. imgSize - 1
      /\ BlockStart(b) + ClusterSize - 1 \in FsOffset .. imgSize - 1
  BY <1>3, <1>4
<1> QED BY <1>1, <1>2, <1>5, ImageSizes

LEMMA ReadInvInit == ImageInit => ReadInv
<1> SUFFICES ASSUME ImageInit PROVE ReadInv
  OBVIOUS
<1> USE ImageSizes
<1>1. ImageInv
  BY ImageInvInit
<1>2. /\ imgOp.pc = "idle" /\ imgOp.first = 0 /\ imgOp.count = 0 /\ imgOp.pieces = <<>>
      /\ imgWrites = 0 /\ imgPartial = 0
  BY DEF ImageInit, ImageIdle
<1>3. RequestOK
  BY <1>2, ImageAssumption DEF RequestOK
<1>4. /\ imgSize - 1 = FsOffset + ClusterSize - 1
      /\ imgData = [s \in FsOffset .. FsOffset + ClusterSize - 1 |-> EmptySector]
      /\ imgIndex = [b \in ImgBlocks |-> IF b = 0 THEN FsOffset ELSE 0]
      /\ imgHeld = [s \in DriveSectors |-> EmptySector]
  BY DEF ImageInit
<1>5. FileOK
  BY <1>4 DEF FileOK
<1>6. ASSUME NEW s \in DriveSectors PROVE SectorReads(s)
  <2> DEFINE b == s \div ClusterSize
             r == s % ClusterSize
  <2>1. b \in ImgBlocks /\ r \in 0 .. ClusterSize - 1
    BY PlaceOfSector, Zenon
  <2> HIDE DEF b, r
  <2>2. ReadBlock(b, r) = EmptySector
    <3>1. CASE IsReserved(b)
      <4>1. b = 0
        BY <1>4, <2>1, <3>1 DEF IsReserved
      <4>2. BlockStart(b) = FsOffset
        BY <1>4, <4>1 DEF BlockStart
      <4>3. FsOffset + r \in FsOffset .. FsOffset + ClusterSize - 1
        BY <2>1
      <4> QED BY <1>4, <3>1, <4>2, <4>3 DEF ReadBlock
    <3>2. CASE ~IsReserved(b)
      BY <3>2 DEF ReadBlock
    <3> QED BY <3>1, <3>2
  <2> QED BY <1>4, <2>2 DEF SectorReads, b, r
<1> QED BY <1>1, <1>3, <1>5, <1>6 DEF ReadInv

\* A step of the request alone changes nothing that is read.
LEMMA FileUntouched ==
    ASSUME ReadInv, UNCHANGED <<imgSize, imgIndex, imgData, imgHeld>>
    PROVE  FileOK' /\ \A s \in DriveSectors : SectorReads(s)'
<1>1. FileOK'
  BY DEF ReadInv, FileOK, Free, ImageBlockSectors, BlockStart, IsReserved
<1>2. ASSUME NEW s \in DriveSectors PROVE SectorReads(s)'
  <2>1. SectorReads(s)
    BY DEF ReadInv
  <2> QED BY <2>1 DEF SectorReads, OnSharedSector, ReadBlock, BlockStart, IsReserved
<1> QED BY <1>1, <1>2

\* The pieces of a new request.
LEMMA ContentWriteKeeps ==
    ASSUME ReadInv, NEW s \in DriveSectors, NEW n \in 1 .. MaxRequest,
           s + n <= ContentSectors, ContentWrite(s, n)
    PROVE  RequestOK' /\ FileOK' /\ \A x \in DriveSectors : SectorReads(x)'
<1>1. /\ imgOp' = [pc |-> "reserve", first |-> s, count |-> n,
                   pieces |-> BlockPieces(s, n), lastsec |-> 0]
      /\ imgWrites < MaxWrites /\ imgWrites' = imgWrites + 1 /\ imgPartial' = imgPartial
      /\ UNCHANGED <<imgSize, imgIndex, imgData, imgHeld>>
  BY DEF ContentWrite
<1>2. s \in Nat /\ n \in Nat \ {0}
  BY ImageAssumption DEF DriveSectors
<1>3. BlockPieces(s, n) \in Seq(PiecesOf(s, n)) /\ BlockPieces(s, n) # <<>>
  BY <1>2, PiecesAreRight
<1>4. imgWrites' \in 0 .. MaxWrites /\ imgPartial' \in 0 .. MaxPartial
  BY <1>1, ImageAssumption DEF ReadInv, RequestOK
<1>5. /\ imgOp'.pc = "reserve" /\ imgOp'.first = s /\ imgOp'.count = n
      /\ imgOp'.pieces = BlockPieces(s, n)
  BY <1>1
<1>6. RequestOK'
  BY <1>2, <1>3, <1>4, <1>5 DEF RequestOK
<1> QED BY <1>1, <1>6, FileUntouched

\* The piece at hand.
LEMMA HeadOfPieces ==
    ASSUME ReadInv, imgOp.pc # "idle"
    PROVE  /\ imgOp.pieces \in Seq(PiecesOf(imgOp.first, imgOp.count)) /\ imgOp.pieces # <<>>
           /\ Head(imgOp.pieces) \in PiecesOf(imgOp.first, imgOp.count)
           /\ Head(imgOp.pieces).block \in ImgBlocks
<1>1. imgOp.pieces \in Seq(PiecesOf(imgOp.first, imgOp.count)) /\ imgOp.pieces # <<>>
  BY DEF ReadInv, RequestOK
<1>2. Head(imgOp.pieces) \in PiecesOf(imgOp.first, imgOp.count)
  BY <1>1, HeadTailProperties
<1> QED BY <1>1, <1>2 DEF PiecesOf, BlockPiece

\* A block appended is empty, and so is what an append that failed leaves.
LEMMA AppendBlockKeeps ==
    ASSUME ReadInv, NEW n \in 0 .. ClusterSize, AppendBlock(n)
    PROVE  RequestOK' /\ FileOK' /\ \A s \in DriveSectors : SectorReads(s)'
<1> USE ImageSizes
<1>0. ImageInv /\ RequestOK /\ FileOK /\ imgSize \in Nat /\ imgSize >= FsOffset + ClusterSize
  BY DEF ReadInv, ImageInv
<1>1. /\ imgOp.pc = "reserve" /\ ~IsReserved(Head(imgOp.pieces).block)
      /\ n < ClusterSize => imgPartial < MaxPartial
      /\ imgSize' = imgSize + n
      /\ imgData' = [s \in FsOffset .. imgSize + n - 1 |->
                       IF s < imgSize THEN imgData[s] ELSE EmptySector]
      /\ UNCHANGED <<imgIndex, imgWrites, imgHeld>>
  BY DEF AppendBlock
<1>2. RequestOK'
  <2>1. CASE n = ClusterSize
    <3>1. imgOp' = [imgOp EXCEPT !.pc = "entry", !.lastsec = imgSize - 1] /\ imgPartial' = imgPartial
      BY <2>1 DEF AppendBlock, ContainerLastSector
    <3>2. /\ imgOp'.pc = "entry" /\ imgOp'.first = imgOp.first /\ imgOp'.count = imgOp.count
          /\ imgOp'.pieces = imgOp.pieces
      BY <1>0, <3>1 DEF ImageInv, OpIsRecord
    <3>3. IsReserved(Head(imgOp.pieces).block)' = IsReserved(Head(imgOp.pieces).block)
      BY <1>1, <3>2 DEF IsReserved
    <3> QED BY <1>0, <1>1, <3>1, <3>2, <3>3 DEF RequestOK
  <2>2. CASE n # ClusterSize
    <3>1. imgOp' = ImageIdle /\ imgPartial' = imgPartial + 1
      BY <2>2 DEF AppendBlock
    <3>2. imgOp'.pc = "idle" /\ imgOp'.first = 0 /\ imgOp'.count = 0 /\ imgOp'.pieces = <<>>
      BY <3>1 DEF ImageIdle
    <3>3. imgPartial' \in 0 .. MaxPartial
      BY <1>0, <1>1, <2>2, <3>1, ImageAssumption DEF RequestOK
    <3> QED BY <1>0, <1>1, <3>2, <3>3 DEF RequestOK
  <2> QED BY <2>1, <2>2
<1>3. \A x : Free(x)' <=> Free(x)
  BY <1>1 DEF Free, ImageBlockSectors, BlockStart, IsReserved
<1>4. FileOK'
  <2>0. FsOffset .. imgSize' - 1 = FsOffset .. imgSize + n - 1
    <3>1. imgSize' - 1 = imgSize + n - 1
      BY <1>0, <1>1
    <3> QED BY <3>1
  <2>1. DOMAIN imgData' = FsOffset .. imgSize' - 1
    BY <1>1, <2>0
  <2>2. ASSUME NEW x \in FsOffset .. imgSize' - 1, Free(x) PROVE imgData'[x] = EmptySector
    <3>1. CASE x < imgSize
      <4>1. x \in FsOffset .. imgSize - 1
        BY <1>0, <1>1, <3>1
      <4> QED BY <1>0, <1>1, <2>2, <3>1, <4>1 DEF FileOK
    <3>2. CASE ~(x < imgSize)
      BY <1>1, <2>0, <3>2
    <3> QED BY <3>1, <3>2
  <2> QED BY <1>3, <2>1, <2>2 DEF FileOK
<1>5. ASSUME NEW s \in DriveSectors PROVE SectorReads(s)'
  <2> DEFINE b == s \div ClusterSize
             r == s % ClusterSize
  <2>1. b \in ImgBlocks /\ r \in 0 .. ClusterSize - 1
    BY PlaceOfSector, Zenon
  <2> HIDE DEF b, r
  <2>2. ReadBlock(b, r)' = ReadBlock(b, r)
    <3>1. CASE IsReserved(b)
      <4>1. BlockStart(b) + r \in FsOffset .. imgSize + n - 1 /\ BlockStart(b) + r < imgSize
        BY <1>0, <2>1, <3>1, PlaceOfBlock
      <4>2. BlockStart(b)' = BlockStart(b) /\ IsReserved(b)'
        BY <1>1, <3>1 DEF BlockStart, IsReserved
      <4>3. imgData'[BlockStart(b) + r] = imgData[BlockStart(b) + r]
        BY <1>1, <4>1
      <4> QED BY <3>1, <4>2, <4>3 DEF ReadBlock
    <3>2. CASE ~IsReserved(b)
      BY <1>1, <3>2 DEF ReadBlock, IsReserved
    <3> QED BY <3>1, <3>2
  <2>3. OnSharedSector(s)' <=> OnSharedSector(s)
    BY <1>1 DEF OnSharedSector, BlockStart, IsReserved
  <2>4. SectorReads(s)
    BY DEF ReadInv
  <2> QED BY <1>1, <2>2, <2>3, <2>4 DEF SectorReads, b, r
<1> QED BY <1>2, <1>4, <1>5

\* The block entered is empty, but for the sector it shares with block 0.
LEMMA WriteEntryKeeps ==
    ASSUME ReadInv, WriteEntry
    PROVE  RequestOK' /\ FileOK' /\ \A s \in DriveSectors : SectorReads(s)'
<1> USE ImageSizes
<1>0. ImageInv /\ RequestOK /\ FileOK
  BY DEF ReadInv
<1>1. PICK b, last : b = Head(imgOp.pieces).block /\ last = imgOp.lastsec
  OBVIOUS
<1>2. /\ imgOp.pc = "entry" /\ imgOp' = [imgOp EXCEPT !.pc = "put"]
      /\ imgIndex' = [imgIndex EXCEPT ![b] = EntryFor(b, last)]
      /\ UNCHANGED <<imgSize, imgData, imgWrites, imgPartial, imgHeld>>
  BY <1>1 DEF WriteEntry
<1>3. /\ b \in ImgBlocks /\ b # 0 /\ imgIndex[b] = 0
      /\ last \in Nat /\ last >= SharedSector
      /\ imgSize = last + 1 + ClusterSize /\ Top = last
  <2>1. b \in ImgBlocks
    BY <1>1, <1>2, HeadOfPieces
  <2>2. imgIndex[b] = 0
    BY <1>0, <1>1, <1>2 DEF RequestOK, IsReserved
  <2> QED BY <1>0, <1>1, <1>2, <2>1, <2>2 DEF ImageInv, EntryAwaited, Top
<1>4. imgIndex \in [ImgBlocks -> Nat] /\ imgIndex[0] = FsOffset
  BY <1>0 DEF ImageInv
<1>5. /\ imgIndex'[b] = last - FsOffset /\ last - FsOffset \in Nat \ {0}
      /\ \A c \in ImgBlocks : c # b => imgIndex'[c] = imgIndex[c]
  BY <1>2, <1>3, <1>4 DEF EntryFor
<1>6. IsReserved(b)' /\ BlockStart(b)' = last
  <2>1. IsReserved(b)'
    BY <1>5 DEF IsReserved
  <2>2. BlockStart(b)' = imgIndex'[b] + FsOffset
    BY <1>3 DEF BlockStart
  <2> QED BY <1>3, <1>5, <2>1, <2>2
<1>7. \A c \in ImgBlocks : c # b => /\ IsReserved(c)' <=> IsReserved(c)
                                    /\ BlockStart(c)' = BlockStart(c)
  BY <1>5 DEF IsReserved, BlockStart
<1>8. RequestOK'
  <2>1. /\ imgOp'.pc = "put" /\ imgOp'.first = imgOp.first /\ imgOp'.count = imgOp.count
        /\ imgOp'.pieces = imgOp.pieces
    BY <1>0, <1>2 DEF ImageInv, OpIsRecord
  <2>2. IsReserved(Head(imgOp.pieces).block)'
    <3>1. Head(imgOp'.pieces).block = b
      BY <1>1, <2>1
    <3> QED BY <1>1, <1>5, <2>1, <3>1 DEF IsReserved
  <2> QED BY <1>0, <1>2, <2>1, <2>2 DEF RequestOK
<1>9. \A x : Free(x)' => Free(x)
  <2> SUFFICES ASSUME NEW x, Free(x)', NEW c \in ImgBlocks, IsReserved(c)
               PROVE  x \notin ImageBlockSectors(c)
    BY DEF Free
  <2>1. c # b
    BY <1>3 DEF IsReserved
  <2>2. IsReserved(c)' /\ BlockStart(c)' = BlockStart(c)
    BY <1>7, <2>1
  <2>3. x \notin ImageBlockSectors(c)'
    BY <2>2 DEF Free
  <2> QED BY <2>2, <2>3 DEF ImageBlockSectors
<1>10. FileOK'
  BY <1>0, <1>2, <1>9 DEF FileOK
<1>11. ASSUME NEW x \in Int, last <= x, x # SharedSector, x < last + ClusterSize
       PROVE  imgData[x] = EmptySector
  <2>1. ASSUME NEW c \in ImgBlocks, IsReserved(c) PROVE x \notin ImageBlockSectors(c)
    <3>1. BlockStart(c) \in Nat /\ BlockStart(c) >= FsOffset
      BY <1>0, <2>1, PlaceOfBlock
    <3>2. CASE c = 0
      <4>1. BlockStart(c) = FsOffset
        BY <1>4, <3>2 DEF BlockStart
      <4> QED BY <1>3, <1>11, <4>1 DEF ImageBlockSectors
    <3>3. CASE c # 0
      <4>1. BlockStart(c) + ClusterSize <= last
        BY <1>0, <1>3, <2>1, <3>3 DEF ImageInv, LaterBlock
      <4> QED BY <1>3, <1>11, <3>1, <4>1 DEF ImageBlockSectors
    <3> QED BY <3>2, <3>3
  <2>2. x \in FsOffset .. imgSize - 1
    BY <1>3, <1>11
  <2> QED BY <1>0, <2>1, <2>2 DEF FileOK, Free
<1>12. ASSUME NEW s \in DriveSectors PROVE SectorReads(s)'
  <2> DEFINE c == s \div ClusterSize
             r == s % ClusterSize
  <2>1. c \in ImgBlocks /\ r \in 0 .. ClusterSize - 1
    BY PlaceOfSector, Zenon
  <2> HIDE DEF c, r
  <2>2. imgHeld[s] = NotDecided \/ (IsReserved(c) /\ BlockStart(c) + r = SharedSector)
        \/ ReadBlock(c, r) = imgHeld[s]
    BY DEF ReadInv, SectorReads, OnSharedSector, c, r
  <2>3. imgHeld'[s] = NotDecided \/ (IsReserved(c)' /\ BlockStart(c)' + r = SharedSector)
        \/ ReadBlock(c, r)' = imgHeld'[s]
    <3>1. CASE c # b
      <4>1. (IsReserved(c)' <=> IsReserved(c)) /\ BlockStart(c)' = BlockStart(c)
        BY <1>7, <2>1, <3>1
      <4> QED BY <1>2, <2>2, <4>1 DEF ReadBlock
    <3>2. CASE c = b
      <4>1. ~IsReserved(c)
        BY <1>3, <3>2 DEF IsReserved
      <4>2. imgHeld[s] = NotDecided \/ imgHeld[s] = EmptySector
        BY <2>2, <4>1 DEF ReadBlock
      <4>3. IsReserved(c)' /\ BlockStart(c)' = last
        BY <1>6, <3>2
      <4>4. ReadBlock(c, r)' = imgData[last + r]
        BY <1>2, <4>3 DEF ReadBlock
      <4>5. last + r # SharedSector => imgData[last + r] = EmptySector
        BY <1>3, <1>11, <2>1
      <4> QED BY <1>2, <4>2, <4>3, <4>4, <4>5
    <3> QED BY <3>1, <3>2
  <2> QED BY <2>3 DEF SectorReads, OnSharedSector, c, r
<1> QED BY <1>8, <1>10, <1>12

\* The sectors put are those asked for, and no other sector changes but the
\* one that is shared.
LEMMA PutSectorsKeeps ==
    ASSUME ReadInv, PutSectors
    PROVE  RequestOK' /\ FileOK' /\ \A s \in DriveSectors : SectorReads(s)'
<1> USE ImageSizes
<1>0. ImageInv /\ RequestOK /\ FileOK /\ imgOp.pc = "put"
  BY DEF ReadInv, PutSectors
<1>1. PICK p : p = Head(imgOp.pieces)
  OBVIOUS
<1> DEFINE start == BlockStart(p.block) + p.from
           drive == p.block * ClusterSize + p.from
           Buffer(i) == IF i < imgOp.count THEN <<imgWrites, imgOp.first + i>> ELSE ForeignMemory
<1>2. /\ imgData' = [s \in DOMAIN imgData |->
                       IF s \in start .. start + p.count - 1
                       THEN Buffer(p.buf + (s - start)) ELSE imgData[s]]
      /\ imgHeld' = [s \in DriveSectors |->
                       IF s \notin drive .. drive + p.count - 1 THEN imgHeld[s]
                       ELSE IF imgOp.first + p.buf = drive THEN <<imgWrites, s>>
                       ELSE NotDecided]
      /\ imgOp' = IF Len(imgOp.pieces) = 1 THEN ImageIdle
                  ELSE [imgOp EXCEPT !.pc = "reserve", !.pieces = Tail(imgOp.pieces), !.lastsec = 0]
      /\ UNCHANGED <<imgSize, imgIndex, imgWrites, imgPartial>>
  BY <1>1 DEF PutSectors
<1>3. /\ p.block \in ImgBlocks /\ p.block \in Nat /\ p.from \in Nat /\ p.count \in Nat /\ p.buf \in Nat
      /\ p.from + p.count <= ClusterSize
      /\ imgOp.first <= drive /\ drive + p.count <= imgOp.first + imgOp.count
      /\ imgOp.first \in Nat /\ imgOp.count \in Nat
      /\ IsReserved(p.block)
  <2>1. p \in PiecesOf(imgOp.first, imgOp.count)
    BY <1>0, <1>1, HeadOfPieces
  <2>2. p \in BlockPiece
    BY <2>1 DEF PiecesOf
  <2>3. /\ p.block \in ImgBlocks /\ p.block \in Nat /\ p.from \in Nat /\ p.count \in Nat
        /\ p.buf \in Nat
    <3>1. p.block \in ImgBlocks /\ p.from \in 0 .. ClusterSize - 1 /\ p.count \in 1 .. ClusterSize
          /\ p.buf \in Nat
      BY <2>2 DEF BlockPiece
    <3>2. ClusterSize \in Nat /\ ImgBlocks \subseteq Nat
      OBVIOUS
    <3>3. p.block \in Nat
      BY <3>1, <3>2, Zenon
    <3>4. p.from \in Nat /\ p.count \in Nat
      BY <3>1, <3>2
    <3> QED BY <3>1, <3>3, <3>4
  <2>4. /\ p.from + p.count <= ClusterSize
        /\ imgOp.first <= drive /\ drive + p.count <= imgOp.first + imgOp.count
    BY <2>1 DEF PiecesOf
  <2>5. imgOp.first \in Nat /\ imgOp.count \in Nat /\ IsReserved(p.block)
    BY <1>0, <1>1 DEF RequestOK
  <2> QED BY <2>3, <2>4, <2>5
<1>4. /\ BlockStart(p.block) \in Nat /\ BlockStart(p.block) >= FsOffset
      /\ BlockStart(p.block) + ClusterSize <= imgSize /\ imgSize \in Nat
  BY <1>0, <1>3, PlaceOfBlock
<1>5. p.block * ClusterSize \in Nat
  BY <1>3
<1>6. RequestOK'
  <2>0. UNCHANGED <<imgWrites, imgPartial>>
    BY <1>2
  <2>1. imgOp.pieces \in Seq(PiecesOf(imgOp.first, imgOp.count)) /\ imgOp.pieces # <<>>
    BY <1>0, HeadOfPieces
  <2>2. CASE Len(imgOp.pieces) = 1
    <3>1. imgOp'.pc = "idle" /\ imgOp'.first = 0 /\ imgOp'.count = 0 /\ imgOp'.pieces = <<>>
      BY <1>2, <2>2 DEF ImageIdle
    <3> QED BY <1>0, <2>0, <3>1 DEF RequestOK
  <2>3. CASE Len(imgOp.pieces) # 1
    <3>1. /\ imgOp'.pc = "reserve" /\ imgOp'.first = imgOp.first /\ imgOp'.count = imgOp.count
          /\ imgOp'.pieces = Tail(imgOp.pieces)
      BY <1>0, <1>2, <2>3 DEF ImageInv, OpIsRecord
    <3>2. /\ Tail(imgOp.pieces) \in Seq(PiecesOf(imgOp.first, imgOp.count))
          /\ Len(Tail(imgOp.pieces)) = Len(imgOp.pieces) - 1
      BY <2>1, HeadTailProperties
    <3>3. Len(imgOp.pieces) \in Nat
      BY <2>1
    <3>4. Tail(imgOp.pieces) # <<>>
      <4>1. Len(Tail(imgOp.pieces)) # 0
        BY <2>3, <3>2, <3>3
      <4>2. Len(<<>>) = 0
        OBVIOUS
      <4> QED BY <4>1, <4>2, Zenon
    <3> QED BY <1>0, <2>0, <3>1, <3>2, <3>4 DEF RequestOK
  <2> QED BY <2>2, <2>3
<1>7. \A c \in ImgBlocks : (IsReserved(c)' <=> IsReserved(c)) /\ BlockStart(c)' = BlockStart(c)
  BY <1>2 DEF IsReserved, BlockStart
<1>8. \A x : x \in start .. start + p.count - 1 => x \in ImageBlockSectors(p.block)
  BY <1>3, <1>4 DEF ImageBlockSectors
<1>9. DOMAIN imgData = FsOffset .. imgSize - 1
  BY <1>0 DEF FileOK
<1> HIDE DEF Buffer
<1>10. FileOK'
  <2>1. DOMAIN imgData' = FsOffset .. imgSize' - 1
    BY <1>2, <1>9
  <2>2. ASSUME NEW x \in FsOffset .. imgSize - 1, Free(x)'
        PROVE  imgData'[x] = EmptySector
    <3>1. Free(x)
      BY <1>7, <2>2 DEF Free, ImageBlockSectors
    <3>2. x \notin start .. start + p.count - 1
      BY <1>3, <1>8, <3>1 DEF Free
    <3>3. imgData'[x] = imgData[x]
      BY <1>2, <1>9, <3>2
    <3> QED BY <1>0, <3>1, <3>3 DEF FileOK
  <2> QED BY <1>2, <2>1, <2>2 DEF FileOK
<1>11. ASSUME NEW s \in DriveSectors PROVE SectorReads(s)'
  <2> DEFINE c == s \div ClusterSize
             r == s % ClusterSize
  <2>1. c \in ImgBlocks /\ r \in 0 .. ClusterSize - 1 /\ s = c * ClusterSize + r /\ s \in Nat
    BY PlaceOfSector, Zenon
  <2> HIDE DEF c, r
  <2>2. imgHeld[s] = NotDecided \/ (IsReserved(c) /\ BlockStart(c) + r = SharedSector)
        \/ ReadBlock(c, r) = imgHeld[s]
    BY DEF ReadInv, SectorReads, OnSharedSector, c, r
  <2>3. (IsReserved(c)' <=> IsReserved(c)) /\ BlockStart(c)' = BlockStart(c)
    BY <1>7, <2>1
  <2>4. imgHeld'[s] = NotDecided \/ (IsReserved(c)' /\ BlockStart(c)' + r = SharedSector)
        \/ ReadBlock(c, r)' = imgHeld'[s]
    <3>1. CASE s \in drive .. drive + p.count - 1
      <4>1. c = p.block
        <5>1. s - p.block * ClusterSize \in 0 .. ClusterSize - 1
          BY <1>3, <1>5, <2>1, <3>1
        <5>2. s = p.block * ClusterSize + (s - p.block * ClusterSize)
          BY <1>5, <2>1
        <5> QED BY <1>3, <5>1, <5>2, SectorOfBlock DEF c
      <4>2. CASE imgOp.first + p.buf = drive
        <5>1. imgHeld'[s] = <<imgWrites, s>>
          BY <1>2, <3>1, <4>2
        <5>2. /\ BlockStart(c) + r \in start .. start + p.count - 1
              /\ BlockStart(c) + r \in FsOffset .. imgSize - 1
              /\ p.buf + ((BlockStart(c) + r) - start) = s - imgOp.first
          BY <1>3, <1>4, <1>5, <2>1, <3>1, <4>1, <4>2
        <5>3. imgData'[BlockStart(c) + r] = Buffer(s - imgOp.first)
          BY <1>2, <1>9, <5>2
        <5>4. s - imgOp.first < imgOp.count /\ imgOp.first + (s - imgOp.first) = s
          BY <1>3, <1>5, <2>1, <3>1
        <5>5. Buffer(s - imgOp.first) = <<imgWrites, s>>
          BY <5>4 DEF Buffer
        <5> QED BY <1>3, <2>3, <4>1, <5>1, <5>3, <5>5 DEF ReadBlock
      <4>3. CASE imgOp.first + p.buf # drive
        BY <1>2, <3>1, <4>3
      <4> QED BY <4>2, <4>3
    <3>2. CASE s \notin drive .. drive + p.count - 1
      <4>1. imgHeld'[s] = imgHeld[s]
        BY <1>2, <3>2
      <4>2. CASE ~IsReserved(c)
        BY <2>2, <2>3, <4>1, <4>2 DEF ReadBlock
      <4>3. CASE IsReserved(c)
        <5> DEFINE x == BlockStart(c) + r
        <5>1. BlockStart(c) \in Nat /\ x \in FsOffset .. imgSize - 1 /\ x \in ImageBlockSectors(c)
          BY <1>0, <2>1, <4>3, PlaceOfBlock DEF ImageBlockSectors
        <5>2. x \in start .. start + p.count - 1 => x = SharedSector
          <6>1. CASE c = p.block
            BY <1>3, <1>4, <1>5, <2>1, <3>2, <6>1
          <6>2. CASE c # p.block
            <7>1. ImageBlockSectors(c) \cap ImageBlockSectors(p.block) \subseteq {SharedSector}
              BY <1>0, <1>3, <2>1, <4>3, <6>2, ImageInvApart DEF ImageBlocksApart
            <7> QED BY <1>8, <5>1, <7>1
          <6> QED BY <6>1, <6>2
        <5>3. x # SharedSector => imgData'[x] = imgData[x]
          BY <1>2, <1>9, <5>1, <5>2
        <5> QED BY <2>2, <2>3, <4>1, <4>3, <5>3 DEF ReadBlock
      <4> QED BY <4>2, <4>3
    <3> QED BY <3>1, <3>2
  <2> QED BY <2>4 DEF SectorReads, OnSharedSector, c, r
<1> QED BY <1>6, <1>10, <1>11

LEMMA ReadInvStep == ReadInv /\ [ImageNext]_imageVars => ReadInv'
<1> SUFFICES ASSUME ReadInv, [ImageNext]_imageVars PROVE ReadInv'
  OBVIOUS
<1>0. ImageInv'
  BY ImageInvStep DEF ReadInv
<1>1. SUFFICES RequestOK' /\ FileOK' /\ \A s \in DriveSectors : SectorReads(s)'
  BY <1>0 DEF ReadInv
<1>2. ImageInv /\ RequestOK
  BY DEF ReadInv
<1>3. ASSUME NEW s \in DriveSectors, NEW n \in 1 .. MaxRequest,
             s + n <= ContentSectors, ContentWrite(s, n)
      PROVE  RequestOK' /\ FileOK' /\ \A x \in DriveSectors : SectorReads(x)'
  BY <1>3, ContentWriteKeeps
<1>4. CASE AlreadyReserved
  <2>1. /\ imgOp.pc = "reserve" /\ IsReserved(Head(imgOp.pieces).block)
        /\ imgOp' = [imgOp EXCEPT !.pc = "put"]
        /\ UNCHANGED <<imgSize, imgIndex, imgData, imgWrites, imgPartial, imgHeld>>
    BY <1>4 DEF AlreadyReserved
  <2>2. /\ imgOp'.pc = "put" /\ imgOp'.first = imgOp.first /\ imgOp'.count = imgOp.count
        /\ imgOp'.pieces = imgOp.pieces
    BY <1>2, <2>1 DEF ImageInv, OpIsRecord
  <2>3. IsReserved(Head(imgOp.pieces).block)'
    BY <2>1, <2>2 DEF IsReserved
  <2>4. RequestOK'
    BY <1>2, <2>1, <2>2, <2>3 DEF RequestOK
  <2> QED BY <2>1, <2>4, FileUntouched
<1>5. ASSUME NEW n \in 0 .. ClusterSize, AppendBlock(n)
      PROVE  RequestOK' /\ FileOK' /\ \A s \in DriveSectors : SectorReads(s)'
  BY <1>5, AppendBlockKeeps
<1>6. CASE WriteEntry
  BY <1>6, WriteEntryKeeps
<1>7. CASE PutSectors
  BY <1>7, PutSectorsKeeps
<1>8. CASE AbandonRequest
  <2>1. /\ imgOp' = ImageIdle
        /\ UNCHANGED <<imgSize, imgIndex, imgData, imgWrites, imgPartial, imgHeld>>
    BY <1>8 DEF AbandonRequest
  <2>2. imgOp'.pc = "idle" /\ imgOp'.first = 0 /\ imgOp'.count = 0 /\ imgOp'.pieces = <<>>
    BY <2>1 DEF ImageIdle
  <2>3. RequestOK'
    BY <1>2, <2>1, <2>2 DEF RequestOK
  <2> QED BY <2>1, <2>3, FileUntouched
<1>9. CASE UNCHANGED imageVars
  <2>1. UNCHANGED <<imgOp, imgSize, imgIndex, imgData, imgWrites, imgPartial, imgHeld>>
    BY <1>9 DEF imageVars
  <2>2. RequestOK'
    BY <1>2, <2>1 DEF RequestOK, IsReserved
  <2> QED BY <2>1, <2>2, FileUntouched
<1> QED BY <1>3, <1>4, <1>5, <1>6, <1>7, <1>8, <1>9 DEF ImageNext

LEMMA ImageInvariant == ImageSpec => []ReadInv
  BY ReadInvInit, ReadInvStep, PTL DEF ImageSpec

\* Every piece of a request names sectors of one block that the image has,
\* however a request of any length lies across the blocks, and the file covers
\* what the index says is in it.
THEOREM ImageStaysWellFormed == ImageSpec => []ImageTypeOK
<1>1. ReadInv => ImageTypeOK
  <2> SUFFICES ASSUME ReadInv PROVE ImageTypeOK
    OBVIOUS
  <2>1. ImageInv /\ RequestOK /\ FileOK /\ imgSize \in Nat
    BY DEF ReadInv, ImageInv
  <2>2. ASSUME NEW b \in ImgBlocks PROVE imgIndex[b] \in 0 .. imgSize
    <3>1. imgIndex[b] \in Nat
      BY <2>1 DEF ImageInv
    <3>2. imgIndex[b] # 0 => imgIndex[b] <= imgSize
      <4>1. imgIndex[b] # 0 => BlockStart(b) + ClusterSize <= imgSize /\ BlockStart(b) \in Nat
        BY <2>1, PlaceOfBlock DEF IsReserved
      <4> QED BY <2>1, <3>1, <4>1, ImageSizes DEF BlockStart
    <3> QED BY <2>1, <3>1, <3>2
  <2>3. imgIndex \in [ImgBlocks -> 0 .. imgSize]
    BY <2>1, <2>2 DEF ImageInv
  <2>4. ASSUME NEW i \in 1 .. Len(imgOp.pieces)
        PROVE  imgOp.pieces[i] \in BlockPiece
               /\ imgOp.pieces[i].from + imgOp.pieces[i].count <= ClusterSize
    <3>1. imgOp.pieces[i] \in PiecesOf(imgOp.first, imgOp.count)
      BY <2>1, ElementOfSeq DEF RequestOK
    <3> QED BY <3>1 DEF PiecesOf
  <2> QED BY <2>1, <2>3, <2>4 DEF ImageTypeOK, RequestOK, FileOK
<1> QED BY <1>1, ImageInvariant, PTL

\* A request inside one block is one piece, which reads the place of each of
\* its sectors.
LEMMA ReadOfOneBlock ==
    ASSUME NEW s \in Nat, NEW n \in Nat \ {0}, s + n <= ContentSectors,
           (s % ClusterSize) + n <= ClusterSize, NEW i \in 0 .. n - 1
    PROVE  ContentRead(s, n)[i] = ReadBlock((s + i) \div ClusterSize, (s + i) % ClusterSize)
<1> DEFINE b == s \div ClusterSize
           r == s % ClusterSize
           p == [block |-> b, from |-> r, count |-> n, buf |-> 0]
           Reached(x) == {k \in 1 .. Len(<<p>>) :
                            x \in <<p>>[k].buf .. <<p>>[k].buf + <<p>>[k].count - 1}
<1>1. BlockPieces(s, n) = <<p>>
  BY PiecesAreRight
<1>2. b \in Nat /\ r \in 0 .. ClusterSize - 1 /\ s = b * ClusterSize + r
  BY BlockOfSector, Zenon
<1>3. (s + i) \div ClusterSize = b /\ (s + i) % ClusterSize = r + i
  <2> HIDE DEF b
  <2>1. r + i \in 0 .. ClusterSize - 1
    BY <1>2, ImageSizes
  <2> HIDE DEF r
  <2>2. s + i = b * ClusterSize + (r + i) /\ b * ClusterSize \in Nat
    BY <1>2, <2>1, ImageSizes
  <2> QED BY <1>2, <2>1, <2>2, SectorOfBlock
<1> HIDE DEF b, r
<1>4. Reached(i) = {1}
  BY <1>2
<1>5. ContentRead(s, n)[i]
        = IF Reached(i) = {} THEN ForeignMemory
          ELSE LET k == CHOOSE k \in Reached(i) : \A j \in Reached(i) : j <= k
                   q == <<p>>[k]
               IN  ReadBlock(q.block, q.from + (i - q.buf))
  BY <1>1 DEF ContentRead
<1>6. (CHOOSE k \in {1} : \A j \in {1} : j <= k) = 1
  OBVIOUS
<1>7. ContentRead(s, n)[i] = ReadBlock(b, r + (i - 0))
  <2>1. p.block = b /\ p.from = r /\ p.buf = 0 /\ <<p>>[1] = p
    OBVIOUS
  <2> HIDE DEF p, Reached
  <2>2. Reached(i) # {}
    BY <1>4
  <2>3. (CHOOSE k \in Reached(i) : \A j \in Reached(i) : j <= k) = 1
    BY <1>4, <1>6, Zenon
  <2>4. ContentRead(s, n)[i] = ReadBlock(<<p>>[1].block, <<p>>[1].from + (i - <<p>>[1].buf))
    BY <1>5, <2>2, <2>3, Zenon
  <2> QED BY <2>1, <2>4
<1>8. r + (i - 0) = r + i
  BY <1>2
<1> QED BY <1>3, <1>7, <1>8

\* The drive in the image keeps what was written, whatever requests were made,
\* split, refused and stopped, for images and blocks of any size: but for the
\* sector shared, and for what a split request took from the wrong place.
THEOREM ImageKeepsItsContent == ImageSpec => []ImageReadsBack
<1>1. ReadInv => ImageReadsBack
  <2> SUFFICES ASSUME ReadInv, NEW s \in DriveSectors,
                      NEW n \in 1 .. ClusterSize - (s % ClusterSize),
                      s + n <= ContentSectors, NEW i \in 0 .. n - 1
               PROVE  \/ imgHeld[s + i] = NotDecided \/ OnSharedSector(s + i)
                      \/ ContentRead(s, n)[i] = imgHeld[s + i]
    BY DEF ImageReadsBack
  <2>1. s \in Nat /\ s % ClusterSize \in 0 .. ClusterSize - 1
    BY PlaceOfSector
  <2> DEFINE r == s % ClusterSize
  <2>2. n \in Nat \ {0} /\ r + n <= ClusterSize
    <3> HIDE DEF r
    <3>1. r \in 0 .. ClusterSize - 1 /\ n \in 1 .. ClusterSize - r
      BY <2>1 DEF r
    <3> QED BY <3>1, ImageSizes
  <2>3. s + i \in DriveSectors
    BY <2>1, <2>2, ImageAssumption DEF DriveSectors
  <2>4. SectorReads(s + i)
    BY <2>3 DEF ReadInv
  <2>5. ContentRead(s, n)[i] = ReadBlock((s + i) \div ClusterSize, (s + i) % ClusterSize)
    BY <2>1, <2>2, ReadOfOneBlock
  <2> QED BY <2>4, <2>5 DEF SectorReads
<1> QED BY <1>1, ImageInvariant, PTL
=============================================================================
