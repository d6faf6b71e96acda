---------------------------- MODULE DriveImage ----------------------------
(***************************************************************************)
(* A smart drive image: a file that holds the sectors of a drive in blocks *)
(* of ClusterSize sectors which are appended when first written.  The file *)
(* starts with a superblock and the index; the index tells for each block  *)
(* where in the file it is, 0 if nowhere.                                  *)
(*                                                                         *)
(* A request for sectors of the drive is split at block borders.  Each     *)
(* piece of a write reserves its block (append, then write the index       *)
(* entry) and writes its sectors; an append or an index write may fail,    *)
(* and the program may stop between any two of these steps.                *)
(*                                                                         *)
(* The buffer of a write holds <<w, s>> for sector s of the w-th write, so *)
(* that a sector taken from the wrong place of a buffer is noticed.        *)
(***************************************************************************)
EXTENDS Integers, Sequences

CONSTANTS
    ClusterSize,       \* sectors in a block of the image (4096)
    EntriesPerSector,  \* entries in a sector of the index (128)
    IndexSectors,      \* sectors of the index (8192)
    ContentSectors,    \* sectors of the drive in the image
    BufferStride,      \* how far, in sectors, the buffer of a split request
                       \* advances per block: CLUSTERSIZE bytes (8)
    MaxRequest,        \* bound: sectors in a request
    MaxWrites,         \* bound: write requests
    MaxPartial         \* bound: appends that fail

FsOffset == IndexSectors + 1
ImgBlocks == 0 .. IndexSectors * EntriesPerSector - 1
DriveSectors == 0 .. ContentSectors - 1

ASSUME ImageAssumption ==
    /\ ClusterSize \in Nat \ {0, 1} /\ EntriesPerSector \in Nat \ {0}
    /\ IndexSectors \in Nat \ {0} /\ BufferStride \in Nat
    /\ ContentSectors \in 1 .. ClusterSize * IndexSectors * EntriesPerSector
    /\ MaxRequest \in Nat \ {0} /\ MaxWrites \in Nat /\ MaxPartial \in Nat

EmptySector   == <<0, 0>>   \* all zeros
ForeignMemory == <<0, 1>>   \* memory outside the caller's buffer
NotDecided    == <<0, 2>>   \* history: not decided by the callers alone

VARIABLES
    imgSize,    \* sectors in the file
    imgIndex,   \* the index: block -> entry
    imgData,    \* the sectors of the file after the index
    imgOp,      \* the write in progress: its pieces, and how far it is
    imgWrites,  \* writes begun so far, numbers their data
    imgPartial, \* appends that failed so far
    imgHeld     \* history: what callers last wrote to each sector of the drive

imageVars == <<imgSize, imgIndex, imgData, imgOp, imgWrites, imgPartial, imgHeld>>

------------------------------------------------------------------------------
(* Where things are. *)

\* Mutant: a block counts as present only behind the first appended one.
MutIsReserved(b) == b = 0 \/ imgIndex[b] > ClusterSize

IsReserved(b) == imgIndex[b] # 0

BlockStart(b) == IF b = 0 THEN imgIndex[b] ELSE imgIndex[b] + FsOffset

ContainerLastSector == imgSize - 1

\* Mutant: the entry is relative to the start of the block data.
MutEntryFor(b, lastsec) == IF b = 0 THEN lastsec + 1 ELSE lastsec - FsOffset - 1

\* The entry for a block that has been appended behind sector `lastsec`.
EntryFor(b, lastsec) == IF b = 0 THEN lastsec + 1 ELSE lastsec - FsOffset

\* Mutant: the end piece is there even when it is empty.
MutBlockPieces(s, n) ==
    LET room  == ClusterSize - (s % ClusterSize)
        start == IF n < room THEN n ELSE room
        end   == (n - start) % ClusterSize
        whole == (n - (start + end)) \div ClusterSize
        Part(b, from, count, buf) ==
            [block |-> b, from |-> from, count |-> count, buf |-> buf]
    IN  <<Part(s \div ClusterSize, s % ClusterSize, start, 0)>>
        \o [i \in 1 .. whole |->
               Part((s \div ClusterSize) + i, 0, ClusterSize, i * BufferStride)]
        \o <<Part((s - 1 + n) \div ClusterSize, 0, end, (whole + 1) * BufferStride)>>

\* content_readsectors and content_writesectors split n sectors from s on in
\* pieces: the first block, whole blocks, the last block.
BlockPieces(s, n) ==
    LET first  == s \div ClusterSize
        last   == (s - 1 + n) \div ClusterSize
        room   == ClusterSize - (s % ClusterSize)
        start  == IF n < room THEN n ELSE room
        end    == (n - start) % ClusterSize
        whole  == (n - (start + end)) \div ClusterSize
        Part(b, from, count, buf) ==
            [block |-> b, from |-> from, count |-> count, buf |-> buf]
    IN  <<Part(first, s % ClusterSize, start, 0)>>
        \o [i \in 1 .. whole |-> Part(first + i, 0, ClusterSize, i * BufferStride)]
        \o IF end = 0 THEN <<>>
           ELSE <<Part(last, 0, end, (whole + 1) * BufferStride)>>

\* What a block read returns; a block that is not there is all zeros.
ReadBlock(b, i) == IF IsReserved(b) THEN imgData[BlockStart(b) + i] ELSE EmptySector

\* The buffer of n sectors after content_readsectors(s, n): a later piece
\* overwrites an earlier one, what no piece reaches stays as it was.
ContentRead(s, n) ==
    LET pieces == BlockPieces(s, n)
        Reached(i) == {k \in 1 .. Len(pieces) :
                         i \in pieces[k].buf .. pieces[k].buf + pieces[k].count - 1}
    IN  [i \in 0 .. n - 1 |->
           IF Reached(i) = {} THEN ForeignMemory
           ELSE LET k == CHOOSE k \in Reached(i) : \A j \in Reached(i) : j <= k
                    p == pieces[k]
                IN  ReadBlock(p.block, p.from + (i - p.buf))]

------------------------------------------------------------------------------
(* The state after initimage: superblock, an empty index, block 0 appended. *)

ImageIdle == [pc |-> "idle", first |-> 0, count |-> 0, pieces |-> <<>>, lastsec |-> 0]

ImageInit ==
    /\ imgSize = FsOffset + ClusterSize
    /\ imgIndex = [b \in ImgBlocks |-> IF b = 0 THEN FsOffset ELSE 0]
    /\ imgData = [s \in FsOffset .. FsOffset + ClusterSize - 1 |-> EmptySector]
    /\ imgOp = ImageIdle
    /\ imgWrites = 0 /\ imgPartial = 0
    /\ imgHeld = [s \in DriveSectors |-> EmptySector]

\* hd24fs::writesectors passes a request on to content_writesectors.
ContentWrite(s, n) ==
    /\ imgOp = ImageIdle /\ imgWrites < MaxWrites
    /\ imgWrites' = imgWrites + 1
    /\ imgOp' = [pc |-> "reserve", first |-> s, count |-> n,
                 pieces |-> BlockPieces(s, n), lastsec |-> 0]
    /\ UNCHANGED <<imgSize, imgIndex, imgData, imgPartial, imgHeld>>

\* reserveblock returns at once for a block that is there ...
AlreadyReserved ==
    /\ imgOp.pc = "reserve" /\ IsReserved(Head(imgOp.pieces).block)
    /\ imgOp' = [imgOp EXCEPT !.pc = "put"]
    /\ UNCHANGED <<imgSize, imgIndex, imgData, imgWrites, imgPartial, imgHeld>>

\* ... and appends an empty block otherwise; the disk may be full after n of
\* its sectors, and the error is thrown to the caller of the request.
AppendBlock(n) ==
    /\ imgOp.pc = "reserve" /\ ~IsReserved(Head(imgOp.pieces).block)
    /\ n < ClusterSize => imgPartial < MaxPartial
    /\ imgSize' = imgSize + n
    /\ imgData' = [s \in FsOffset .. imgSize + n - 1 |->
                     IF s < imgSize THEN imgData[s] ELSE EmptySector]
    /\ IF n = ClusterSize
       THEN /\ imgOp' = [imgOp EXCEPT !.pc = "entry", !.lastsec = ContainerLastSector]
            /\ UNCHANGED imgPartial
       ELSE imgOp' = ImageIdle /\ imgPartial' = imgPartial + 1
    /\ UNCHANGED <<imgIndex, imgWrites, imgHeld>>

\* The index sector is read, changed and written back; a failure is thrown.
WriteEntry ==
    /\ imgOp.pc = "entry"
    /\ LET b == Head(imgOp.pieces).block
       IN  imgIndex' = [imgIndex EXCEPT ![b] = EntryFor(b, imgOp.lastsec)]
    /\ imgOp' = [imgOp EXCEPT !.pc = "put"]
    /\ UNCHANGED <<imgSize, imgData, imgWrites, imgPartial, imgHeld>>

\* writeblocksectors: the sectors of the piece, from its place in the buffer.
PutSectors ==
    /\ imgOp.pc = "put"
    /\ LET p     == Head(imgOp.pieces)
           start == BlockStart(p.block) + p.from
           drive == p.block * ClusterSize + p.from   \* the sector of the drive
           Buffer(i) == IF i < imgOp.count THEN <<imgWrites, imgOp.first + i>> ELSE ForeignMemory
       IN  /\ imgData' = [s \in DOMAIN imgData |->
                            IF s \in start .. start + p.count - 1
                            THEN Buffer(p.buf + (s - start)) ELSE imgData[s]]
           /\ imgHeld' = [s \in DriveSectors |->
                            IF s \notin drive .. drive + p.count - 1 THEN imgHeld[s]
                            ELSE IF imgOp.first + p.buf = drive THEN <<imgWrites, s>>
                            ELSE NotDecided]
    /\ imgOp' = IF Len(imgOp.pieces) = 1 THEN ImageIdle
                ELSE [imgOp EXCEPT !.pc = "reserve", !.pieces = Tail(@), !.lastsec = 0]
    /\ UNCHANGED <<imgSize, imgIndex, imgWrites, imgPartial>>

\* The program stops, or the index write fails: nothing of it is undone.
AbandonRequest ==
    /\ imgOp # ImageIdle
    /\ imgOp' = ImageIdle
    /\ UNCHANGED <<imgSize, imgIndex, imgData, imgWrites, imgPartial, imgHeld>>

ImageNext ==
    \/ \E s \in DriveSectors, n \in 1 .. MaxRequest :
         s + n <= ContentSectors /\ ContentWrite(s, n)
    \/ AlreadyReserved
    \/ \E n \in 0 .. ClusterSize : AppendBlock(n)
    \/ WriteEntry
    \/ PutSectors
    \/ AbandonRequest

ImageSpec == ImageInit /\ [][ImageNext]_imageVars

------------------------------------------------------------------------------
(* Properties. *)

BlockPiece == [block : ImgBlocks, from : 0 .. ClusterSize - 1,
               count : 1 .. ClusterSize, buf : Nat]

\* The file covers what is in it, and every piece of a request names sectors
\* that exist in one block, so none is longer than a block or empty.
ImageTypeOK ==
    /\ imgSize \in Nat /\ DOMAIN imgData = FsOffset .. imgSize - 1
    /\ imgIndex \in [ImgBlocks -> 0 .. imgSize]
    /\ imgOp.pc \in {"idle", "reserve", "entry", "put"}
    /\ \A i \in 1 .. Len(imgOp.pieces) :
         LET p == imgOp.pieces[i]
         IN  p \in BlockPiece /\ p.from + p.count <= ClusterSize
    /\ (imgOp.pc = "idle") <=> (imgOp.pieces = <<>>)
    /\ imgWrites \in 0 .. MaxWrites /\ imgPartial \in 0 .. MaxPartial

ImageBlockSectors(b) == BlockStart(b) .. BlockStart(b) + ClusterSize - 1

\* The block that was appended first is entered one sector too low, on the
\* last sector of block 0: these two sectors of the drive are one.
SharedSector == FsOffset + ClusterSize - 1
OnSharedSector(s) ==
    LET b == s \div ClusterSize
    IN  IsReserved(b) /\ BlockStart(b) + (s % ClusterSize) = SharedSector

\* Every reserved block lies behind the index and inside the file, and two of
\* them never share a sector but the one at the end of block 0: no order of
\* appends, failed appends and stops makes the index point into another block.
ImageBlocksApart ==
    /\ \A b \in ImgBlocks : IsReserved(b) => ImageBlockSectors(b) \subseteq FsOffset .. imgSize - 1
    /\ \A a, b \in ImgBlocks :
         a # b /\ IsReserved(a) /\ IsReserved(b)
         => ImageBlockSectors(a) \cap ImageBlockSectors(b) \subseteq {SharedSector}

\* The drive in the image keeps what was written: a request inside one block
\* returns for each sector what was last written to it, also when requests on
\* other sectors failed or the program stopped in them.  The shared sector is
\* left out, and what a split request took from the wrong place of its buffer.
ImageReadsBack ==
    \A s \in DriveSectors : \A n \in 1 .. ClusterSize - (s % ClusterSize) :
      s + n <= ContentSectors =>
        \A i \in 0 .. n - 1 :
          \/ imgHeld[s + i] = NotDecided \/ OnSharedSector(s + i)
          \/ ContentRead(s, n)[i] = imgHeld[s + i]
=============================================================================
