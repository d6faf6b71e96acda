----------------------------- MODULE SongCache -----------------------------
(***************************************************************************)
(* Real-time playback of a song.  Two threads share the song object: the   *)
(* sound server's callback locates and asks for samples, which it takes    *)
(* from cached blocks; the user interface polls the one-slot request queue *)
(* and loads the block asked for, and transfers read and write the song.   *)
(* Nothing is locked.                                                      *)
(*                                                                         *)
(* The audio of block k is <<k, v>>, v counting the writes to the block.   *)
(* All the samples of a block are alike; which of the two interlaced       *)
(* tracks of a high sample rate song a sample comes from is left out.      *)
(***************************************************************************)
EXTENDS Integers, Sequences

CONSTANTS
    Extents,         \* the audio block counts of the used allocation entries
    Entries,         \* entries of the allocation table (320)
    SamplesPerBlock, \* samples of a track in an audio block
    Lengths,         \* lengths, in samples, a song may have
    Buffers,         \* cache buffers (5: 25 .. 29)
    Frames,          \* samples the sound server asks for in a callback
    MaxTransfers     \* bound: reads and writes of a block by transfers

Count(e) == IF e < Len(Extents) THEN Extents[e + 1] ELSE 0
StartOf[e \in 0 .. Entries] == IF e = 0 THEN 0 ELSE StartOf[e - 1] + Count(e - 1)
Total == StartOf[Entries]

ASSUME CacheAssumption ==
    /\ Entries \in Nat \ {0} /\ Extents \in Seq(Nat \ {0}) /\ Len(Extents) \in 1 .. Entries
    /\ SamplesPerBlock \in Nat \ {0} /\ Buffers \in Nat \ {0}
    /\ Lengths \subseteq Nat
    /\ Frames \in Nat \ {0} /\ MaxTransfers \in Nat

\* A song is never longer than the blocks it has: what SongAlloc shows of the
\* saved length, and golocatepos relies on.
ASSUME LengthAssumption == \A n \in Lengths : n <= Total * SamplesPerBlock

SongBlocks == 0 .. Total - 1
Bufs == 0 .. Buffers - 1
NOTHINGTOQUEUE == -1          \* 0xFFFFFFFF, which is also block 0 - 1
CACHEBLOCK_UNUSED == -1       \* 0xFFFFFFFF too
NoBuffer == -1                \* a NULL pointer: silence
CopyBuffer == -2              \* audiobuffer, of reads that do not use the cache

Silence == <<-1, 0>>
Elsewhere == <<-1, 1>>        \* sectors that are not this song's audio

VARIABLES
    length,              \* songlength_in_wamples
    maintenance,         \* the maintenance mode, chosen on the command line
    drive,               \* times each block of the song was written
    cachebuf_blocknum,   \* the block each buffer is said to hold
    cachebuf,            \* the audio it holds
    currcachebufnum,     \* the buffer to fill next
    blocktoqueue,        \* the request slot
    currentreadmode,     \* "copy", "realtime" or "write"
    lastreadblock, mustreadblock,
    audiobuffer,         \* the block last read in copy mode
    songcursor,          \* the sample to play next
    allocentrynum,       \* allocation cursor; Entries: behind the table
    audio,               \* the sound server's thread
    poll,                \* the poll of the user interface's thread
    transfers,           \* transfer steps so far
    heard,               \* history: the sample just played
    stale                \* history: blocks written while a copy is kept

cacheVars == <<length, maintenance, drive, cachebuf_blocknum, cachebuf,
    currcachebufnum, blocktoqueue, currentreadmode, lastreadblock, mustreadblock,
    audiobuffer, songcursor, allocentrynum, audio, poll, transfers, heard, stale>>

pollVars == <<cachebuf_blocknum, cachebuf, currcachebufnum, poll>>
playVars == <<lastreadblock, mustreadblock, audiobuffer,
              songcursor, allocentrynum, heard>>
fixedVars == <<length, maintenance>>

------------------------------------------------------------------------------
(* The allocation table. *)

\* The entry the walk over the table stops at for a block; behind the last
\* block of the song it runs off the table.
EntryOf(k) ==
    IF k \in SongBlocks
    THEN CHOOSE e \in 0 .. Entries - 1 : StartOf[e] <= k /\ k < StartOf[e] + Count(e)
    ELSE Entries

\* What lies `offset` blocks behind the start of entry e.
Content(e, offset) ==
    IF offset < Count(e)
    THEN <<StartOf[e] + offset, drive[StartOf[e] + offset]>> ELSE Elsewhere

BlockAt(s) == s \div SamplesPerBlock
Block == BlockAt(songcursor)

------------------------------------------------------------------------------
(* The state after the constructor. *)

AudioIdle == [pc |-> "idle", left |-> 0, queued |-> {}, buf |-> NoBuffer, shared |-> FALSE]
Nothing == [pos |-> -1, value |-> Silence, shared |-> FALSE, fresh |-> TRUE]
PollIdle == [pc |-> "idle", block |-> NOTHINGTOQUEUE]

CacheInit ==
    /\ length \in Lengths
    /\ maintenance \in BOOLEAN
    /\ drive = [k \in SongBlocks |-> 0]
    /\ cachebuf_blocknum = [i \in Bufs |-> CACHEBLOCK_UNUSED]
    /\ cachebuf = [i \in Bufs |-> Elsewhere]
    /\ currcachebufnum = 0
    /\ blocktoqueue = NOTHINGTOQUEUE
    /\ currentreadmode = "copy"
    /\ lastreadblock = 0 /\ mustreadblock = TRUE
    /\ audiobuffer = Elsewhere
    /\ songcursor = 0 /\ allocentrynum = EntryOf(0)
    /\ audio = AudioIdle /\ poll = PollIdle
    /\ transfers = 0
    /\ heard = Nothing
    /\ stale = {}

------------------------------------------------------------------------------
(* The sound server's thread. *)

\* Mutant: no limit at the end of the song.
MutGoLocatePos(offset) ==
    /\ songcursor' = offset
    /\ allocentrynum' = EntryOf(BlockAt(songcursor'))

\* golocatepos: a position behind the song is the end of the song.
GoLocatePos(offset) ==
    /\ songcursor' = IF offset > length THEN length ELSE offset
    /\ allocentrynum' = EntryOf(BlockAt(songcursor'))

\* The callback goes to the transport's position and asks for n samples, none
\* when it is stopped.  (A jump to the start of the loop inside a callback is
\* a callback of its own.)
Callback(offset, n) ==
    /\ audio.pc = "idle"
    /\ GoLocatePos(offset)
    /\ audio' = IF n = 0 THEN AudioIdle ELSE [AudioIdle EXCEPT !.pc = "find", !.left = n]
    /\ heard' = Nothing
    /\ UNCHANGED <<drive, pollVars, blocktoqueue, currentreadmode, transfers, stale,
                   lastreadblock, mustreadblock, audiobuffer>>

\* Mutant: stays on the entry that golocatepos found.
MutNextEntry == allocentrynum

\* The song cursor has left the allocation entry.
NextEntry ==
    IF allocentrynum < Entries /\ Block = StartOf[allocentrynum] + Count(allocentrynum)
    THEN allocentrynum + 1 ELSE allocentrynum

\* Mutant: the song keeps the mode of the last transfer.
MutEnterRealtime == UNCHANGED currentreadmode

\* What mode the caller asks for is noted for the poll, and stays noted when
\* the maintenance mode reads otherwise.
EnterRealtime == currentreadmode' = "realtime"

\* getmultitracksample in maintenance mode: the block is read at once.
FindCopy ==
    /\ audio.pc = "find" /\ maintenance
    /\ EnterRealtime
    /\ IF lastreadblock # Block \/ mustreadblock
       THEN /\ allocentrynum' = NextEntry
            /\ audiobuffer' = Content(NextEntry, Block - StartOf[NextEntry])
            /\ mustreadblock' = FALSE
            /\ stale' = stale \ {Block}
       ELSE UNCHANGED <<allocentrynum, audiobuffer, mustreadblock, stale>>
    /\ audio' = [audio EXCEPT !.pc = "take", !.buf = CopyBuffer]
    /\ heard' = Nothing
    /\ UNCHANGED <<drive, pollVars, blocktoqueue, transfers, lastreadblock, songcursor>>

\* getcachedbuffer: the buffer that holds block k, and the requests it makes
\* for the missing ones of k and its neighbours, k last.
Cached(k) == \E i \in Bufs : cachebuf_blocknum[i] = k

CachedBuffer(k) ==
    IF Cached(k)
    THEN CHOOSE i \in Bufs : /\ cachebuf_blocknum[i] = k
                             /\ \A j \in Bufs : cachebuf_blocknum[j] = k => j <= i
    ELSE NoBuffer

Requests(k) ==
    (IF k > 0 /\ Cached(k - 1) THEN <<>> ELSE <<k - 1>>)
    \o (IF Cached(k + 1) THEN <<>> ELSE <<k + 1>>)
    \o (IF Cached(k) THEN <<>> ELSE <<k>>)

\* queuecacheblock overwrites the slot, whatever is in it: the last one stays.
QueueCacheBlocks(requests) ==
    blocktoqueue' = IF requests = <<>> THEN blocktoqueue ELSE requests[Len(requests)]

\* getmultitracksample in real time, up to the return of getcachedbuffer.  Every
\* sample looks for its block: mustreadblock is set until a copy read resets it.
FindCached ==
    /\ audio.pc = "find" /\ ~maintenance
    /\ EnterRealtime
    /\ allocentrynum' = NextEntry
    /\ LET b == CachedBuffer(Block)
       IN  audio' = [audio EXCEPT !.pc = "take", !.buf = b,
                                  !.queued = {Requests(Block)[i] : i \in DOMAIN Requests(Block)},
                                  !.shared = poll.pc = "read" /\ b = currcachebufnum]
    /\ QueueCacheBlocks(Requests(Block))
    /\ heard' = Nothing
    /\ UNCHANGED <<drive, pollVars, transfers, stale,
                   lastreadblock, mustreadblock, audiobuffer, songcursor>>

\* The sample is copied from the buffer, and the cursor advances.  (The block
\* read last is looked at in copy mode only, and kept only then.)
TakeSample ==
    /\ audio.pc = "take"
    /\ heard' = [pos |-> songcursor,
                 value |-> IF audio.buf = NoBuffer THEN Silence
                           ELSE IF audio.buf = CopyBuffer THEN audiobuffer
                           ELSE cachebuf[audio.buf],
                 shared |-> audio.shared, fresh |-> Block \notin stale]
    /\ lastreadblock' = IF maintenance THEN Block ELSE lastreadblock
    /\ songcursor' = songcursor + 1
    /\ audio' = IF audio.left = 1 THEN AudioIdle
                ELSE [AudioIdle EXCEPT !.pc = "find", !.left = audio.left - 1]
    /\ UNCHANGED <<drive, pollVars, blocktoqueue, currentreadmode, transfers, stale,
                   mustreadblock, audiobuffer, allocentrynum>>

------------------------------------------------------------------------------
(* The user interface's thread. *)

\* Mutant: looks only at the buffer it is about to fill.
MutAlreadyCached(k) == cachebuf_blocknum[currcachebufnum] = k

\* Nothing to load.
AlreadyCached(k) == \E i \in Bufs : cachebuf_blocknum[i] = k

\* bufferpoll finds a request: the one in the slot, or one of those that the
\* callback is just writing into the slot.  There is nothing to load when the
\* block is there; otherwise the next buffer is announced to hold it ...
PollRequest(k) ==
    /\ poll.pc = "idle"
    /\ currentreadmode # "copy" /\ k # NOTHINGTOQUEUE
    /\ k = blocktoqueue \/ k \in audio.queued
    /\ IF AlreadyCached(k)
       THEN /\ poll' = [pc |-> "clear", block |-> k]
            /\ UNCHANGED <<cachebuf_blocknum, audio>>
       ELSE /\ poll' = [pc |-> "read", block |-> k]
            /\ cachebuf_blocknum' = [cachebuf_blocknum EXCEPT ![currcachebufnum] = k]
            /\ audio' = [audio EXCEPT !.shared = @ \/ audio.buf = currcachebufnum]
    /\ UNCHANGED <<drive, cachebuf, currcachebufnum, blocktoqueue,
                   currentreadmode, transfers, stale, playVars>>

\* Mutant: counts the block from the start of the song, not of its entry.
MutLoaded(k) == Content(EntryOf(k), k)

\* What a read of block k for the cache gets.
Loaded(k) == Content(EntryOf(k), k - StartOf[EntryOf(k)])

\* Mutant: runs past the last buffer.
MutNextBuffer == currcachebufnum + 1

\* The buffers are used in turn.
NextBuffer == (currcachebufnum + 1) % Buffers

\* ... and then read.
LoadBlock ==
    /\ poll.pc = "read"
    /\ cachebuf' = [cachebuf EXCEPT ![currcachebufnum] = Loaded(poll.block)]
    /\ currcachebufnum' = NextBuffer
    /\ stale' = stale \ {poll.block}
    /\ poll' = [poll EXCEPT !.pc = "clear"]
    /\ UNCHANGED <<drive, cachebuf_blocknum, blocktoqueue, currentreadmode,
                   transfers, audio, playVars>>

\* The slot is emptied, also of a request made meanwhile.
ClearRequest ==
    /\ poll.pc = "clear"
    /\ blocktoqueue' = NOTHINGTOQUEUE
    /\ poll' = PollIdle
    /\ UNCHANGED <<drive, cachebuf_blocknum, cachebuf, currcachebufnum, currentreadmode,
                   transfers, stale, audio, playVars>>

\* A transfer reads the song: getmtrackaudiodata leaves the copy mode behind.
TransferRead ==
    /\ poll.pc = "idle" /\ transfers < MaxTransfers
    /\ currentreadmode' = "copy"
    /\ transfers' = transfers + 1
    /\ UNCHANGED <<drive, pollVars, blocktoqueue, stale, audio, playVars>>

\* A transfer writes block k: putmtrackaudiodata does not look at the cache.
TransferWrite(k) ==
    /\ poll.pc = "idle" /\ transfers < MaxTransfers
    /\ currentreadmode' = "write"
    /\ drive' = [drive EXCEPT ![k] = @ + 1]
    /\ stale' = IF Cached(k) \/ audiobuffer[1] = k THEN stale \union {k} ELSE stale
    /\ transfers' = transfers + 1
    /\ heard' = Nothing
    /\ UNCHANGED <<pollVars, blocktoqueue, audio, lastreadblock, mustreadblock,
                   audiobuffer, songcursor, allocentrynum>>

------------------------------------------------------------------------------
CacheNext ==
    /\ \/ \E f \in 0 .. length + 1, n \in {0, Frames} : Callback(f, n)
       \/ FindCopy
       \/ FindCached
       \/ TakeSample
       \/ \E k \in 0 .. Total : PollRequest(k)
       \/ LoadBlock
       \/ ClearRequest
       \/ TransferRead
       \/ \E k \in SongBlocks : TransferWrite(k)
    /\ UNCHANGED fixedVars

\* The poll timer runs all the time and is not in step with the callback, so
\* a request that stays in the slot is found, and a poll that has begun ends.
CacheFairness ==
    /\ WF_cacheVars(UNCHANGED fixedVars /\ \E k \in 0 .. Total : PollRequest(k))
    /\ WF_cacheVars(UNCHANGED fixedVars /\ LoadBlock)
    /\ WF_cacheVars(UNCHANGED fixedVars /\ ClearRequest)

CacheSpec == CacheInit /\ [][CacheNext]_cacheVars
FairCacheSpec == CacheSpec /\ CacheFairness

------------------------------------------------------------------------------
(* Properties. *)

Values == (SongBlocks \X Nat) \union {Silence, Elsewhere}

\* The state is well formed: the blocks asked for, announced and loaded, the
\* cursors, and what the two threads remember between their steps.
CacheTypeOK ==
    /\ length \in Lengths /\ maintenance \in BOOLEAN
    /\ drive \in [SongBlocks -> Nat]
    /\ cachebuf_blocknum \in [Bufs -> Nat \union {CACHEBLOCK_UNUSED}]
    /\ cachebuf \in [Bufs -> Values]
    /\ currcachebufnum \in Bufs
    /\ blocktoqueue \in Nat \union {NOTHINGTOQUEUE}
    /\ currentreadmode \in {"copy", "realtime", "write"}
    /\ lastreadblock \in Nat /\ mustreadblock \in BOOLEAN
    /\ audiobuffer \in Values
    /\ songcursor \in Nat /\ allocentrynum \in 0 .. Entries
    /\ audio \in [pc : {"idle", "find", "take"}, left : 0 .. Frames,
                  queued : SUBSET (Nat \union {NOTHINGTOQUEUE}),
                  buf : Bufs \union {NoBuffer, CopyBuffer}, shared : BOOLEAN]
    /\ poll \in [pc : {"idle", "read", "clear"}, block : Nat \union {NOTHINGTOQUEUE}]
    /\ transfers \in 0 .. MaxTransfers
    /\ heard \in [pos : Nat \union {-1}, value : Values, shared : BOOLEAN, fresh : BOOLEAN]
    /\ stale \subseteq SongBlocks

\* No two buffers are announced to hold the same block, however requests,
\* loads and evictions interleave: a search finds the one copy there is.
NoBlockCachedTwice ==
    \A i, j \in Bufs :
      cachebuf_blocknum[i] = cachebuf_blocknum[j] /\ cachebuf_blocknum[i] # CACHEBLOCK_UNUSED => i = j

\* What is played at a position inside the song is silence or the audio of
\* that position as it is on the drive; as it was, if a transfer wrote the
\* block while it was cached.  The one exception is a buffer that the poll
\* was loading while the callback took a sample from it.
PlaysTheSong ==
    LET k == BlockAt(heard.pos)
    IN  heard.pos \in 0 .. length - 1 /\ ~heard.shared
        => \/ heard.value = Silence
           \/ /\ heard.value[1] = k
              /\ heard.fresh => heard.value[2] = drive[k]

\* In maintenance mode nothing is silent: every sample of the song is taken
\* from the block it is in, wherever the extents of the song begin and end.
MaintenanceIsExact ==
    maintenance /\ heard.pos \in 0 .. length - 1 => heard.value[1] = BlockAt(heard.pos)

\* Between callbacks the allocation cursor is on the entry of the block that
\* was located; the walk leaves the table only when the position is the end
\* of a song that fills its last block.
CursorOnEntry ==
    audio.pc = "find" /\ audio.left = Frames
    => IF allocentrynum < Entries
       THEN Block \in StartOf[allocentrynum] .. StartOf[allocentrynum] + Count(allocentrynum) - 1
       ELSE songcursor = length /\ length = Total * SamplesPerBlock

\* When from some time on every sample the callback asks for is one of block
\* k, it hears the block again and again: no request is lost for good in the
\* one-slot queue, and the neighbours that are fetched as well do not push the
\* block out for ever.
BlockIsHeard ==
    \A k \in SongBlocks :
      /\ []<><<TakeSample /\ UNCHANGED fixedVars>>_cacheVars
      /\ <>[](heard = Nothing \/ BlockAt(heard.pos) = k)
      => []<>(heard # Nothing /\ heard.value # Silence)
=============================================================================
