-------------------------- MODULE SongCacheProofs --------------------------
(***************************************************************************)
(* The block cache of real-time playback: for every song, every number of  *)
(* buffers and every interleaving of the two threads, no block is cached   *)
(* twice, and what is played is the song.                                  *)
(*                                                                         *)
(* The first part needs the labels of the buffers only: only the poll      *)
(* writes them, and it looks at all of them before it announces a block.   *)
(* The second part is about the allocation table, whose starts StartOf     *)
(* adds up recursively.  The third part puts both together: what a buffer  *)
(* is announced to hold it holds (BuffersHold) but for the one being       *)
(* filled, and from the search for a block to the copy of its sample the   *)
(* buffer found stays the block's unless it is marked (BufferFound).       *)
(***************************************************************************)
EXTENDS SongCache, TLAPS, FiniteSetTheorems, SequenceTheorems

\* What the argument needs to know of the types.
LabelsOK ==
    /\ currcachebufnum \in Bufs
    /\ cachebuf_blocknum \in [Bufs -> Int]

CacheIInv == LabelsOK /\ NoBlockCachedTwice

\* The buffers are used in turn: after the last one comes the first.
LEMMA NextBufferIsABuffer ==
    ASSUME currcachebufnum \in Bufs PROVE NextBuffer \in Bufs
  BY CacheAssumption DEF Bufs, NextBuffer

\* Every buffer is unused at first.
LEMMA CacheInitial == CacheInit => CacheIInv
  BY CacheAssumption DEF CacheInit, CacheIInv, LabelsOK, NoBlockCachedTwice,
     Bufs, CACHEBLOCK_UNUSED

\* The poll announces a block only when no buffer is announced to hold it.
LEMMA PollRequestKeeps ==
    ASSUME CacheIInv, NEW k \in 0 .. Total, k \in Int, PollRequest(k)
    PROVE  CacheIInv'
<1>1. CASE AlreadyCached(k)
  <2>1. UNCHANGED <<currcachebufnum, cachebuf_blocknum>>
    BY <1>1 DEF PollRequest
  <2> QED BY <2>1 DEF CacheIInv, LabelsOK, NoBlockCachedTwice
<1>2. CASE ~AlreadyCached(k)
  <2>1. /\ currcachebufnum' = currcachebufnum
        /\ cachebuf_blocknum' = [cachebuf_blocknum EXCEPT ![currcachebufnum] = k]
    BY <1>2 DEF PollRequest
  <2>2. \A i \in Bufs : cachebuf_blocknum[i] # k
    BY <1>2 DEF AlreadyCached
  <2>3. LabelsOK' BY <2>1 DEF CacheIInv, LabelsOK
  <2>4. NoBlockCachedTwice'
    BY <2>1, <2>2 DEF CacheIInv, LabelsOK, NoBlockCachedTwice
  <2> QED BY <2>3, <2>4 DEF CacheIInv
<1> QED BY <1>1, <1>2

\* A load fills the announced buffer and goes on to the next one.
LEMMA LoadBlockKeeps ==
    ASSUME CacheIInv, LoadBlock PROVE CacheIInv'
<1>1. currcachebufnum' = NextBuffer /\ UNCHANGED cachebuf_blocknum
  BY DEF LoadBlock
<1>2. LabelsOK' BY <1>1, NextBufferIsABuffer DEF CacheIInv, LabelsOK
<1> QED BY <1>1, <1>2 DEF CacheIInv, NoBlockCachedTwice

\* No other step touches the labels.
LEMMA OthersKeepLabels ==
    ASSUME \/ \E f \in 0 .. length + 1, n \in {0, Frames} : Callback(f, n)
           \/ FindCopy \/ FindCached \/ TakeSample \/ ClearRequest
           \/ TransferRead \/ \E k \in SongBlocks : TransferWrite(k)
           \/ UNCHANGED cacheVars
    PROVE  UNCHANGED <<currcachebufnum, cachebuf_blocknum>>
  BY DEF Callback, FindCopy, FindCached, TakeSample, ClearRequest, TransferRead,
     TransferWrite, cacheVars, pollVars

LEMMA CacheStep == CacheIInv /\ [CacheNext]_cacheVars => CacheIInv'
<1> SUFFICES ASSUME CacheIInv, [CacheNext]_cacheVars PROVE CacheIInv'
  OBVIOUS
<1>1. ASSUME NEW k \in 0 .. Total, PollRequest(k) PROVE CacheIInv'
  <2>1. k \in Int OBVIOUS
  <2> QED BY <1>1, <2>1, PollRequestKeeps
<1>2. CASE LoadBlock BY <1>2, LoadBlockKeeps
<1>3. CASE \/ \E f \in 0 .. length + 1, n \in {0, Frames} : Callback(f, n)
           \/ FindCopy \/ FindCached \/ TakeSample \/ ClearRequest
           \/ TransferRead \/ \E k \in SongBlocks : TransferWrite(k)
           \/ UNCHANGED cacheVars
  <2>1. UNCHANGED <<currcachebufnum, cachebuf_blocknum>> BY <1>3, OthersKeepLabels
  <2> QED BY <2>1 DEF CacheIInv, LabelsOK, NoBlockCachedTwice
<1> QED BY <1>1, <1>2, <1>3 DEF CacheNext

\* Two buffers are never announced to hold the same block.
THEOREM NeverCachedTwice == CacheSpec => []NoBlockCachedTwice
<1>1. CacheIInv => NoBlockCachedTwice BY DEF CacheIInv
<1> QED BY CacheInitial, CacheStep, <1>1, PTL DEF CacheSpec

------------------------------------------------------------------------------
(* The allocation table.  StartOf is defined recursively; what it returns   *)
(* follows from the least number for which it would not, as every set of    *)
(* natural numbers that is not empty has a least element.                   *)

\* The proof goes through the finite sets 0 .. n, which strict inclusion
\* orders well.
LEMMA LeastNumber ==
    ASSUME NEW S \in SUBSET Nat, S # {}
    PROVE  \E x \in S : \A y \in S : x <= y
<1> DEFINE Upto == {0 .. n : n \in S}
<1>1. \A n \in Nat : IsFiniteSet(0 .. n) /\ 0 .. n \subseteq Nat
  BY FS_Interval
<1>2. Upto \subseteq FiniteSubsetsOf(Nat) /\ Upto # {}
  BY <1>1 DEF FiniteSubsetsOf
<1>3. PICK X \in Upto : \A Y \in Upto : <<Y, X>> \notin StrictSubsetOrdering(Nat)
  <2> HIDE DEF Upto
  <2> QED BY <1>2, FS_StrictSubsetOrderingWellFounded, WFMin, Zenon
<1>4. PICK x \in S : X = 0 .. x
  BY <1>3
<1>5. ASSUME NEW y \in S, y < x PROVE FALSE
  <2>1. 0 .. y \in Upto /\ 0 .. y \in SUBSET Nat /\ X \in SUBSET Nat
    BY <1>1, <1>4
  <2>2. x \in X /\ x \notin 0 .. y /\ 0 .. y \subseteq X
    BY <1>4, <1>5
  <2>3. <<0 .. y, X>> \in StrictSubsetOrdering(Nat)
    BY <2>1, <2>2 DEF StrictSubsetOrdering
  <2> QED BY <2>1, <2>3, <1>3
<1> QED BY <1>4, <1>5

\* f adds up the block counts of the first n entries.
SumsUp(f, n) == f = [e \in 0 .. n |-> IF e = 0 THEN 0 ELSE f[e - 1] + Count(e - 1)]
SumExists(n) == \E f : SumsUp(f, n)

LEMMA SumsExist == \A n \in Nat : SumExists(n)
<1> DEFINE Bad == {n \in Nat : ~SumExists(n)}
<1> SUFFICES ASSUME Bad # {} PROVE FALSE
  OBVIOUS
<1>1. PICK m \in Bad : \A n \in Bad : m <= n
  BY LeastNumber
<1>2. m # 0
  <2> DEFINE f == [e \in 0 .. 0 |-> 0]
  <2>1. SumsUp(f, 0)
    BY DEF SumsUp
  <2> QED BY <1>1, <2>1 DEF SumExists
<1>3. m - 1 \in Nat /\ m \in Nat
  BY <1>1, <1>2
<1>4. SumExists(m - 1)
  BY <1>1, <1>3
<1>5. PICK f : SumsUp(f, m - 1)
  BY <1>4 DEF SumExists
<1> DEFINE g == [e \in 0 .. m |-> IF e = m THEN f[m - 1] + Count(m - 1) ELSE f[e]]
<1>6. ASSUME NEW e \in 0 .. m
      PROVE  g[e] = IF e = 0 THEN 0 ELSE g[e - 1] + Count(e - 1)
  <2>1. CASE e = m
    <3>1. g[e] = f[m - 1] + Count(m - 1) /\ g[m - 1] = f[m - 1]
      BY <1>3, <2>1
    <3> QED BY <1>2, <2>1, <3>1
  <2>2. CASE e # m
    <3>1. e \in 0 .. m - 1 /\ g[e] = f[e]
      BY <1>3, <2>2
    <3>2. f[e] = IF e = 0 THEN 0 ELSE f[e - 1] + Count(e - 1)
      BY <1>5, <3>1 DEF SumsUp
    <3>3. e # 0 => g[e - 1] = f[e - 1]
      BY <1>3, <2>2, <3>1
    <3> QED BY <3>1, <3>2, <3>3
  <2> QED BY <2>1, <2>2
<1>7. SumsUp(g, m)
  <2>1. g = [e \in 0 .. m |-> g[e]]
    OBVIOUS
  <2> HIDE DEF g
  <2> QED BY <1>6, <2>1 DEF SumsUp
<1> QED BY <1>1, <1>7 DEF SumExists

\* Every entry starts where the one before it ends.
LEMMA StartsUnfold ==
    /\ StartOf[0] = 0
    /\ \A e \in 0 .. Entries - 1 : StartOf[e + 1] = StartOf[e] + Count(e)
<1>0. Entries \in Nat
  BY CacheAssumption
<1>1. \E f : SumsUp(f, Entries)
  BY <1>0, SumsExist DEF SumExists
<1>2. SumsUp(StartOf, Entries)
  BY <1>1 DEF StartOf, SumsUp
<1>3. \A e \in 0 .. Entries : StartOf[e] = IF e = 0 THEN 0 ELSE StartOf[e - 1] + Count(e - 1)
  <2> HIDE DEF SumsUp
  <2> QED BY <1>2 DEF SumsUp
<1>4. ASSUME NEW e \in 0 .. Entries - 1 PROVE StartOf[e + 1] = StartOf[e] + Count(e)
  <2>1. e + 1 \in 0 .. Entries /\ e + 1 # 0 /\ (e + 1) - 1 = e
    BY <1>0
  <2> QED BY <1>3, <2>1
<1> QED BY <1>0, <1>3, <1>4

\* The entries in use have blocks, the others have none.
LEMMA Counts ==
    /\ \A e \in Nat : Count(e) \in Nat
    /\ \A e \in 0 .. Entries - 1 : e < Len(Extents) => Count(e) > 0
    /\ \A e \in 0 .. Entries : e >= Len(Extents) => Count(e) = 0
    /\ Entries \in Nat \ {0} /\ Len(Extents) \in 1 .. Entries
<1>1. Entries \in Nat \ {0} /\ Len(Extents) \in 1 .. Entries /\ Extents \in Seq(Nat \ {0})
  BY CacheAssumption
<1>2. \A i \in 1 .. Len(Extents) : Extents[i] \in Nat \ {0}
  BY <1>1
<1>3. ASSUME NEW e \in Nat PROVE Count(e) \in Nat /\ (e < Len(Extents) => Count(e) > 0)
                               /\ (e >= Len(Extents) => Count(e) = 0)
  <2>1. CASE e < Len(Extents)
    <3>1. e + 1 \in 1 .. Len(Extents)
      BY <1>1, <2>1
    <3> QED BY <1>1, <1>2, <2>1, <3>1 DEF Count
  <2>2. CASE ~(e < Len(Extents))
    BY <1>1, <2>2 DEF Count
  <2> QED BY <2>1, <2>2
<1>4. \A e \in Nat : Count(e) \in Nat
  BY <1>3
<1>5. \A e \in 0 .. Entries - 1 : e < Len(Extents) => Count(e) > 0
  BY <1>1, <1>3
<1>6. \A e \in 0 .. Entries : e >= Len(Extents) => Count(e) = 0
  BY <1>1, <1>3
<1> QED BY <1>1, <1>4, <1>5, <1>6

\* Every number of blocks before an entry is a number, and they do not
\* decrease from entry to entry.
LEMMA StartIsNat == \A e \in 0 .. Entries : StartOf[e] \in Nat
<1> DEFINE Bad == {e \in 0 .. Entries : StartOf[e] \notin Nat}
<1> SUFFICES ASSUME Bad # {} PROVE FALSE
  OBVIOUS
<1>0. Entries \in Nat
  BY Counts
<1>1. PICK m \in Bad : \A e \in Bad : m <= e
  <2>1. Bad \in SUBSET Nat
    BY <1>0
  <2> QED BY <2>1, LeastNumber
<1>2. m # 0
  BY <1>1, StartsUnfold
<1>3. m - 1 \in 0 .. Entries - 1 /\ m - 1 \in 0 .. Entries /\ m - 1 \in Nat /\ (m - 1) + 1 = m
  BY <1>0, <1>1, <1>2
<1>4. StartOf[m - 1] \in Nat
  BY <1>1, <1>3
<1>5. StartOf[m] = StartOf[m - 1] + Count(m - 1)
  BY <1>3, StartsUnfold
<1>6. Count(m - 1) \in Nat
  BY <1>3, Counts
<1>7. StartOf[m] \in Nat
  BY <1>4, <1>5, <1>6
<1> QED BY <1>1, <1>7

LEMMA StartsGrow ==
    ASSUME NEW a \in 0 .. Entries, NEW b \in 0 .. Entries, a <= b
    PROVE  StartOf[a] <= StartOf[b]
<1> DEFINE Bad == {e \in 0 .. Entries : a <= e /\ ~(StartOf[a] <= StartOf[e])}
<1> SUFFICES ASSUME Bad # {} PROVE FALSE
  OBVIOUS
<1>0. Entries \in Nat
  BY Counts
<1>1. PICK m \in Bad : \A e \in Bad : m <= e
  <2>1. Bad \in SUBSET Nat
    BY <1>0
  <2> QED BY <2>1, LeastNumber
<1>2. m # a
  BY <1>1, StartIsNat
<1>3. /\ m - 1 \in 0 .. Entries - 1 /\ m - 1 \in 0 .. Entries /\ m - 1 \in Nat
      /\ (m - 1) + 1 = m /\ a <= m - 1
  BY <1>0, <1>1, <1>2
<1>4. StartOf[a] <= StartOf[m - 1]
  BY <1>1, <1>3
<1>5. StartOf[m] = StartOf[m - 1] + Count(m - 1)
  BY <1>3, StartsUnfold
<1>6. Count(m - 1) \in Nat /\ StartOf[m - 1] \in Nat /\ StartOf[a] \in Nat
  BY <1>3, Counts, StartIsNat
<1> QED BY <1>1, <1>4, <1>5, <1>6

LEMMA TotalIsNat == Total \in Nat /\ \A e \in 0 .. Entries : StartOf[e] \in 0 .. Total
<1>1. Entries \in Nat /\ Entries \in 0 .. Entries
  BY Counts
<1> QED BY <1>1, StartIsNat, StartsGrow DEF Total

\* A block of the song lies in one entry: the last one that starts at the
\* block or before it.
LEMMA EntryExists ==
    ASSUME NEW k \in SongBlocks
    PROVE  \E e \in 0 .. Entries - 1 : StartOf[e] <= k /\ k < StartOf[e] + Count(e)
<1> DEFINE Beyond == {e \in 0 .. Entries : k < StartOf[e]}
<1>0. Entries \in Nat /\ Entries \in 0 .. Entries /\ k \in Nat /\ k < Total
  BY Counts, TotalIsNat DEF SongBlocks
<1>1. Beyond # {} /\ Beyond \in SUBSET Nat
  <2>1. Entries \in Beyond
    BY <1>0 DEF Total
  <2> QED BY <1>0, <2>1
<1>2. PICK m \in Beyond : \A e \in Beyond : m <= e
  BY <1>1, LeastNumber
<1>3. m # 0
  BY <1>0, <1>2, StartsUnfold
<1>4. m - 1 \in 0 .. Entries - 1 /\ m - 1 \in 0 .. Entries /\ (m - 1) + 1 = m
  BY <1>0, <1>2, <1>3
<1>5. m - 1 \notin Beyond
  BY <1>0, <1>2, <1>4
<1>6. StartOf[m - 1] <= k
  BY <1>0, <1>4, <1>5, StartIsNat
<1>7. k < StartOf[m - 1] + Count(m - 1)
  BY <1>2, <1>4, StartsUnfold
<1> QED BY <1>4, <1>6, <1>7

LEMMA EntryOfIsRight ==
    ASSUME NEW k \in SongBlocks
    PROVE  /\ EntryOf(k) \in 0 .. Entries - 1
           /\ StartOf[EntryOf(k)] <= k /\ k < StartOf[EntryOf(k)] + Count(EntryOf(k))
<1>1. EntryOf(k) = CHOOSE e \in 0 .. Entries - 1 : StartOf[e] <= k /\ k < StartOf[e] + Count(e)
  BY DEF EntryOf
<1> QED BY <1>1, EntryExists

LEMMA EntryOfType == \A k : EntryOf(k) \in 0 .. Entries
<1> SUFFICES ASSUME NEW k PROVE EntryOf(k) \in 0 .. Entries
  OBVIOUS
<1>1. Entries \in Nat
  BY Counts
<1>2. CASE k \in SongBlocks
  BY <1>1, <1>2, EntryOfIsRight
<1>3. CASE k \notin SongBlocks
  BY <1>1, <1>3 DEF EntryOf
<1> QED BY <1>2, <1>3

\* An entry that begins before the end of the song has a block.
LEMMA EntryBeforeEnd ==
    ASSUME NEW e \in 0 .. Entries, StartOf[e] < Total
    PROVE  e < Entries /\ Count(e) > 0
<1>0. Entries \in Nat
  BY Counts
<1>1. e # Entries
  BY StartIsNat DEF Total
<1>2. SUFFICES ASSUME Count(e) = 0 PROVE FALSE
  BY <1>0, <1>1, Counts
<1> DEFINE Bad == {x \in 0 .. Entries : e <= x /\ StartOf[x] # StartOf[e]}
<1>3. Entries \in Bad /\ Bad \in SUBSET Nat
  BY <1>0, TotalIsNat DEF Total
<1>4. PICK m \in Bad : \A x \in Bad : m <= x
  BY <1>3, LeastNumber
<1>5. /\ m - 1 \in 0 .. Entries - 1 /\ m - 1 \in 0 .. Entries /\ e <= m - 1
      /\ (m - 1) + 1 = m
  BY <1>0, <1>4
<1>6. StartOf[m - 1] = StartOf[e]
  BY <1>0, <1>4, <1>5
<1>7. Count(m - 1) = 0
  <2>1. Len(Extents) \in Nat
    BY Counts
  <2>2. ~(e < Len(Extents))
    BY <1>0, <1>1, <1>2, Counts
  <2>3. m - 1 >= Len(Extents)
    BY <1>5, <2>1, <2>2
  <2> QED BY <1>5, <2>3, Counts
<1>8. StartOf[m] = StartOf[m - 1] + Count(m - 1)
  BY <1>5, StartsUnfold
<1> QED BY <1>4, <1>5, <1>6, <1>7, <1>8, StartIsNat

\* A block of an entry is a block of the song.
LEMMA BlocksOfEntry ==
    ASSUME NEW e \in 0 .. Entries, NEW offset \in Nat, offset < Count(e)
    PROVE  StartOf[e] + offset \in SongBlocks
<1>0. Entries \in Nat
  BY Counts
<1>1. e \in 0 .. Entries - 1 /\ e + 1 \in 0 .. Entries
  <2>1. Count(Entries) = 0
    BY <1>0, Counts
  <2> QED BY <1>0, <2>1
<1>2. StartOf[e + 1] = StartOf[e] + Count(e)
  BY <1>1, StartsUnfold
<1>3. StartOf[e + 1] \in 0 .. Total /\ StartOf[e] \in Nat /\ Count(e) \in Nat
  <2>1. Count(e) \in Nat
    BY <1>1, Counts
  <2> QED BY <1>1, <2>1, TotalIsNat
<1> QED BY <1>2, <1>3, TotalIsNat DEF SongBlocks

\* Sample s is in block BlockAt(s), and the next one in it or the one behind.
LEMMA BlocksOfSamples ==
    ASSUME NEW s \in Nat
    PROVE  /\ BlockAt(s) \in Nat
           /\ s < Total * SamplesPerBlock <=> BlockAt(s) < Total
           /\ BlockAt(s + 1) \in {BlockAt(s), BlockAt(s) + 1}
<1> DEFINE B == SamplesPerBlock
<1> DEFINE q == s \div B
<1>1. B \in Nat \ {0} /\ Total \in Nat
  BY CacheAssumption, TotalIsNat
<1>2. q \in Nat /\ q * B <= s /\ s < q * B + B
  BY <1>1
<1>3. s < Total * B <=> q < Total
  <2> HIDE DEF q, B
  <2>1. ASSUME q < Total PROVE s < Total * B
    <3>1. q + 1 <= Total
      BY <1>1, <1>2, <2>1
    <3>2. (q + 1) * B <= Total * B
      BY <1>1, <1>2, <3>1
    <3>3. (q + 1) * B = q * B + B
      BY <1>1, <1>2
    <3> QED BY <1>1, <1>2, <3>2, <3>3
  <2>2. ASSUME ~(q < Total) PROVE ~(s < Total * B)
    <3>1. Total * B <= q * B
      BY <1>1, <1>2, <2>2
    <3> QED BY <1>1, <1>2, <3>1
  <2> QED BY <2>1, <2>2
<1>4. (s + 1) \div B = q \/ (s + 1) \div B = q + 1
  <2> DEFINE r == (s + 1) \div B
  <2>1. r \in Nat /\ r * B <= s + 1 /\ s + 1 < r * B + B
    BY <1>1
  <2> HIDE DEF q, B, r
  <2>2. q <= r
    <3>1. SUFFICES ASSUME r + 1 <= q PROVE FALSE
      BY <1>2, <2>1
    <3>2. (r + 1) * B <= q * B /\ (r + 1) * B = r * B + B
      BY <1>1, <1>2, <2>1, <3>1
    <3> QED BY <1>1, <1>2, <2>1, <3>2
  <2>3. r <= q + 1
    <3>1. SUFFICES ASSUME q + 2 <= r PROVE FALSE
      BY <1>2, <2>1
    <3>2. (q + 2) * B <= r * B /\ (q + 2) * B = q * B + B + B
      BY <1>1, <1>2, <2>1, <3>1
    <3> QED BY <1>1, <1>2, <2>1, <3>2
  <2>4. r = q \/ r = q + 1
    BY <1>2, <2>1, <2>2, <2>3
  <2> QED BY <2>4 DEF r
<1> QED BY <1>2, <1>3, <1>4 DEF BlockAt

------------------------------------------------------------------------------
(* What holds between the steps. *)

\* What each buffer is announced to hold, it holds: as it is on the drive when
\* no transfer has written the block since.  The poll may be filling one.
Filling(i) == poll.pc = "read" /\ i = currcachebufnum

Holds(content, k) == content[1] = k /\ (k \notin stale => content[2] = drive[k])

BuffersHold ==
    \A i \in Bufs :
      cachebuf_blocknum[i] \in SongBlocks /\ ~Filling(i)
      => Holds(cachebuf[i], cachebuf_blocknum[i])

\* What the poll has announced and not yet read.
PollAnnounced ==
    poll.pc = "read" => /\ poll.block \in 0 .. Total
                        /\ cachebuf_blocknum[currcachebufnum] = poll.block

\* The maintenance mode asks for nothing, and the other mode does not read
\* blocks itself.
MaintenanceQuiet ==
    maintenance => /\ blocktoqueue = NOTHINGTOQUEUE /\ audio.queued = {}
                   /\ poll.pc = "idle"
                   /\ cachebuf_blocknum = [i \in Bufs |-> CACHEBLOCK_UNUSED]

RealtimeQuiet == ~maintenance => audiobuffer = Elsewhere

\* The block read last in maintenance mode.
CopyHolds ==
    /\ audiobuffer[1] \in SongBlocks => Holds(audiobuffer, audiobuffer[1])
    /\ maintenance /\ ~mustreadblock /\ audio.pc # "take" /\ lastreadblock \in SongBlocks
       => audiobuffer[1] = lastreadblock

\* Where the allocation cursor is while samples are taken.
OnEntry == /\ allocentrynum < Entries
           /\ Block < StartOf[allocentrynum] + Count(allocentrynum)

EntryFound ==
    /\ audio.pc # "idle" => audio.left \in 1 .. Frames /\ StartOf[allocentrynum] <= Block
    /\ audio.pc = "find" /\ Block \in SongBlocks
       => /\ allocentrynum < Entries
          /\ Block <= StartOf[allocentrynum] + Count(allocentrynum)
          /\ maintenance /\ lastreadblock = Block => OnEntry
    /\ audio.pc = "take" /\ Block \in SongBlocks => OnEntry

\* The buffer the next sample is taken from.
BufferFound ==
    audio.pc = "take"
    => /\ maintenance <=> audio.buf = CopyBuffer
       /\ maintenance /\ Block \in SongBlocks => audiobuffer[1] = Block
       /\ audio.buf \in Bufs /\ ~audio.shared
          => cachebuf_blocknum[audio.buf] = Block /\ ~Filling(audio.buf)

PlayIInv ==
    /\ CacheTypeOK /\ NoBlockCachedTwice /\ PlaysTheSong /\ MaintenanceIsExact /\ CursorOnEntry
    /\ BuffersHold /\ PollAnnounced /\ MaintenanceQuiet /\ RealtimeQuiet /\ CopyHolds
    /\ EntryFound /\ BufferFound

\* What is read: block k of the song, as it is on the drive.
LEMMA ContentIsABlock ==
    ASSUME CacheTypeOK, NEW e \in 0 .. Entries, NEW k \in Int, StartOf[e] <= k
    PROVE  /\ k < StartOf[e] + Count(e)
              => k \in SongBlocks /\ Content(e, k - StartOf[e]) = <<k, drive[k]>>
           /\ ~(k < StartOf[e] + Count(e)) => Content(e, k - StartOf[e]) = Elsewhere
           /\ Content(e, k - StartOf[e]) \in Values
<1> DEFINE offset == k - StartOf[e]
<1>1. StartOf[e] \in Nat /\ Count(e) \in Nat /\ offset \in Nat
  <2>1. e \in Nat
    BY Counts
  <2>2. Count(e) \in Nat
    BY <2>1, Counts
  <2>3. StartOf[e] \in Nat
    BY StartIsNat
  <2> QED BY <2>2, <2>3
<1>2. offset < Count(e) <=> k < StartOf[e] + Count(e)
  BY <1>1
<1>3. StartOf[e] + offset = k
  BY <1>1
<1> HIDE DEF offset
<1>4. CASE offset < Count(e)
  <2>1. k \in SongBlocks
    BY <1>1, <1>3, <1>4, BlocksOfEntry
  <2>2. Content(e, offset) = <<k, drive[k]>>
    BY <1>3, <1>4 DEF Content
  <2>3. drive[k] \in Nat
    BY <2>1 DEF CacheTypeOK
  <2> QED BY <1>2, <1>4, <2>1, <2>2, <2>3 DEF Values, offset
<1>5. CASE ~(offset < Count(e))
  BY <1>2, <1>5 DEF Content, Values, offset
<1> QED BY <1>4, <1>5

\* What the poll reads for block k.
LEMMA LoadedIsTheBlock ==
    ASSUME CacheTypeOK, NEW k \in 0 .. Total
    PROVE  /\ k \in SongBlocks => Loaded(k) = <<k, drive[k]>>
           /\ Loaded(k) \in Values
<1>0. Entries \in Nat /\ Entries \in 0 .. Entries /\ Total \in Nat /\ k \in Int
  BY Counts, TotalIsNat
<1>1. CASE k \in SongBlocks
  <2>1. /\ EntryOf(k) \in 0 .. Entries - 1
        /\ StartOf[EntryOf(k)] <= k /\ k < StartOf[EntryOf(k)] + Count(EntryOf(k))
    BY <1>1, EntryOfIsRight
  <2>2. EntryOf(k) \in 0 .. Entries
    BY <1>0, <2>1
  <2> HIDE DEF EntryOf
  <2> QED BY <1>0, <2>1, <2>2, ContentIsABlock DEF Loaded
<1>2. CASE k \notin SongBlocks
  <2>1. EntryOf(k) = Entries /\ k = Total
    BY <1>0, <1>2 DEF EntryOf, SongBlocks
  <2>2. StartOf[Entries] <= k
    BY <1>0, <2>1 DEF Total
  <2> QED BY <1>0, <1>2, <2>1, <2>2, ContentIsABlock DEF Loaded
<1> QED BY <1>1, <1>2

\* Initially nothing is cached, and no sample has been played.
LEMMA PlayInitial == CacheInit => PlayIInv
<1> SUFFICES ASSUME CacheInit PROVE PlayIInv
  OBVIOUS
<1> USE DEF CACHEBLOCK_UNUSED, NOTHINGTOQUEUE, NoBuffer, CopyBuffer
<1>0. /\ length \in Lengths /\ maintenance \in BOOLEAN
      /\ drive = [k \in SongBlocks |-> 0]
      /\ cachebuf_blocknum = [i \in Bufs |-> CACHEBLOCK_UNUSED]
      /\ cachebuf = [i \in Bufs |-> Elsewhere]
      /\ currcachebufnum = 0 /\ blocktoqueue = NOTHINGTOQUEUE
      /\ currentreadmode = "copy" /\ lastreadblock = 0 /\ mustreadblock = TRUE
      /\ audiobuffer = Elsewhere /\ songcursor = 0 /\ allocentrynum = EntryOf(0)
      /\ audio = AudioIdle /\ poll = PollIdle /\ transfers = 0
      /\ heard = Nothing /\ stale = {}
  BY Zenon DEF CacheInit
<1>1. 0 \in Bufs /\ allocentrynum \in 0 .. Entries
  BY <1>0, CacheAssumption, EntryOfType DEF Bufs
<1>2. Elsewhere \in Values /\ Silence \in Values /\ Elsewhere[1] = -1
  BY DEF Values, Elsewhere, Silence
<1>3. /\ audio.pc = "idle" /\ audio.left = 0 /\ audio.queued = {}
      /\ audio \in [pc : {"idle", "find", "take"}, left : 0 .. Frames,
                  queued : SUBSET (Nat \union {NOTHINGTOQUEUE}),
                  buf : Bufs \union {NoBuffer, CopyBuffer}, shared : BOOLEAN]
  BY <1>0, CacheAssumption DEF AudioIdle
<1>4. /\ poll.pc = "idle"
      /\ poll \in [pc : {"idle", "read", "clear"}, block : Nat \union {NOTHINGTOQUEUE}]
  BY <1>0 DEF PollIdle
<1>5. /\ heard.pos = -1
      /\ heard \in [pos : Nat \union {-1}, value : Values, shared : BOOLEAN, fresh : BOOLEAN]
  BY <1>0, <1>2 DEF Nothing
<1>6. drive \in [SongBlocks -> Nat] /\ cachebuf \in [Bufs -> Values] /\ stale \subseteq SongBlocks
  BY <1>0, <1>2
<1>7. CacheTypeOK
  BY <1>0, <1>1, <1>2, <1>3, <1>4, <1>5, <1>6, CacheAssumption DEF CacheTypeOK
<1>8. NoBlockCachedTwice
  BY CacheInitial DEF CacheIInv
<1>9. PlaysTheSong /\ MaintenanceIsExact
  BY <1>0, <1>5, CacheAssumption DEF PlaysTheSong, MaintenanceIsExact
<1>10. CursorOnEntry /\ EntryFound /\ BufferFound /\ PollAnnounced
  BY <1>3, <1>4 DEF CursorOnEntry, EntryFound, BufferFound, PollAnnounced
<1>11. -1 \notin SongBlocks
  BY TotalIsNat DEF SongBlocks
<1>12. BuffersHold
  BY <1>0, <1>11 DEF BuffersHold
<1>13. MaintenanceQuiet /\ RealtimeQuiet /\ CopyHolds
  BY <1>0, <1>2, <1>3, <1>4, <1>11 DEF MaintenanceQuiet, RealtimeQuiet, CopyHolds
<1> QED BY <1>7, <1>8, <1>9, <1>10, <1>12, <1>13 DEF PlayIInv

\* Block numbers are numbers; a position inside the song is in a block of it.
PositionOK ==
    /\ Block \in Nat
    /\ songcursor \in 0 .. length - 1 => Block \in SongBlocks
    /\ songcursor \in 0 .. length /\ Block \notin SongBlocks
       => songcursor = length /\ length = Total * SamplesPerBlock

LEMMA PositionInSong == CacheTypeOK => PositionOK
<1> SUFFICES ASSUME CacheTypeOK PROVE PositionOK
  OBVIOUS
<1>1. songcursor \in Nat /\ length \in Nat /\ length <= Total * SamplesPerBlock
  BY CacheAssumption, LengthAssumption DEF CacheTypeOK
<1>2. /\ Block \in Nat
      /\ songcursor < Total * SamplesPerBlock <=> Block < Total
  BY <1>1, BlocksOfSamples DEF Block
<1>3. Total \in Nat /\ SamplesPerBlock \in Nat /\ Total * SamplesPerBlock \in Nat
  BY TotalIsNat, CacheAssumption
<1>4. Block \in SongBlocks <=> Block < Total
  BY <1>2, <1>3 DEF SongBlocks
<1> QED BY <1>1, <1>2, <1>3, <1>4 DEF PositionOK

LEMMA PositionInSongNext == CacheTypeOK' => PositionOK'
  BY PositionInSong, PTL

\* What the record of the sample just played is after a write.
LEMMA NothingHeard ==
    ASSUME CacheTypeOK, heard' = Nothing, length' = length
    PROVE  /\ PlaysTheSong' /\ MaintenanceIsExact'
           /\ heard' \in [pos : Nat \union {-1}, value : Values, shared : BOOLEAN, fresh : BOOLEAN]
<1>1. heard'.pos = -1 /\ length' \in Nat
  BY CacheAssumption DEF Nothing, CacheTypeOK
<1>2. PlaysTheSong' /\ MaintenanceIsExact'
  BY <1>1 DEF PlaysTheSong, MaintenanceIsExact
<1>3. Silence \in Values
  BY DEF Values
<1> QED BY <1>2, <1>3 DEF Nothing

\* A step that leaves alone what the conjuncts of the buffers are about.
LEMMA BuffersUntouched ==
    ASSUME PlayIInv,
           UNCHANGED <<drive, cachebuf_blocknum, cachebuf, currcachebufnum, poll, stale,
                       length, maintenance>>
    PROVE  /\ NoBlockCachedTwice' /\ BuffersHold' /\ PollAnnounced'
           /\ heard' = heard \/ heard' = Nothing => PlaysTheSong' /\ MaintenanceIsExact'
<1>1. NoBlockCachedTwice' /\ BuffersHold' /\ PollAnnounced'
  BY DEF PlayIInv, NoBlockCachedTwice, BuffersHold, PollAnnounced, Filling, Holds
<1>2. CASE heard' = heard
  <2>1. PlaysTheSong /\ MaintenanceIsExact
    BY DEF PlayIInv
  <2> QED BY <1>1, <1>2, <2>1 DEF PlaysTheSong, MaintenanceIsExact
<1>3. CASE heard' = Nothing
  <2>1. CacheTypeOK
    BY DEF PlayIInv
  <2> QED BY <1>1, <1>3, <2>1, NothingHeard
<1> QED BY <1>1, <1>2, <1>3

\* The callback locates: the cursor is on the entry of the block, which may
\* only be missing at the end of the song.
LEMMA CallbackKeeps ==
    ASSUME PlayIInv, UNCHANGED fixedVars,
           NEW f \in 0 .. length + 1, NEW n \in {0, Frames}, Callback(f, n)
    PROVE  PlayIInv'
<1>0. CacheTypeOK
  BY DEF PlayIInv
<1>1. /\ songcursor' = IF f > length THEN length ELSE f
      /\ allocentrynum' = EntryOf(BlockAt(songcursor'))
      /\ audio' = IF n = 0 THEN AudioIdle ELSE [AudioIdle EXCEPT !.pc = "find", !.left = n]
      /\ heard' = Nothing
      /\ audio.pc = "idle"
  BY DEF Callback, GoLocatePos
<1>2. UNCHANGED <<drive, cachebuf_blocknum, cachebuf, currcachebufnum, poll, blocktoqueue,
                  currentreadmode, transfers, stale, lastreadblock, mustreadblock,
                  audiobuffer, length, maintenance>>
  BY DEF Callback, pollVars, fixedVars
<1>3. length \in Nat /\ songcursor' \in 0 .. length
  BY <1>0, <1>1, CacheAssumption DEF CacheTypeOK
<1>4. /\ audio' \in [pc : {"idle", "find", "take"}, left : 0 .. Frames,
                  queued : SUBSET (Nat \union {NOTHINGTOQUEUE}),
                  buf : Bufs \union {NoBuffer, CopyBuffer}, shared : BOOLEAN]
      /\ audio'.pc \in {"idle", "find"} /\ audio'.queued = {}
      /\ audio'.pc = "find" => audio'.left = Frames /\ Frames \in 1 .. Frames
  <2>1. Frames \in 1 .. Frames /\ Frames \in 0 .. Frames /\ 0 \in 0 .. Frames
    BY CacheAssumption
  <2>2. CASE n = 0
    BY <1>1, <2>1, <2>2 DEF AudioIdle
  <2>3. CASE n # 0
    <3>1. n = Frames
      BY <2>3
    <3>2. audio' = [pc |-> "find", left |-> Frames, queued |-> {}, buf |-> NoBuffer, shared |-> FALSE]
      BY <1>1, <2>3, <3>1 DEF AudioIdle
    <3> QED BY <2>1, <3>2
  <2> QED BY <2>2, <2>3
<1>5. heard' \in [pos : Nat \union {-1}, value : Values, shared : BOOLEAN, fresh : BOOLEAN]
  BY <1>0, <1>1, <1>2, NothingHeard
<1>6. allocentrynum' \in 0 .. Entries
  BY <1>1, EntryOfType
<1>7. CacheTypeOK'
  BY <1>0, <1>2, <1>3, <1>4, <1>5, <1>6 DEF CacheTypeOK
<1>8. /\ Block' \in Nat
      /\ Block' \in SongBlocks \/ (songcursor' = length' /\ length' = Total * SamplesPerBlock)
  <2>1. PositionOK'
    BY <1>7, PositionInSongNext
  <2>2. length' = length
    BY <1>2
  <2> QED BY <1>3, <2>1, <2>2 DEF PositionOK
<1>9. NoBlockCachedTwice' /\ BuffersHold' /\ PollAnnounced'
      /\ PlaysTheSong' /\ MaintenanceIsExact'
  BY <1>1, <1>2, BuffersUntouched
<1>10. MaintenanceQuiet' /\ RealtimeQuiet'
  BY <1>2, <1>4 DEF PlayIInv, MaintenanceQuiet, RealtimeQuiet
<1>11. CopyHolds' /\ BufferFound'
  BY <1>1, <1>2, <1>4 DEF PlayIInv, CopyHolds, BufferFound, Holds
<1>12. allocentrynum' = EntryOf(Block')
  BY <1>1 DEF Block
<1>13. EntryFound' /\ CursorOnEntry'
  <2>1. CASE Block' \in SongBlocks
    <3>1. /\ allocentrynum' \in 0 .. Entries - 1
          /\ StartOf[allocentrynum'] <= Block'
          /\ Block' < StartOf[allocentrynum'] + Count(allocentrynum')
      BY <1>12, <2>1, EntryOfIsRight
    <3>2. /\ allocentrynum' \in Nat /\ allocentrynum' < Entries
          /\ StartOf[allocentrynum'] \in Nat
      BY <1>6, <3>1, Counts, StartIsNat
    <3>3. Count(allocentrynum') \in Nat
      BY <3>2, Counts
    <3>4. EntryFound'
      BY <1>4, <1>8, <3>1, <3>2, <3>3 DEF EntryFound, OnEntry
    <3>5. CursorOnEntry'
      BY <1>8, <3>1, <3>2, <3>3 DEF CursorOnEntry
    <3> QED BY <3>4, <3>5
  <2>2. CASE Block' \notin SongBlocks
    <3>1. allocentrynum' = Entries /\ Entries \in Nat
      BY <1>12, <2>2, Counts DEF EntryOf
    <3>2. StartOf[allocentrynum'] <= Block'
      BY <1>8, <2>2, <3>1, TotalIsNat DEF Total, SongBlocks
    <3>3. EntryFound'
      BY <1>4, <2>2, <3>2 DEF EntryFound
    <3>4. CursorOnEntry'
      BY <1>8, <2>2, <3>1 DEF CursorOnEntry
    <3> QED BY <3>3, <3>4
  <2> QED BY <2>1, <2>2
<1> QED BY <1>7, <1>9, <1>10, <1>11, <1>13 DEF PlayIInv

\* The step of the allocation cursor when its entry is behind it.
LEMMA NextEntryIsRight ==
    ASSUME CacheTypeOK, StartOf[allocentrynum] <= Block,
           Block \in SongBlocks
           => allocentrynum < Entries /\ Block <= StartOf[allocentrynum] + Count(allocentrynum)
    PROVE  /\ NextEntry \in 0 .. Entries
           /\ StartOf[NextEntry] <= Block
           /\ Block \in SongBlocks
              => NextEntry < Entries /\ Block < StartOf[NextEntry] + Count(NextEntry)
<1>0. /\ allocentrynum \in 0 .. Entries /\ allocentrynum \in Nat /\ Entries \in Nat
      /\ Block \in Nat
  <2>1. Block \in Nat
    BY PositionInSong DEF PositionOK
  <2>2. Entries \in Nat
    BY Counts
  <2>3. allocentrynum \in 0 .. Entries
    BY DEF CacheTypeOK
  <2> QED BY <2>1, <2>2, <2>3
<1>1. StartOf[allocentrynum] \in Nat /\ Count(allocentrynum) \in Nat
  <2>1. Count(allocentrynum) \in Nat
    BY <1>0, Counts
  <2> QED BY <1>0, <2>1, StartIsNat
<1>2. CASE allocentrynum < Entries /\ Block = StartOf[allocentrynum] + Count(allocentrynum)
  <2>1. NextEntry = allocentrynum + 1 /\ NextEntry \in 0 .. Entries
    BY <1>0, <1>2 DEF NextEntry
  <2>2. StartOf[NextEntry] = Block
    BY <1>0, <1>2, <2>1, StartsUnfold
  <2>3. Block \in SongBlocks => NextEntry < Entries /\ Count(NextEntry) > 0
    BY <2>1, <2>2, TotalIsNat, EntryBeforeEnd DEF SongBlocks
  <2>4. Count(NextEntry) \in Nat
    <3>1. NextEntry \in Nat
      BY <1>0, <2>1
    <3> QED BY <3>1, Counts
  <2> HIDE DEF NextEntry
  <2> QED BY <1>0, <2>1, <2>2, <2>3, <2>4
<1>3. CASE ~(allocentrynum < Entries /\ Block = StartOf[allocentrynum] + Count(allocentrynum))
  <2>1. NextEntry = allocentrynum
    BY <1>3 DEF NextEntry
  <2> HIDE DEF NextEntry
  <2> QED BY <1>0, <1>1, <1>3, <2>1
<1> QED BY <1>2, <1>3

\* In maintenance mode the block is there when the sample is taken: just read,
\* or read last.
LEMMA FindCopyKeeps ==
    ASSUME PlayIInv, UNCHANGED fixedVars, FindCopy
    PROVE  PlayIInv'
<1>0. /\ CacheTypeOK /\ EntryFound /\ CopyHolds /\ MaintenanceQuiet /\ BuffersHold
      /\ RealtimeQuiet
  BY DEF PlayIInv
<1>1. /\ audio.pc = "find" /\ maintenance = TRUE
      /\ currentreadmode' = "realtime"
      /\ audio' = [audio EXCEPT !.pc = "take", !.buf = CopyBuffer]
      /\ heard' = Nothing
  BY <1>0 DEF FindCopy, EnterRealtime, CacheTypeOK
<1>2. UNCHANGED <<drive, cachebuf_blocknum, cachebuf, currcachebufnum, poll, blocktoqueue,
                  transfers, lastreadblock, songcursor, length, maintenance>>
  BY DEF FindCopy, pollVars, fixedVars
<1>3. Block' = Block /\ Block \in Nat
  BY <1>0, <1>2, PositionInSong DEF Block, PositionOK
<1>4. /\ audio' \in [pc : {"idle", "find", "take"}, left : 0 .. Frames,
                  queued : SUBSET (Nat \union {NOTHINGTOQUEUE}),
                  buf : Bufs \union {NoBuffer, CopyBuffer}, shared : BOOLEAN]
      /\ audio'.pc = "take" /\ audio'.left = audio.left /\ audio'.queued = audio.queued
      /\ audio'.buf = CopyBuffer
  BY <1>0, <1>1 DEF CacheTypeOK
<1>5. /\ heard' \in [pos : Nat \union {-1}, value : Values, shared : BOOLEAN, fresh : BOOLEAN]
      /\ PlaysTheSong' /\ MaintenanceIsExact'
  BY <1>0, <1>1, <1>2, NothingHeard
<1>6. audio.left \in 1 .. Frames /\ StartOf[allocentrynum] <= Block
  BY <1>0, <1>1 DEF EntryFound
<1>7. CopyBuffer \notin Bufs
  BY CacheAssumption DEF CopyBuffer, Bufs
<1>8. /\ allocentrynum' \in 0 .. Entries /\ StartOf[allocentrynum'] <= Block
      /\ Block \in SongBlocks
         => /\ allocentrynum' < Entries
            /\ Block < StartOf[allocentrynum'] + Count(allocentrynum')
            /\ audiobuffer'[1] = Block
            /\ Holds(audiobuffer, Block)'
      /\ audiobuffer' \in Values /\ mustreadblock' \in BOOLEAN /\ stale' \subseteq SongBlocks
      /\ audiobuffer'[1] \in SongBlocks => Holds(audiobuffer, audiobuffer[1])'
  <2>1. CASE lastreadblock # Block \/ mustreadblock
    <3>1. /\ allocentrynum' = NextEntry
          /\ audiobuffer' = Content(NextEntry, Block - StartOf[NextEntry])
          /\ mustreadblock' = FALSE /\ stale' = stale \ {Block}
      BY <2>1 DEF FindCopy
    <3>2. /\ NextEntry \in 0 .. Entries /\ StartOf[NextEntry] <= Block
          /\ Block \in SongBlocks
              => NextEntry < Entries /\ Block < StartOf[NextEntry] + Count(NextEntry)
      BY <1>0, <1>1, <1>6, NextEntryIsRight DEF EntryFound
    <3>3. /\ Block < StartOf[NextEntry] + Count(NextEntry)
             => Block \in SongBlocks /\ audiobuffer' = <<Block, drive[Block]>>
          /\ ~(Block < StartOf[NextEntry] + Count(NextEntry)) => audiobuffer' = Elsewhere
          /\ audiobuffer' \in Values
      <4> HIDE DEF NextEntry
      <4> QED BY <1>0, <1>3, <3>1, <3>2, ContentIsABlock
    <3>4. Elsewhere[1] \notin SongBlocks
      BY DEF Elsewhere, SongBlocks
    <3>5. /\ mustreadblock' \in BOOLEAN /\ stale' \subseteq SongBlocks /\ drive' = drive
      BY <1>0, <1>2, <3>1 DEF CacheTypeOK
    <3> HIDE DEF NextEntry
    <3>6. Block \in SongBlocks => audiobuffer'[1] = Block /\ audiobuffer'[2] = drive[Block]
      BY <3>2, <3>3
    <3>7. /\ Block \in SongBlocks => Holds(audiobuffer, Block)'
          /\ audiobuffer'[1] \in SongBlocks => Holds(audiobuffer, audiobuffer[1])'
      <4>1. Block \in SongBlocks => Holds(audiobuffer, Block)'
        BY <1>3, <3>5, <3>6 DEF Holds
      <4>2. audiobuffer'[1] \in SongBlocks => audiobuffer' = <<Block, drive[Block]>>
        BY <3>3, <3>4
      <4>3. audiobuffer'[1] \in SongBlocks
            => audiobuffer'[1] = Block /\ audiobuffer'[2] = drive[Block]
        BY <4>2
      <4> QED BY <3>5, <4>1, <4>3 DEF Holds
    <3> QED BY <3>1, <3>2, <3>3, <3>5, <3>6, <3>7
  <2>2. CASE ~(lastreadblock # Block \/ mustreadblock)
    <3>1. UNCHANGED <<allocentrynum, audiobuffer, mustreadblock, stale>>
      BY <2>2 DEF FindCopy
    <3>2. lastreadblock = Block /\ ~mustreadblock
      BY <2>2
    <3>3. Block \in SongBlocks => audiobuffer[1] = Block /\ Holds(audiobuffer, Block)
      BY <1>0, <1>1, <3>2 DEF CopyHolds
    <3>4. Block \in SongBlocks => OnEntry
      BY <1>0, <1>1, <3>2 DEF EntryFound
    <3>5. audiobuffer[1] \in SongBlocks => Holds(audiobuffer, audiobuffer[1])
      BY <1>0 DEF CopyHolds
    <3>6. /\ allocentrynum' \in 0 .. Entries /\ audiobuffer' \in Values
          /\ mustreadblock' \in BOOLEAN /\ stale' \subseteq SongBlocks /\ drive' = drive
      BY <1>0, <1>2, <3>1 DEF CacheTypeOK
    <3>7. Block \in SongBlocks => Holds(audiobuffer, Block)'
      BY <1>3, <3>1, <3>3, <3>6 DEF Holds
    <3>8. audiobuffer'[1] \in SongBlocks => Holds(audiobuffer, audiobuffer[1])'
      BY <3>1, <3>5, <3>6 DEF Holds
    <3> QED BY <1>6, <3>1, <3>3, <3>4, <3>6, <3>7, <3>8 DEF OnEntry
  <2> QED BY <2>1, <2>2
<1>9. CacheTypeOK'
  BY <1>0, <1>1, <1>2, <1>4, <1>5, <1>8 DEF CacheTypeOK
<1>10. NoBlockCachedTwice' /\ PollAnnounced'
  BY <1>2 DEF PlayIInv, NoBlockCachedTwice, PollAnnounced
<1>11. BuffersHold'
  <2>1. \A i \in Bufs : cachebuf_blocknum'[i] = -1
    BY <1>0, <1>1, <1>2 DEF MaintenanceQuiet, CACHEBLOCK_UNUSED
  <2>2. -1 \notin SongBlocks
    BY TotalIsNat DEF SongBlocks
  <2> QED BY <2>1, <2>2 DEF BuffersHold
<1>12. MaintenanceQuiet' /\ RealtimeQuiet'
  BY <1>0, <1>1, <1>2, <1>4 DEF MaintenanceQuiet, RealtimeQuiet
<1>13. CopyHolds'
  BY <1>4, <1>8 DEF CopyHolds, Holds
<1>14. EntryFound'
  BY <1>3, <1>4, <1>6, <1>8 DEF EntryFound, OnEntry
<1>15. BufferFound'
  BY <1>1, <1>2, <1>3, <1>4, <1>7, <1>8 DEF BufferFound
<1>16. CursorOnEntry'
  BY <1>4 DEF CursorOnEntry
<1> QED BY <1>5, <1>9, <1>10, <1>11, <1>12, <1>13, <1>14, <1>15, <1>16 DEF PlayIInv

\* The search finds the one buffer that is announced to hold the block.
LEMMA CachedBufferIsRight ==
    ASSUME CacheTypeOK, NoBlockCachedTwice, NEW k \in Nat
    PROVE  /\ CachedBuffer(k) \in Bufs \union {NoBuffer}
           /\ CachedBuffer(k) \in Bufs => cachebuf_blocknum[CachedBuffer(k)] = k
<1>0. Buffers \in Nat \ {0}
  BY CacheAssumption
<1>1. CASE Cached(k)
  <2>1. PICK i \in Bufs : cachebuf_blocknum[i] = k
    BY <1>1 DEF Cached
  <2>2. \A j \in Bufs : cachebuf_blocknum[j] = k => j = i
    BY <2>1 DEF NoBlockCachedTwice, CACHEBLOCK_UNUSED
  <2>3. \A j \in Bufs : cachebuf_blocknum[j] = k => j <= i
    BY <1>0, <2>2 DEF Bufs
  <2>4. CachedBuffer(k) = CHOOSE x \in Bufs : /\ cachebuf_blocknum[x] = k
                             /\ \A j \in Bufs : cachebuf_blocknum[j] = k => j <= x
    BY <1>1 DEF CachedBuffer
  <2>5. \E x \in Bufs : /\ cachebuf_blocknum[x] = k
                        /\ \A j \in Bufs : cachebuf_blocknum[j] = k => j <= x
    BY <2>1, <2>3
  <2> QED BY <2>4, <2>5
<1>2. CASE ~Cached(k)
  <2>1. CachedBuffer(k) = NoBuffer /\ NoBuffer \notin Bufs
    BY <1>0, <1>2 DEF CachedBuffer, NoBuffer, Bufs
  <2> QED BY <2>1
<1> QED BY <1>1, <1>2

Askable == Nat \union {NOTHINGTOQUEUE}

\* What is asked for: the block, the one behind it, and the one before it,
\* which is no block for the first.
LEMMA RequestsType ==
    ASSUME NEW k \in Nat
    PROVE  Requests(k) \in Seq(Askable)
<1>1. k \in Askable /\ k + 1 \in Askable /\ k - 1 \in Askable
  BY DEF Askable, NOTHINGTOQUEUE
<1> DEFINE a == IF k > 0 /\ Cached(k - 1) THEN <<>> ELSE <<k - 1>>
           b == IF Cached(k + 1) THEN <<>> ELSE <<k + 1>>
           c == IF Cached(k) THEN <<>> ELSE <<k>>
<1>2. a \in Seq(Askable) /\ b \in Seq(Askable) /\ c \in Seq(Askable)
  BY <1>1
<1>3. Requests(k) = a \o b \o c
  BY DEF Requests
<1> HIDE DEF a, b, c
<1> QED BY <1>2, <1>3

\* The callback finds the block in a buffer or asks for it.
LEMMA FindCachedKeeps ==
    ASSUME PlayIInv, UNCHANGED fixedVars, FindCached
    PROVE  PlayIInv'
<1>0. /\ CacheTypeOK /\ EntryFound /\ CopyHolds /\ BuffersHold
      /\ RealtimeQuiet /\ NoBlockCachedTwice /\ PollAnnounced
  BY DEF PlayIInv
<1> DEFINE b == CachedBuffer(Block)
           asked == {Requests(Block)[i] : i \in DOMAIN Requests(Block)}
           sharing == poll.pc = "read" /\ b = currcachebufnum
<1>1. /\ audio.pc = "find" /\ maintenance = FALSE
      /\ currentreadmode' = "realtime" /\ allocentrynum' = NextEntry
      /\ audio' = [audio EXCEPT !.pc = "take", !.buf = b, !.queued = asked, !.shared = sharing]
      /\ heard' = Nothing
      /\ blocktoqueue' = IF Requests(Block) = <<>> THEN blocktoqueue
                         ELSE Requests(Block)[Len(Requests(Block))]
  BY <1>0 DEF FindCached, EnterRealtime, CacheTypeOK, QueueCacheBlocks
<1>2. UNCHANGED <<drive, cachebuf_blocknum, cachebuf, currcachebufnum, poll, stale,
                  transfers, lastreadblock, mustreadblock, audiobuffer, songcursor,
                  length, maintenance>>
  BY DEF FindCached, pollVars, fixedVars
<1>3. Block' = Block /\ Block \in Nat
  BY <1>0, <1>2, PositionInSong DEF Block, PositionOK
<1>4. b \in Bufs \union {NoBuffer} /\ (b \in Bufs => cachebuf_blocknum[b] = Block)
  BY <1>0, <1>3, CachedBufferIsRight
<1>5. asked \in SUBSET Askable /\ blocktoqueue' \in Askable
  <2>1. Requests(Block) \in Seq(Askable)
    BY <1>3, RequestsType
  <2>2. blocktoqueue \in Askable
    BY <1>0 DEF CacheTypeOK, Askable
  <2> DEFINE r == Requests(Block)
  <2>3. asked = {r[i] : i \in DOMAIN r} /\ r \in Seq(Askable)
        /\ blocktoqueue' = IF r = <<>> THEN blocktoqueue ELSE r[Len(r)]
    BY <1>1, <2>1
  <2> HIDE DEF r, asked
  <2>4. \A i \in DOMAIN r : r[i] \in Askable
    BY <2>3
  <2>5. r # <<>> => Len(r) \in DOMAIN r
    BY <2>3
  <2> QED BY <2>2, <2>3, <2>4, <2>5
<1>6. sharing \in BOOLEAN
  BY DEF sharing
<1> HIDE DEF b, asked, sharing
<1>7. /\ audio' \in [pc : {"idle", "find", "take"}, left : 0 .. Frames,
                  queued : SUBSET (Nat \union {NOTHINGTOQUEUE}),
                  buf : Bufs \union {NoBuffer, CopyBuffer}, shared : BOOLEAN]
      /\ audio'.pc = "take" /\ audio'.left = audio.left
      /\ audio'.buf = b /\ audio'.shared = sharing
  BY <1>0, <1>1, <1>4, <1>5, <1>6 DEF CacheTypeOK, Askable
<1>8. /\ heard' \in [pos : Nat \union {-1}, value : Values, shared : BOOLEAN, fresh : BOOLEAN]
      /\ PlaysTheSong' /\ MaintenanceIsExact'
  BY <1>0, <1>1, <1>2, NothingHeard
<1>9. /\ NextEntry \in 0 .. Entries /\ StartOf[NextEntry] <= Block
      /\ Block \in SongBlocks
         => NextEntry < Entries /\ Block < StartOf[NextEntry] + Count(NextEntry)
  BY <1>0, <1>1, NextEntryIsRight DEF EntryFound
<1>10. CacheTypeOK'
  BY <1>0, <1>1, <1>2, <1>5, <1>7, <1>8, <1>9 DEF CacheTypeOK, Askable
<1>11. NoBlockCachedTwice' /\ BuffersHold' /\ PollAnnounced'
  BY <1>2, BuffersUntouched
<1>12. MaintenanceQuiet' /\ RealtimeQuiet'
  BY <1>0, <1>1, <1>2 DEF MaintenanceQuiet, RealtimeQuiet
<1>13. CopyHolds'
  BY <1>0, <1>1, <1>2 DEF CopyHolds, Holds
<1>14. EntryFound'
  <2>1. audio.left \in 1 .. Frames
    BY <1>0, <1>1 DEF EntryFound
  <2> HIDE DEF NextEntry
  <2> QED BY <1>1, <1>3, <1>7, <1>9, <2>1 DEF EntryFound, OnEntry
<1>15. BufferFound'
  <2>1. CopyBuffer \notin Bufs /\ CopyBuffer # NoBuffer
    BY CacheAssumption DEF CopyBuffer, NoBuffer, Bufs
  <2>2. b # CopyBuffer
    BY <1>4, <2>1
  <2>3. b \in Bufs /\ ~sharing => ~Filling(b)
    BY DEF Filling, sharing
  <2>4. maintenance' = FALSE /\ cachebuf_blocknum' = cachebuf_blocknum
    BY <1>1, <1>2
  <2>5. b \in Bufs /\ ~sharing => cachebuf_blocknum'[b] = Block'
                               /\ ~(poll'.pc = "read" /\ b = currcachebufnum')
    BY <1>2, <1>3, <1>4, <2>3 DEF Filling
  <2> QED BY <1>7, <2>2, <2>4, <2>5 DEF BufferFound, Filling
<1>16. CursorOnEntry'
  BY <1>7 DEF CursorOnEntry
<1> QED BY <1>8, <1>10, <1>11, <1>12, <1>13, <1>14, <1>15, <1>16 DEF PlayIInv

\* The sample played is the one of the cursor, and the cursor goes on to the
\* next sample, which is in this block or the next.
LEMMA TakeSampleKeeps ==
    ASSUME PlayIInv, UNCHANGED fixedVars, TakeSample
    PROVE  PlayIInv'
<1>0. /\ CacheTypeOK /\ EntryFound /\ CopyHolds /\ BuffersHold /\ BufferFound
      /\ MaintenanceQuiet /\ RealtimeQuiet
  BY DEF PlayIInv
<1> DEFINE value == IF audio.buf = NoBuffer THEN Silence
                    ELSE IF audio.buf = CopyBuffer THEN audiobuffer
                    ELSE cachebuf[audio.buf]
<1>1. /\ audio.pc = "take"
      /\ heard' = [pos |-> songcursor, value |-> value,
                   shared |-> audio.shared, fresh |-> Block \notin stale]
      /\ lastreadblock' = IF maintenance THEN Block ELSE lastreadblock
      /\ songcursor' = songcursor + 1
      /\ audio' = IF audio.left = 1 THEN AudioIdle
                  ELSE [AudioIdle EXCEPT !.pc = "find", !.left = audio.left - 1]
  BY DEF TakeSample
<1>2. UNCHANGED <<drive, cachebuf_blocknum, cachebuf, currcachebufnum, poll, blocktoqueue,
                  currentreadmode, transfers, stale, mustreadblock, audiobuffer,
                  allocentrynum, length, maintenance>>
  BY DEF TakeSample, pollVars, fixedVars
<1>3. PositionOK /\ songcursor \in Nat /\ length \in Nat
  BY <1>0, PositionInSong, CacheAssumption DEF CacheTypeOK
<1>4. /\ Block' \in {Block, Block + 1} /\ Block \in Nat /\ Block' \in Nat
  BY <1>1, <1>3, BlocksOfSamples DEF Block, PositionOK
<1>5. value \in Values /\ audio.shared \in BOOLEAN
  <2>1. /\ audiobuffer \in Values /\ cachebuf \in [Bufs -> Values] /\ Silence \in Values
        /\ audio.buf \in Bufs \union {NoBuffer, CopyBuffer} /\ audio.shared \in BOOLEAN
    BY <1>0 DEF CacheTypeOK, Values
  <2> QED BY <2>1
<1>6. Block \in SongBlocks
      => \/ value = Silence /\ ~maintenance
         \/ audio.shared /\ ~maintenance
         \/ value[1] = Block /\ (Block \notin stale => value[2] = drive[Block])
  <2>1. CASE maintenance
    <3>1. audio.buf = CopyBuffer /\ CopyBuffer # NoBuffer
      BY <1>0, <1>1, <2>1 DEF BufferFound, CopyBuffer, NoBuffer
    <3>2. value = audiobuffer
      BY <3>1
    <3>3. Block \in SongBlocks => audiobuffer[1] = Block
      BY <1>0, <1>1, <2>1 DEF BufferFound
    <3>4. Block \in SongBlocks => Holds(audiobuffer, Block)
      BY <1>0, <3>3 DEF CopyHolds
    <3> QED BY <3>2, <3>4 DEF Holds
  <2>2. CASE ~maintenance
    <3>1. audio.buf \in Bufs \union {NoBuffer} /\ CopyBuffer \notin Bufs /\ NoBuffer \notin Bufs
      BY <1>0, <1>1, <2>2, CacheAssumption DEF BufferFound, CacheTypeOK, CopyBuffer, NoBuffer, Bufs
    <3>2. CASE audio.buf = NoBuffer
      BY <2>2, <3>2
    <3>3. CASE audio.buf \in Bufs
      <4>1. value = cachebuf[audio.buf]
        BY <3>1, <3>3
      <4>2. audio.shared \/ (cachebuf_blocknum[audio.buf] = Block /\ ~Filling(audio.buf))
        BY <1>0, <1>1, <3>3 DEF BufferFound
      <4>3. Block \in SongBlocks /\ ~audio.shared => Holds(cachebuf[audio.buf], Block)
        BY <1>0, <3>3, <4>2 DEF BuffersHold
      <4> QED BY <2>2, <4>1, <4>3 DEF Holds
    <3> QED BY <3>1, <3>2, <3>3
  <2> QED BY <2>1, <2>2
<1> HIDE DEF value
<1>7. /\ heard'.pos = songcursor /\ heard'.value = value /\ heard'.shared = audio.shared
      /\ heard'.fresh <=> Block \notin stale
      /\ heard' \in [pos : Nat \union {-1}, value : Values, shared : BOOLEAN, fresh : BOOLEAN]
  BY <1>1, <1>3, <1>5
<1>8. BlockAt(heard'.pos) = Block
  BY <1>7 DEF Block
<1>9. songcursor \in 0 .. length - 1 => Block \in SongBlocks
  BY <1>3 DEF PositionOK
<1>10. PlaysTheSong'
  BY <1>2, <1>6, <1>7, <1>8, <1>9 DEF PlaysTheSong
<1>11. MaintenanceIsExact'
  BY <1>2, <1>6, <1>7, <1>8, <1>9 DEF MaintenanceIsExact
<1>12. /\ audio' \in [pc : {"idle", "find", "take"}, left : 0 .. Frames,
                  queued : SUBSET (Nat \union {NOTHINGTOQUEUE}),
                  buf : Bufs \union {NoBuffer, CopyBuffer}, shared : BOOLEAN]
       /\ audio'.pc \in {"idle", "find"} /\ audio'.queued = {}
       /\ audio'.pc = "find" => audio'.left \in 1 .. Frames - 1
  <2>1. audio.left \in 1 .. Frames /\ Frames \in Nat
    BY <1>0, <1>1, CacheAssumption DEF EntryFound
  <2>2. CASE audio.left = 1
    <3>1. audio' = [pc |-> "idle", left |-> 0, queued |-> {}, buf |-> NoBuffer, shared |-> FALSE]
      BY <1>1, <2>2 DEF AudioIdle
    <3> QED BY <2>1, <3>1
  <2>3. CASE audio.left # 1
    <3>1. audio' = [pc |-> "find", left |-> audio.left - 1, queued |-> {},
                    buf |-> NoBuffer, shared |-> FALSE]
      BY <1>1, <2>3 DEF AudioIdle
    <3>2. audio.left - 1 \in 1 .. Frames - 1 /\ audio.left - 1 \in 0 .. Frames
      BY <2>1, <2>3
    <3> QED BY <3>1, <3>2
  <2> QED BY <2>2, <2>3
<1>13. CacheTypeOK'
  <2>1. lastreadblock' \in Nat /\ songcursor' \in Nat
    BY <1>0, <1>1, <1>3, <1>4 DEF CacheTypeOK
  <2> QED BY <1>0, <1>2, <1>7, <1>12, <2>1 DEF CacheTypeOK
<1>14. NoBlockCachedTwice' /\ BuffersHold' /\ PollAnnounced'
  BY <1>2, BuffersUntouched
<1>15. MaintenanceQuiet' /\ RealtimeQuiet'
  BY <1>0, <1>1, <1>2, <1>12 DEF MaintenanceQuiet, RealtimeQuiet
<1>16. CopyHolds'
  <2>1. maintenance /\ Block \in SongBlocks => audiobuffer[1] = Block
    BY <1>0, <1>1 DEF BufferFound
  <2>2. maintenance => lastreadblock' = Block
    BY <1>1
  <2>3. audiobuffer[1] \in SongBlocks => Holds(audiobuffer, audiobuffer[1])
    BY <1>0 DEF CopyHolds
  <2> QED BY <1>2, <2>1, <2>2, <2>3 DEF CopyHolds, Holds
<1>17. EntryFound'
  <2>1. /\ StartOf[allocentrynum] <= Block
        /\ Block \in SongBlocks
           => allocentrynum < Entries /\ Block < StartOf[allocentrynum] + Count(allocentrynum)
    BY <1>0, <1>1 DEF EntryFound, OnEntry
  <2>2. StartOf[allocentrynum] \in Nat /\ Count(allocentrynum) \in Nat
    <3>1. allocentrynum \in 0 .. Entries
      BY <1>0 DEF CacheTypeOK
    <3>2. allocentrynum \in Nat
      BY <3>1, Counts
    <3>3. Count(allocentrynum) \in Nat
      BY <3>2, Counts
    <3> QED BY <3>1, <3>3, StartIsNat
  <2>3. StartOf[allocentrynum] <= Block'
    BY <1>4, <2>1, <2>2
  <2>4. Block' \in SongBlocks => Block \in SongBlocks
    BY <1>4, TotalIsNat DEF SongBlocks
  <2>5. Block' \in SongBlocks
        => /\ allocentrynum < Entries
           /\ Block' <= StartOf[allocentrynum] + Count(allocentrynum)
           /\ Block' = Block => Block' < StartOf[allocentrynum] + Count(allocentrynum)
    BY <1>4, <2>1, <2>2, <2>4
  <2>6. maintenance => lastreadblock' = Block
    BY <1>1
  <2>7. audio'.left \in 1 .. Frames \/ audio'.pc = "idle"
    BY <1>12, CacheAssumption
  <2> QED BY <1>2, <1>12, <2>3, <2>5, <2>6, <2>7 DEF EntryFound, OnEntry
<1>18. BufferFound'
  BY <1>12 DEF BufferFound
<1>19. CursorOnEntry'
  BY <1>12, CacheAssumption DEF CursorOnEntry
<1> QED BY <1>10, <1>11, <1>13, <1>14, <1>15, <1>16, <1>17, <1>18, <1>19 DEF PlayIInv

\* The poll announces a block: the buffer no longer holds what it held, and a
\* sample being taken from it is marked.
LEMMA PollRequestKeepsPlay ==
    ASSUME PlayIInv, UNCHANGED fixedVars, NEW k \in 0 .. Total, PollRequest(k)
    PROVE  PlayIInv'
<1>0. /\ CacheTypeOK /\ EntryFound /\ CopyHolds /\ BuffersHold /\ BufferFound
      /\ MaintenanceQuiet /\ RealtimeQuiet /\ PlaysTheSong /\ MaintenanceIsExact
      /\ CursorOnEntry /\ NoBlockCachedTwice
  BY DEF PlayIInv
<1>1. /\ poll.pc = "idle" /\ k # NOTHINGTOQUEUE
      /\ k = blocktoqueue \/ k \in audio.queued
  BY DEF PollRequest
<1>2. UNCHANGED <<drive, cachebuf, currcachebufnum, blocktoqueue, currentreadmode, transfers,
                  stale, lastreadblock, mustreadblock, audiobuffer, songcursor,
                  allocentrynum, heard, length, maintenance>>
  BY DEF PollRequest, playVars, fixedVars
<1>3. k \in Nat /\ k \in Int
  BY TotalIsNat
<1>4. ~maintenance
  BY <1>0, <1>1 DEF MaintenanceQuiet
<1>5. Block' = Block
  BY <1>2 DEF Block
<1>6. CacheIInv
  BY <1>0 DEF CacheIInv, LabelsOK, CacheTypeOK, CACHEBLOCK_UNUSED
<1>7. NoBlockCachedTwice'
  BY <1>3, <1>6, PollRequestKeeps DEF CacheIInv
<1>8. /\ audio' \in [pc : {"idle", "find", "take"}, left : 0 .. Frames,
                  queued : SUBSET (Nat \union {NOTHINGTOQUEUE}),
                  buf : Bufs \union {NoBuffer, CopyBuffer}, shared : BOOLEAN]
      /\ audio'.pc = audio.pc /\ audio'.left = audio.left /\ audio'.buf = audio.buf
      /\ ~audio'.shared => ~audio.shared
      /\ poll' \in [pc : {"idle", "read", "clear"}, block : Nat \union {NOTHINGTOQUEUE}]
      /\ poll'.block = k
      /\ cachebuf_blocknum' \in [Bufs -> Nat \union {CACHEBLOCK_UNUSED}]
      /\ \/ poll'.pc = "clear" /\ cachebuf_blocknum' = cachebuf_blocknum
         \/ /\ poll'.pc = "read"
            /\ cachebuf_blocknum' = [cachebuf_blocknum EXCEPT ![currcachebufnum] = k]
            /\ ~audio'.shared => audio.buf # currcachebufnum
  <2>1. CASE AlreadyCached(k)
    BY <1>0, <1>3, <2>1 DEF PollRequest, CacheTypeOK
  <2>2. CASE ~AlreadyCached(k)
    <3>1. /\ poll' = [pc |-> "read", block |-> k]
          /\ cachebuf_blocknum' = [cachebuf_blocknum EXCEPT ![currcachebufnum] = k]
          /\ audio' = [audio EXCEPT !.shared = audio.shared \/ audio.buf = currcachebufnum]
      BY <2>2 DEF PollRequest
    <3> DEFINE sharing == audio.shared \/ audio.buf = currcachebufnum
    <3>2. audio' = [audio EXCEPT !.shared = sharing] /\ sharing \in BOOLEAN
      BY <1>0, <3>1 DEF CacheTypeOK
    <3>3. ~sharing => ~audio.shared /\ audio.buf # currcachebufnum
      OBVIOUS
    <3> HIDE DEF sharing
    <3>4. /\ audio' \in [pc : {"idle", "find", "take"}, left : 0 .. Frames,
                  queued : SUBSET (Nat \union {NOTHINGTOQUEUE}),
                  buf : Bufs \union {NoBuffer, CopyBuffer}, shared : BOOLEAN]
          /\ audio'.pc = audio.pc /\ audio'.left = audio.left /\ audio'.buf = audio.buf
          /\ audio'.shared = sharing
      BY <1>0, <3>2 DEF CacheTypeOK
    <3>5. cachebuf_blocknum' \in [Bufs -> Nat \union {CACHEBLOCK_UNUSED}]
      BY <1>0, <1>3, <3>1 DEF CacheTypeOK
    <3> QED BY <1>3, <3>1, <3>3, <3>4, <3>5
  <2> QED BY <2>1, <2>2
<1>9. CacheTypeOK'
  BY <1>0, <1>2, <1>8 DEF CacheTypeOK
<1>10. BuffersHold'
  <2>1. currcachebufnum \in Bufs /\ cachebuf_blocknum \in [Bufs -> Nat \union {CACHEBLOCK_UNUSED}]
    BY <1>0 DEF CacheTypeOK
  <2>2. ASSUME NEW i \in Bufs, ~(poll'.pc = "read" /\ i = currcachebufnum)
        PROVE  cachebuf_blocknum'[i] = cachebuf_blocknum[i]
    BY <1>8, <2>1, <2>2
  <2>3. \A i \in Bufs : ~Filling(i)
    BY <1>1 DEF Filling
  <2> QED BY <1>0, <1>2, <2>2, <2>3 DEF BuffersHold, Filling, Holds
<1>11. PollAnnounced'
  BY <1>0, <1>2, <1>8 DEF PollAnnounced, CacheTypeOK
<1>12. MaintenanceQuiet' /\ RealtimeQuiet'
  BY <1>0, <1>2, <1>4 DEF MaintenanceQuiet, RealtimeQuiet
<1>13. CopyHolds'
  BY <1>0, <1>2, <1>4 DEF CopyHolds, Holds
<1>14. EntryFound'
  BY <1>0, <1>2, <1>5, <1>8 DEF EntryFound, OnEntry
<1>15. BufferFound'
  <2>1. audio.pc = "take" /\ audio.buf \in Bufs /\ ~audio.shared
        => cachebuf_blocknum[audio.buf] = Block
    BY <1>0 DEF BufferFound
  <2>2. audio.pc = "take" => audio.buf # CopyBuffer
    BY <1>0, <1>4 DEF BufferFound
  <2>3. audio.pc = "take" /\ audio.buf \in Bufs /\ ~audio'.shared
        => cachebuf_blocknum'[audio.buf] = Block /\ ~Filling(audio.buf)'
    <3>1. currcachebufnum \in Bufs /\ cachebuf_blocknum \in [Bufs -> Nat \union {CACHEBLOCK_UNUSED}]
      BY <1>0 DEF CacheTypeOK
    <3> QED BY <1>2, <1>8, <2>1, <3>1 DEF Filling
  <2> QED BY <1>2, <1>4, <1>5, <1>8, <2>2, <2>3 DEF BufferFound, Filling
<1>16. CursorOnEntry'
  BY <1>0, <1>2, <1>5, <1>8 DEF CursorOnEntry
<1>17. PlaysTheSong' /\ MaintenanceIsExact'
  BY <1>0, <1>2 DEF PlaysTheSong, MaintenanceIsExact
<1> QED BY <1>7, <1>9, <1>10, <1>11, <1>12, <1>13, <1>14, <1>15, <1>16, <1>17 DEF PlayIInv

\* The block announced is read: the buffer holds what it is said to hold.
LEMMA LoadBlockKeepsPlay ==
    ASSUME PlayIInv, UNCHANGED fixedVars, LoadBlock
    PROVE  PlayIInv'
<1>0. /\ CacheTypeOK /\ EntryFound /\ CopyHolds /\ BuffersHold /\ BufferFound
      /\ MaintenanceQuiet /\ RealtimeQuiet /\ PlaysTheSong /\ MaintenanceIsExact
      /\ CursorOnEntry /\ NoBlockCachedTwice /\ PollAnnounced
  BY DEF PlayIInv
<1> DEFINE k == poll.block
<1>1. /\ poll.pc = "read"
      /\ cachebuf' = [cachebuf EXCEPT ![currcachebufnum] = Loaded(k)]
      /\ currcachebufnum' = NextBuffer
      /\ stale' = stale \ {k}
      /\ poll' = [poll EXCEPT !.pc = "clear"]
  BY DEF LoadBlock
<1>2. UNCHANGED <<drive, cachebuf_blocknum, blocktoqueue, currentreadmode, transfers, audio,
                  lastreadblock, mustreadblock, audiobuffer, songcursor,
                  allocentrynum, heard, length, maintenance>>
  BY DEF LoadBlock, playVars, fixedVars
<1>3. k \in 0 .. Total /\ cachebuf_blocknum[currcachebufnum] = k
  BY <1>0, <1>1 DEF PollAnnounced
<1>4. ~maintenance
  BY <1>0, <1>1 DEF MaintenanceQuiet
<1>5. Block' = Block
  BY <1>2 DEF Block
<1>6. currcachebufnum \in Bufs /\ currcachebufnum' \in Bufs
  BY <1>0, <1>1, NextBufferIsABuffer DEF CacheTypeOK
<1>7. /\ poll' \in [pc : {"idle", "read", "clear"}, block : Nat \union {NOTHINGTOQUEUE}]
      /\ poll'.pc = "clear"
  BY <1>0, <1>1 DEF CacheTypeOK
<1>8. Loaded(k) \in Values /\ (k \in SongBlocks => Loaded(k) = <<k, drive[k]>>)
  BY <1>0, <1>3, LoadedIsTheBlock
<1> HIDE DEF k
<1>9. CacheTypeOK'
  <2>1. cachebuf' \in [Bufs -> Values] /\ stale' \subseteq SongBlocks
    BY <1>0, <1>1, <1>8 DEF CacheTypeOK
  <2> QED BY <1>0, <1>2, <1>6, <1>7, <2>1 DEF CacheTypeOK
<1>10. NoBlockCachedTwice' /\ PollAnnounced'
  BY <1>0, <1>2, <1>7 DEF NoBlockCachedTwice, PollAnnounced
<1>11. BuffersHold'
  <2>0. cachebuf \in [Bufs -> Values]
    BY <1>0 DEF CacheTypeOK
  <2>1. ASSUME NEW i \in Bufs, cachebuf_blocknum'[i] \in SongBlocks
        PROVE  Holds(cachebuf[i], cachebuf_blocknum[i])'
    <3>1. CASE i = currcachebufnum
      <4>1. cachebuf'[i] = Loaded(k) /\ cachebuf_blocknum'[i] = k
        BY <1>1, <1>2, <1>3, <2>0, <3>1
      <4>2. cachebuf'[i] = <<k, drive[k]>>
        BY <1>8, <2>1, <4>1
      <4>3. cachebuf'[i][1] = k /\ cachebuf'[i][2] = drive'[k]
        BY <1>2, <4>2
      <4> QED BY <4>1, <4>3 DEF Holds
    <3>2. CASE i # currcachebufnum
      <4>1. cachebuf'[i] = cachebuf[i] /\ cachebuf_blocknum'[i] = cachebuf_blocknum[i]
        BY <1>1, <1>2, <2>0, <3>2
      <4>2. Holds(cachebuf[i], cachebuf_blocknum[i])
        BY <1>0, <2>1, <3>2, <4>1 DEF BuffersHold, Filling
      <4>3. cachebuf_blocknum[i] # k
        <5>1. k # CACHEBLOCK_UNUSED
          BY <1>3, TotalIsNat DEF CACHEBLOCK_UNUSED
        <5> QED BY <1>0, <1>3, <1>6, <3>2, <5>1 DEF NoBlockCachedTwice
      <4> QED BY <1>1, <1>2, <4>1, <4>2, <4>3 DEF Holds
    <3> QED BY <3>1, <3>2
  <2> QED BY <2>1 DEF BuffersHold
<1>12. MaintenanceQuiet' /\ RealtimeQuiet'
  BY <1>0, <1>2, <1>4 DEF MaintenanceQuiet, RealtimeQuiet
<1>13. CopyHolds'
  <2>1. audiobuffer'[1] \notin SongBlocks
    BY <1>0, <1>2, <1>4 DEF RealtimeQuiet, Elsewhere, SongBlocks
  <2> QED BY <1>2, <1>4, <2>1 DEF CopyHolds
<1>14. EntryFound'
  BY <1>0, <1>2, <1>5 DEF EntryFound, OnEntry
<1>15. BufferFound'
  BY <1>0, <1>2, <1>4, <1>5, <1>7 DEF BufferFound, Filling
<1>16. CursorOnEntry'
  BY <1>0, <1>2, <1>5 DEF CursorOnEntry
<1>17. PlaysTheSong' /\ MaintenanceIsExact'
  BY <1>0, <1>2 DEF PlaysTheSong, MaintenanceIsExact
<1> QED BY <1>9, <1>10, <1>11, <1>12, <1>13, <1>14, <1>15, <1>16, <1>17 DEF PlayIInv

\* A step of the slot, the mode or the counter alone.
LEMMA SlotStepKeeps ==
    ASSUME PlayIInv,
           UNCHANGED <<fixedVars, drive, cachebuf_blocknum, cachebuf, currcachebufnum,
                       stale, audio, playVars>>,
           poll' = poll \/ (poll.pc # "read" /\ poll' = PollIdle),
           blocktoqueue' \in {blocktoqueue, NOTHINGTOQUEUE},
           currentreadmode' \in {"copy", "realtime", "write"},
           transfers' \in 0 .. MaxTransfers
    PROVE  PlayIInv'
<1>0. /\ CacheTypeOK /\ EntryFound /\ CopyHolds /\ BuffersHold /\ BufferFound
      /\ MaintenanceQuiet /\ RealtimeQuiet /\ PlaysTheSong /\ MaintenanceIsExact
      /\ CursorOnEntry /\ NoBlockCachedTwice /\ PollAnnounced
  BY DEF PlayIInv
<1>1. UNCHANGED <<length, maintenance, drive, cachebuf_blocknum, cachebuf, currcachebufnum,
                  stale, audio, lastreadblock, mustreadblock, audiobuffer, songcursor,
                  allocentrynum, heard>>
  BY DEF fixedVars, playVars
<1>2. Block' = Block
  BY <1>1 DEF Block
<1>3. /\ poll' \in [pc : {"idle", "read", "clear"}, block : Nat \union {NOTHINGTOQUEUE}]
      /\ poll'.pc = "read" <=> poll.pc = "read"
      /\ poll'.pc = "read" => poll' = poll
      /\ poll.pc = "idle" => poll'.pc = "idle"
  BY <1>0 DEF PollIdle, CacheTypeOK
<1>4. blocktoqueue' \in Nat \union {NOTHINGTOQUEUE}
  BY <1>0 DEF CacheTypeOK
<1>5. CacheTypeOK'
  BY <1>0, <1>1, <1>3, <1>4 DEF CacheTypeOK
<1>6. NoBlockCachedTwice' /\ PollAnnounced'
  BY <1>0, <1>1, <1>3 DEF NoBlockCachedTwice, PollAnnounced
<1>7. BuffersHold'
  BY <1>0, <1>1, <1>3 DEF BuffersHold, Filling, Holds
<1>8. MaintenanceQuiet' /\ RealtimeQuiet' /\ CopyHolds'
  BY <1>0, <1>1, <1>3 DEF MaintenanceQuiet, RealtimeQuiet, CopyHolds, Holds
<1>9. EntryFound' /\ CursorOnEntry'
  BY <1>0, <1>1, <1>2 DEF EntryFound, OnEntry, CursorOnEntry
<1>10. BufferFound'
  BY <1>0, <1>1, <1>2, <1>3 DEF BufferFound, Filling
<1>11. PlaysTheSong' /\ MaintenanceIsExact'
  BY <1>0, <1>1 DEF PlaysTheSong, MaintenanceIsExact
<1> QED BY <1>5, <1>6, <1>7, <1>8, <1>9, <1>10, <1>11 DEF PlayIInv

\* A transfer writes a block: what is kept of it is known to be stale.
LEMMA TransferWriteKeeps ==
    ASSUME PlayIInv, UNCHANGED fixedVars, NEW k \in SongBlocks, TransferWrite(k)
    PROVE  PlayIInv'
<1>0. /\ CacheTypeOK /\ EntryFound /\ CopyHolds /\ BuffersHold /\ BufferFound
      /\ MaintenanceQuiet /\ RealtimeQuiet
      /\ CursorOnEntry /\ NoBlockCachedTwice /\ PollAnnounced
  BY DEF PlayIInv
<1>1. /\ transfers < MaxTransfers /\ transfers' = transfers + 1
      /\ currentreadmode' = "write"
      /\ drive' = [drive EXCEPT ![k] = drive[k] + 1]
      /\ stale' = IF Cached(k) \/ audiobuffer[1] = k THEN stale \union {k} ELSE stale
      /\ heard' = Nothing
  BY DEF TransferWrite
<1>2. UNCHANGED <<length, maintenance, cachebuf_blocknum, cachebuf, currcachebufnum, poll,
                  blocktoqueue, audio, lastreadblock, mustreadblock, audiobuffer, songcursor,
                  allocentrynum>>
  BY DEF TransferWrite, pollVars, fixedVars
<1>3. Block' = Block
  BY <1>2 DEF Block
<1>4. /\ heard' \in [pos : Nat \union {-1}, value : Values, shared : BOOLEAN, fresh : BOOLEAN]
      /\ PlaysTheSong' /\ MaintenanceIsExact'
  BY <1>0, <1>1, <1>2, NothingHeard
<1>5. drive' \in [SongBlocks -> Nat] /\ stale' \subseteq SongBlocks
  BY <1>0, <1>1 DEF CacheTypeOK
<1>6. transfers' \in 0 .. MaxTransfers
  BY <1>0, <1>1, CacheAssumption DEF CacheTypeOK
<1>7. CacheTypeOK'
  BY <1>0, <1>1, <1>2, <1>4, <1>5, <1>6 DEF CacheTypeOK
<1>8. ASSUME NEW x, NEW content, x \in SongBlocks, Holds(content, x),
             x = k => k \in stale'
      PROVE  content[1] = x /\ (x \notin stale' => content[2] = drive'[x])
  <2>1. CASE x = k
    BY <1>8, <2>1 DEF Holds
  <2>2. CASE x # k
    <3>1. drive'[x] = drive[x]
      BY <1>0, <1>1, <1>8, <2>2 DEF CacheTypeOK
    <3>2. x \notin stale' => x \notin stale
      BY <1>1
    <3> QED BY <1>8, <3>1, <3>2 DEF Holds
  <2> QED BY <2>1, <2>2
<1>9. BuffersHold'
  <2>1. ASSUME NEW i \in Bufs, cachebuf_blocknum[i] \in SongBlocks, ~Filling(i)
        PROVE  /\ cachebuf[i][1] = cachebuf_blocknum[i]
               /\ cachebuf_blocknum[i] \notin stale'
                  => cachebuf[i][2] = drive'[cachebuf_blocknum[i]]
    <3>1. Holds(cachebuf[i], cachebuf_blocknum[i])
      BY <1>0, <2>1 DEF BuffersHold
    <3>2. cachebuf_blocknum[i] = k => k \in stale'
      BY <1>1 DEF Cached
    <3> QED BY <1>8, <2>1, <3>1, <3>2
  <2> QED BY <1>2, <2>1 DEF BuffersHold, Filling, Holds
<1>10. CopyHolds'
  <2>1. audiobuffer[1] \in SongBlocks
        => (audiobuffer[1] \notin stale' => audiobuffer[2] = drive'[audiobuffer[1]])
    <3>1. audiobuffer[1] \in SongBlocks => Holds(audiobuffer, audiobuffer[1])
      BY <1>0 DEF CopyHolds
    <3>2. audiobuffer[1] = k => k \in stale'
      BY <1>1
    <3> QED BY <1>8, <3>1, <3>2
  <2> QED BY <1>0, <1>2, <2>1 DEF CopyHolds, Holds
<1>11. NoBlockCachedTwice' /\ PollAnnounced'
  BY <1>0, <1>2 DEF NoBlockCachedTwice, PollAnnounced
<1>12. MaintenanceQuiet' /\ RealtimeQuiet'
  BY <1>0, <1>2 DEF MaintenanceQuiet, RealtimeQuiet
<1>13. EntryFound' /\ CursorOnEntry'
  BY <1>0, <1>2, <1>3 DEF EntryFound, OnEntry, CursorOnEntry
<1>14. BufferFound'
  BY <1>0, <1>2, <1>3 DEF BufferFound, Filling
<1> QED BY <1>4, <1>7, <1>9, <1>10, <1>11, <1>12, <1>13, <1>14 DEF PlayIInv

LEMMA PlayStep == PlayIInv /\ [CacheNext]_cacheVars => PlayIInv'
<1> SUFFICES ASSUME PlayIInv, [CacheNext]_cacheVars PROVE PlayIInv'
  OBVIOUS
<1>0. /\ blocktoqueue \in {blocktoqueue, NOTHINGTOQUEUE}
      /\ currentreadmode \in {"copy", "realtime", "write"}
      /\ transfers \in 0 .. MaxTransfers /\ MaxTransfers \in Nat
  BY CacheAssumption DEF PlayIInv, CacheTypeOK
<1>1. CASE CacheNext
  <2>0. UNCHANGED fixedVars
    BY <1>1 DEF CacheNext
  <2>1. CASE \E f \in 0 .. length + 1, n \in {0, Frames} : Callback(f, n)
    BY <2>0, <2>1, CallbackKeeps
  <2>2. CASE FindCopy
    BY <2>0, <2>2, FindCopyKeeps
  <2>3. CASE FindCached
    BY <2>0, <2>3, FindCachedKeeps
  <2>4. CASE TakeSample
    BY <2>0, <2>4, TakeSampleKeeps
  <2>5. CASE \E k \in 0 .. Total : PollRequest(k)
    BY <2>0, <2>5, PollRequestKeepsPlay
  <2>6. CASE LoadBlock
    BY <2>0, <2>6, LoadBlockKeepsPlay
  <2>7. CASE ClearRequest
    <3>1. /\ poll.pc # "read" /\ poll' = PollIdle
          /\ blocktoqueue' = NOTHINGTOQUEUE /\ currentreadmode' = currentreadmode
          /\ transfers' = transfers
          /\ UNCHANGED <<drive, cachebuf_blocknum, cachebuf, currcachebufnum, stale, audio,
                         playVars>>
      BY <2>7 DEF ClearRequest
    <3> QED BY <1>0, <2>0, <3>1, SlotStepKeeps
  <2>8. CASE TransferRead
    <3>1. /\ transfers < MaxTransfers /\ transfers' = transfers + 1
          /\ currentreadmode' = "copy" /\ blocktoqueue' = blocktoqueue /\ poll' = poll
          /\ UNCHANGED <<drive, cachebuf_blocknum, cachebuf, currcachebufnum, stale, audio,
                         playVars>>
      BY <2>8 DEF TransferRead, pollVars
    <3>2. transfers' \in 0 .. MaxTransfers
      BY <1>0, <3>1
    <3> QED BY <1>0, <2>0, <3>1, <3>2, SlotStepKeeps
  <2>9. CASE \E k \in SongBlocks : TransferWrite(k)
    BY <2>0, <2>9, TransferWriteKeeps
  <2> QED BY <1>1, <2>1, <2>2, <2>3, <2>4, <2>5, <2>6, <2>7, <2>8, <2>9 DEF CacheNext
<1>2. CASE UNCHANGED cacheVars
  <2>1. UNCHANGED <<fixedVars, drive, cachebuf_blocknum, cachebuf, currcachebufnum,
                    stale, audio, playVars, poll, blocktoqueue, currentreadmode, transfers>>
    BY <1>2 DEF cacheVars, fixedVars, playVars
  <2> QED BY <1>0, <2>1, SlotStepKeeps
<1> QED BY <1>1, <1>2

\* All of it holds of every behaviour of the two threads.
LEMMA PlayInvariant == CacheSpec => []PlayIInv
  BY PlayInitial, PlayStep, PTL DEF CacheSpec

\* The state is well formed whatever the song, the number of buffers and the
\* interleaving: nothing is read behind the table, the buffers or the song.
THEOREM PlaybackTypeCorrect == CacheSpec => []CacheTypeOK
<1>1. PlayIInv => CacheTypeOK BY DEF PlayIInv
<1> QED BY <1>1, PlayInvariant, PTL

\* A sample played inside the song is silence or the audio of its position,
\* as it is on the drive unless a transfer wrote the block while a buffer kept
\* it, except from a buffer that the poll is filling meanwhile.
THEOREM SamplesAreOfTheSong == CacheSpec => []PlaysTheSong
<1>1. PlayIInv => PlaysTheSong BY DEF PlayIInv
<1> QED BY <1>1, PlayInvariant, PTL

\* In maintenance mode every sample played inside the song is of its block,
\* wherever the extents begin and end.
THEOREM MaintenanceNeverSilent == CacheSpec => []MaintenanceIsExact
<1>1. PlayIInv => MaintenanceIsExact BY DEF PlayIInv
<1> QED BY <1>1, PlayInvariant, PTL

\* Locating puts the allocation cursor on the entry of the block, and off the
\* table only at the end of a song that fills its last block.
THEOREM LocatesTheEntry == CacheSpec => []CursorOnEntry
<1>1. PlayIInv => CursorOnEntry BY DEF PlayIInv
<1> QED BY <1>1, PlayInvariant, PTL
=============================================================================
