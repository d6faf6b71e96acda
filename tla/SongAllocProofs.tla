--------------------------- MODULE SongAllocProofs ---------------------------
(***************************************************************************)
(* Proofs about SongAlloc, for every drive geometry and every number of    *)
(* song sectors.  With callbacks a song may be saved through a project     *)
(* object that has been deleted, and nothing is claimed after that:        *)
(* theorems say ~strayed, or assume ~Reentrant, which implies it (lemma    *)
(* Undisturbed).                                                           *)
(***************************************************************************)
EXTENDS SongAlloc, FiniteSetTheorems, SequenceTheorems, WellFoundedInduction, TLAPS

------------------------------------------------------------------------------
(* What the operators return.                                               *)

\* A set of natural numbers that is not empty has a least element.  The proof
\* goes through the finite sets 1 .. n, which strict inclusion orders well.
LEMMA LeastIsLeast ==
    ASSUME NEW S \in SUBSET Nat, S # {}
    PROVE  Least(S) \in S /\ \A y \in S : Least(S) <= y
<1> DEFINE Upto == {1 .. n : n \in S}
<1>1. \A n \in Nat : IsFiniteSet(1 .. n) /\ 1 .. n \subseteq Nat
  BY FS_Interval
<1>2. Upto \subseteq FiniteSubsetsOf(Nat) /\ Upto # {}
  BY <1>1 DEF FiniteSubsetsOf
<1>3. PICK X \in Upto : \A Y \in Upto : <<Y, X>> \notin StrictSubsetOrdering(Nat)
  <2> HIDE DEF Upto
  <2> QED BY <1>2, FS_StrictSubsetOrderingWellFounded, WFMin, Zenon
<1>4. PICK x \in S : X = 1 .. x
  BY <1>3
<1>5. \A y \in S : x <= y
  <2> SUFFICES ASSUME NEW y \in S, y < x PROVE FALSE
    OBVIOUS
  <2>1. 1 .. y \in Upto /\ 1 .. y \in SUBSET Nat /\ X \in SUBSET Nat
    BY <1>1, <1>4
  <2>2. x \in X /\ x \notin 1 .. y
    BY <1>4
  <2>3. 1 .. y \subseteq X
    BY <1>4
  <2>4. <<1 .. y, X>> \in StrictSubsetOrdering(Nat)
    BY <2>1, <2>2, <2>3 DEF StrictSubsetOrdering
  <2> QED BY <2>1, <2>4, <1>3
<1> QED BY <1>5 DEF Least

\* The audio blocks of an allocation table are a number.
LEMMA AudioBlocksType ==
    ASSUME NEW table \in Table
    PROVE  AudioBlocks(table) \in Nat
<1> DEFINE Listing == {p \in (DOMAIN table) \X Clusters : p[2] \in table[p[1]]}
<1>1. IsFiniteSet(DOMAIN table)
  <2>1. DOMAIN table = 1 .. Len(table) /\ Len(table) \in Nat
    BY LenProperties DEF Table
  <2> QED BY <2>1, FS_Interval
<1>2. IsFiniteSet(Clusters)
  BY SizeAssumption, FS_Interval DEF Clusters
<1>3. IsFiniteSet((DOMAIN table) \X Clusters)
  BY <1>1, <1>2, FS_Product
<1>4. IsFiniteSet(Listing)
  BY <1>3, FS_Subset
<1>5. Cardinality(Listing) \in Nat
  BY <1>4, FS_CardinalityType
<1> HIDE DEF Listing
<1>6. BlocksPerCluster * Cardinality(Listing) \in Nat
  BY <1>5, SizeAssumption
<1> QED BY <1>6 DEF AudioBlocks, Listing

\* The audio blocks a length needs are a number.
LEMMA RequiredBlocksType ==
    ASSUME NEW n \in Nat
    PROVE  RequiredBlocks(n) \in Nat
BY SizeAssumption DEF RequiredBlocks

\* What is read from a song record makes a song object.
LEMMA OpenedType ==
    ASSUME NEW rec \in Record, NEW id \in Nat
    PROVE  Opened(rec, id) \in Object
<1>1. Memoized(RequiredBlocks(rec.len)) \in {0, 1}
  BY DEF Memoized
<1> QED BY <1>1 DEF Opened, Record, Object

LEMMA EmptyRecordType == EmptyRecord \in Record
BY EmptySeq DEF EmptyRecord, Record, Table

\* The word the search finds is a word without a used cluster.
LEMMA FreeWordIsFree ==
    /\ FreeWord \in Words \cup {Undefined}
    /\ FreeWord # Undefined => EmptyWord(FreeWord)
<1> DEFINE A == EmptyWordsFrom(nextfreeclusterword)
           B == EmptyWordsFrom(0)
<1>1. A \in SUBSET Nat /\ B \in SUBSET Nat
  BY DEF EmptyWordsFrom, Words
<1>2. (A # {} => Least(A) \in A) /\ (B # {} => Least(B) \in B)
  <2> HIDE DEF A, B
  <2> QED BY <1>1, LeastIsLeast
<1>3. \A w \in A \cup B : w \in Words /\ EmptyWord(w)
  BY DEF EmptyWordsFrom
<1> HIDE DEF A, B
<1> QED BY <1>2, <1>3 DEF FreeWord, A, B

\* The first cluster of a word is a bit of the table, in that word.
LEMMA WordStart ==
    ASSUME NEW w \in Words
    PROVE  w * WordSize \in Bits /\ w * WordSize \in WordBits(w)
<1>1. w * WordSize \in Nat
  BY SizeAssumption DEF Words
<1>2. w * WordSize <= NumWords * WordSize - WordSize
  <2>1. (NumWords - 1 - w) * WordSize \in Nat
    <3>1. NumWords - 1 - w \in Nat
      BY SizeAssumption DEF Words
    <3> QED BY <3>1, SizeAssumption
  <2>2. (NumWords - 1 - w) * WordSize = NumWords * WordSize - WordSize - w * WordSize
    BY SizeAssumption DEF Words
  <2>3. NumWords * WordSize \in Nat
    BY SizeAssumption
  <2> QED BY <1>1, <2>1, <2>2, <2>3, SizeAssumption
<1>3. w * WordSize \in Bits
  <2>1. NumWords * WordSize \in Nat
    BY SizeAssumption
  <2> QED BY <1>1, <1>2, <2>1, SizeAssumption DEF Bits
<1>4. w * WordSize \in WordBits(w)
  BY <1>1, SizeAssumption DEF WordBits
<1> QED BY <1>3, <1>4

\* What the search for a cluster returns is a bit of the table that is not
\* set, whatever the song object and the last cluster.
LEMMA NextFreeIsFree ==
    ASSUME NEW o, NEW last, NextFree(o, last) # Undefined
    PROVE  NextFree(o, last) \in Bits \ memUsage
<1> DEFINE c == ContinueAfter(o, last)
<1> HIDE DEF c
<1>1. CASE FollowsFree(c)
  BY <1>1 DEF NextFree, FollowsFree, c
<1>2. CASE ~FollowsFree(c) /\ FreeWord # Undefined
  <2>1. FreeWord \in Words /\ EmptyWord(FreeWord)
    BY <1>2, FreeWordIsFree
  <2>2. FreeWord * WordSize \in Bits \ memUsage
    BY <2>1, WordStart DEF EmptyWord
  <2> QED BY <1>2, <2>2 DEF NextFree, c
<1> QED BY <1>1, <1>2 DEF NextFree, c

\* The place the next search starts at is a word of the table.
LEMMA NextMemoType ==
    ASSUME NEW o, NEW last, nextfreeclusterword \in Words
    PROVE  NextMemo(o, last) \in Words
<1>1. 0 \in Words
  BY SizeAssumption DEF Words
<1> QED BY <1>1, FreeWordIsFree DEF NextMemo

\* The operators on objects and lists keep their types.
LEMMA FittedType ==
    ASSUME NEW o \in Object, NEW n \in Nat
    PROVE  Fitted(o, n) \in Object /\ Fitted(o, n).id = o.id
BY DEF Fitted, Memoized, Object

LEMMA WithoutType ==
    ASSUME NEW S, NEW l \in Seq(S), NEW id \in DOMAIN l
    PROVE  /\ Without(l, id) \in Seq(S)
           /\ Len(Without(l, id)) = Len(l) - 1
           /\ DOMAIN Without(l, id) = 1 .. Len(l) - 1
           /\ \A i \in 1 .. Len(l) - 1 :
                Without(l, id)[i] = IF i < id THEN l[i] ELSE l[i + 1]
<1>1. Len(l) - 1 \in Nat /\ id \in 1 .. Len(l)
  OBVIOUS
<1>2. \A i \in 1 .. Len(l) - 1 : (IF i < id THEN l[i] ELSE l[i + 1]) \in S
  OBVIOUS
<1>3. Without(l, id) \in [1 .. Len(l) - 1 -> S]
  BY <1>2, Zenon DEF Without
<1>4. Without(l, id) \in Seq(S)
  BY <1>1, <1>3
<1>5. Len(Without(l, id)) = Len(l) - 1
  BY <1>1, <1>3, <1>4
<1> QED BY <1>1, <1>3, <1>4, <1>5 DEF Without

------------------------------------------------------------------------------
(* Type correctness.  What a step does to the song list is typed only when  *)
(* the selected song is on that list, and so is the song being lengthened   *)
(* until a callback deletes the project object it points to.                *)

JobHasSong ==
    job.stage # "idle" /\ parentproject = "valid" => obj[job.handle].id \in DOMAIN list

\* Only callbacks of the lengthening of a new song delete its project object.
DeletedInCallback == parentproject = "deleted" => Callback

Shape == TypeOK /\ OpenIsListed

TypeInv == Shape /\ JobHasSong /\ DeletedInCallback

LEMMA InitTypeInv == Init => TypeInv
<1> SUFFICES ASSUME Init PROVE TypeInv
  OBVIOUS
<1>1. Clusters \subseteq Bits
  BY SizeAssumption DEF Clusters, Bits
<1>2. diskUsage \subseteq Bits /\ memUsage = diskUsage /\ stranded \subseteq Clusters
  BY <1>1, SizeAssumption DEF Init
<1>3. nextfreeclusterword \in Words
  BY SizeAssumption DEF Init, Words
<1>4. list \in Seq(SongSectors) /\ open \subseteq Handles
  BY EmptySeq DEF Init
<1>5. song \in [SongSectors -> Record]
  BY EmptyRecordType DEF Init
<1>6. obj \in [Handles -> Object]
  BY EmptyRecordType, OpenedType DEF Init, NoObject
<1>7. job \in JobType /\ result \in ResultType
  BY DEF Init, Idle, NoResult, JobType, ResultType, Handles
<1>8. OpenIsListed
  BY DEF Init, OpenIsListed
<1>9. /\ job.stage = "idle" /\ parentproject = "valid" /\ strayed \in BOOLEAN
  BY DEF Init, Idle
<1> QED BY <1>2, <1>3, <1>4, <1>5, <1>6, <1>7, <1>8, <1>9
        DEF TypeInv, Shape, TypeOK, JobHasSong, DeletedInCallback

\* Beginning a lengthening keeps the types and sets the length of the object
\* it is called for, which keeps its place in the list.
LEMMA BeginLengthType ==
    ASSUME TypeOK, NEW h \in Handles, NEW o \in Object, NEW n \in Nat,
           NEW resize \in BOOLEAN, BeginLength(h, o, n, resize)
    PROVE  /\ memUsage' \subseteq Bits /\ stranded' \subseteq Clusters
           /\ open' \subseteq Handles /\ open' \subseteq open \cup {h}
           /\ obj' \in [Handles -> Object]
           /\ \A g \in Handles \ {h} : obj'[g] = obj[g]
           /\ job' \in JobType /\ result' \in ResultType
           /\ \/ obj'[h].id = o.id /\ job'.handle = h
              \/ UNCHANGED <<obj, job>>
<1>1. CASE LengthFits(o, n) /\ obj' = [obj EXCEPT ![h] = Fitted(o, n)]
           /\ open' = open \cup {h}
           /\ job' = [Idle EXCEPT !.stage = "save", !.handle = h]
           /\ result' = [ret |-> "ok", oldlen |-> o.len, newlen |-> n]
           /\ UNCHANGED <<memUsage, stranded>>
  <2>1. job' \in JobType /\ job'.handle = h
    BY <1>1 DEF Idle, JobType
  <2>2. result' \in ResultType
    BY <1>1 DEF ResultType, Object
  <2> QED BY <1>1, <2>1, <2>2, FittedType DEF TypeOK
<1>2. CASE result' = [ret |-> "refused", oldlen |-> o.len, newlen |-> n]
           /\ UNCHANGED <<open, obj, memUsage, stranded, job>>
  <2>1. result' \in ResultType
    BY <1>2 DEF ResultType, Object
  <2> QED BY <1>2, <2>1 DEF TypeOK
<1>3. CASE /\ ~LengthFits(o, n) /\ ~LengthRefused(o, n)
           /\ obj' = [obj EXCEPT ![h] = [o EXCEPT !.len = n]]
           /\ open' = open \cup {h}
           /\ memUsage' = diskUsage
           /\ stranded' = stranded \cap diskUsage
           /\ job' = [stage |-> "alloc", handle |-> h, copy |-> diskUsage,
                      left |-> RequiredBlocks(n) - AudioBlocks(o.table),
                      last |-> Undefined, batch |-> {}, oldlen |-> o.len,
                      newlen |-> n, resize |-> resize]
           /\ result' = NoResult
  <2>1. RequiredBlocks(n) - AudioBlocks(o.table) \in Nat
    <3>1. o.table \in Table
      BY DEF Object
    <3>2. RequiredBlocks(n) \in Nat /\ AudioBlocks(o.table) \in Nat
      BY <3>1, AudioBlocksType, RequiredBlocksType
    <3> QED BY <1>3, <3>2 DEF LengthFits, LengthRefused
  <2>2. job' \in JobType /\ job'.handle = h
    BY <1>3, <2>1 DEF JobType, TypeOK, Object
  <2>3. [o EXCEPT !.len = n] \in Object /\ [o EXCEPT !.len = n].id = o.id
    BY DEF Object
  <2>4. result' \in ResultType
    BY <1>3 DEF NoResult, ResultType
  <2> QED BY <1>3, <2>2, <2>3, <2>4 DEF TypeOK
<1> QED BY <1>1, <1>2, <1>3 DEF BeginLength

\* What steps do to the project object and to the history of what befell it.
LEMMA ProjectVarsStep ==
    TypeOK /\ [Next]_vars =>
        /\ parentproject' \in {"valid", "deleted"} /\ strayed' \in BOOLEAN
        /\ strayed => strayed'
<1> SUFFICES ASSUME TypeOK, [Next]_vars
             PROVE  /\ parentproject' \in {"valid", "deleted"} /\ strayed' \in BOOLEAN
                    /\ strayed => strayed'
  OBVIOUS
<1>0. parentproject \in {"valid", "deleted"} /\ strayed \in BOOLEAN
  BY DEF TypeOK
<1>1. CASE ProjectReplaced /\ UNCHANGED strayed
  BY <1>0, <1>1 DEF ProjectReplaced
<1>2. CASE UNCHANGED projectVars
  BY <1>0, <1>2 DEF projectVars
<1>3. CASE parentproject' = "valid" /\ (UNCHANGED strayed \/ strayed' = TRUE)
  BY <1>0, <1>3
<1>4. ASSUME NEW id \in 1 .. MaxSongs, SelectSong(id)
      PROVE  ProjectReplaced /\ UNCHANGED strayed
  BY <1>4 DEF SelectSong
<1>5. ASSUME NEW n \in Lengths, CreateSong(n)
      PROVE  ProjectReplaced /\ UNCHANGED strayed
  BY <1>5 DEF CreateSong
<1>6. ASSUME NEW n \in Lengths, NEW resize \in BOOLEAN, SetLength(n, resize)
      PROVE  UNCHANGED projectVars
  BY <1>6 DEF SetLength
<1>7. AllocateCluster \/ AppendClusters \/ SaveLengthened => UNCHANGED projectVars
  BY DEF AllocateCluster, AppendClusters, SaveLengthened
<1>8. DeleteSong => ProjectReplaced /\ UNCHANGED strayed
  BY DEF DeleteSong
<1>9. OutOfSpace \/ SaveThroughDeleted \/ Reopen \/ CrashInSave
        => parentproject' = "valid" /\ (UNCHANGED strayed \/ strayed' = TRUE)
  BY DEF OutOfSpace, SaveThroughDeleted, Reopen, CrashInSave, Started
<1>10. UNCHANGED vars => UNCHANGED projectVars
  BY DEF vars
<1> QED BY <1>1, <1>2, <1>3, <1>4, <1>5, <1>6, <1>7, <1>8, <1>9, <1>10 DEF Next

\* Only that save is remembered.
LEMMA StrayedBySave == TypeOK /\ [Next]_vars => strayed' = strayed \/ SaveThroughDeleted
<1> SUFFICES ASSUME TypeOK, [Next]_vars, ~SaveThroughDeleted PROVE strayed' = strayed
  OBVIOUS
<1>1. ASSUME NEW id \in 1 .. MaxSongs, SelectSong(id) PROVE UNCHANGED strayed
  BY <1>1 DEF SelectSong
<1>2. ASSUME NEW n \in Lengths, CreateSong(n) PROVE UNCHANGED strayed
  BY <1>2 DEF CreateSong
<1>3. ASSUME NEW n \in Lengths, NEW resize \in BOOLEAN, SetLength(n, resize)
      PROVE  UNCHANGED strayed
  BY <1>3 DEF SetLength, projectVars
<1>4. AllocateCluster \/ AppendClusters \/ SaveLengthened => UNCHANGED strayed
  BY DEF AllocateCluster, AppendClusters, SaveLengthened, projectVars
<1>5. DeleteSong => UNCHANGED strayed
  BY DEF DeleteSong
<1>6. OutOfSpace \/ Reopen \/ CrashInSave => UNCHANGED strayed
  BY DEF OutOfSpace, Reopen, CrashInSave, Started
<1>7. UNCHANGED vars => UNCHANGED strayed
  BY DEF vars, projectVars
<1> QED BY <1>1, <1>2, <1>3, <1>4, <1>5, <1>6, <1>7 DEF Next

LEMMA NextShape == TypeInv /\ [Next]_vars => Shape'
<1> SUFFICES ASSUME TypeInv, [Next]_vars PROVE Shape'
  OBVIOUS
<1> USE DEF TypeInv, Shape
<1>p. parentproject' \in {"valid", "deleted"} /\ strayed' \in BOOLEAN
  BY ProjectVarsStep
<1>0. "currsong" \in Handles /\ "newsong" \in Handles /\ NoObject \in Object
      /\ NoResult \in ResultType /\ Idle \in JobType
  BY EmptyRecordType, OpenedType
     DEF Handles, NoObject, NoResult, ResultType, Idle, JobType
<1>1. ASSUME NEW id \in 1 .. MaxSongs, SelectSong(id) PROVE Shape'
  <2>1. id \in DOMAIN list /\ list[id] \in SongSectors /\ id \in Nat
    BY <1>1, SizeAssumption DEF SelectSong, TypeOK
  <2>2. Opened(song[list[id]], id) \in Object /\ Opened(song[list[id]], id).id = id
    <3>1. song[list[id]] \in Record
      BY <2>1 DEF TypeOK
    <3> QED BY <2>1, <3>1, OpenedType DEF Opened
  <2>3. obj' \in [Handles -> Object] /\ obj'["currsong"].id = id
    BY <1>1, <2>2, <1>0 DEF SelectSong, TypeOK
  <2> QED BY <1>0, <1>1, <1>p, <2>1, <2>3 DEF SelectSong, TypeOK, usageVars, OpenIsListed
<1>2. ASSUME NEW n \in Lengths, CreateSong(n) PROVE Shape'
  <2> DEFINE s == Least(SongSectors \ {list[i] : i \in DOMAIN list})
             new == Opened(EmptyRecord, Len(list) + 1)
  <2>1. s \in SongSectors
    BY <1>2, SectorAssumption, LeastIsLeast DEF CreateSong
  <2>2. Len(list) + 1 \in Nat /\ DOMAIN list = 1 .. Len(list)
    BY DEF TypeOK
  <2>3. new \in Object /\ new.id = Len(list) + 1
    BY <2>2, EmptyRecordType, OpenedType DEF Opened
  <2> HIDE DEF s, new
  <2>4. /\ song' = [song EXCEPT ![s] = EmptyRecord] /\ list' = Append(list, s)
        /\ UNCHANGED <<diskUsage, nextfreeclusterword>>
    BY <1>2 DEF CreateSong, s
  <2>5. /\ song' \in [SongSectors -> Record] /\ list' \in Seq(SongSectors)
        /\ DOMAIN list' = 1 .. Len(list) + 1
    BY <2>1, <2>2, <2>4, EmptyRecordType DEF TypeOK
  <2>6. CASE /\ open' = open \cup {"currsong"}
             /\ obj' = [obj EXCEPT !["currsong"] = new]
             /\ result' = NoResult
             /\ UNCHANGED <<memUsage, stranded, job>>
    <3>1. obj' \in [Handles -> Object] /\ obj'["currsong"].id = Len(list) + 1
      BY <2>3, <2>6, <1>0 DEF TypeOK
    <3> QED BY <1>0, <1>p, <2>2, <2>4, <2>5, <2>6, <3>1 DEF TypeOK, OpenIsListed
  <2>7. CASE BeginLength("newsong", new, n, FALSE)
    <3>1. n \in Nat
      BY SizeAssumption
    <3>2. /\ memUsage' \subseteq Bits /\ stranded' \subseteq Clusters
          /\ open' \subseteq open \cup {"newsong"}
          /\ obj' \in [Handles -> Object] /\ obj'["currsong"] = obj["currsong"]
          /\ job' \in JobType /\ result' \in ResultType
      BY <1>0, <2>3, <2>7, <3>1, BeginLengthType DEF TypeOK
    <3>3. OpenIsListed'
      BY <3>2, <2>2, <2>5 DEF OpenIsListed
    <3> QED BY <1>0, <1>p, <2>4, <2>5, <3>2, <3>3 DEF TypeOK
  <2> QED BY <1>2, <2>6, <2>7 DEF CreateSong, new
<1>3. ASSUME NEW n \in Lengths, NEW resize \in BOOLEAN, SetLength(n, resize)
      PROVE Shape'
  <2> DEFINE o == obj["currsong"]
  <2>1. n \in Nat /\ o \in Object
    BY <1>0, SizeAssumption DEF TypeOK
  <2>2. BeginLength("currsong", o, n, resize) /\ "currsong" \in open
        /\ UNCHANGED <<diskUsage, nextfreeclusterword, list, song>>
    BY <1>3 DEF SetLength
  <2>3. /\ memUsage' \subseteq Bits /\ stranded' \subseteq Clusters
        /\ open' \subseteq Handles /\ obj' \in [Handles -> Object]
        /\ obj'["currsong"].id = o.id
        /\ job' \in JobType /\ result' \in ResultType
    BY <1>0, <2>1, <2>2, BeginLengthType
  <2> QED BY <1>p, <2>2, <2>3 DEF TypeOK, OpenIsListed
<1>4. CASE AllocateCluster
  <2> DEFINE c == NextFree(obj[job.handle], job.last)
             left == IF job.left >= BlocksPerCluster THEN job.left - BlocksPerCluster ELSE 0
             usage == memUsage \cup {c}
  <2>1. c \in Bits
    BY <1>4, NextFreeIsFree DEF AllocateCluster
  <2>2. left \in Nat
    BY SizeAssumption DEF TypeOK, JobType
  <2>3. nextfreeclusterword' \in Words
    BY <1>4, NextMemoType DEF AllocateCluster, TypeOK
  <2>4. job' = IF left > 0 THEN [job EXCEPT !.left = left, !.last = c]
               ELSE [job EXCEPT !.left = 0, !.last = c, !.stage = "append",
                                !.batch = Changed(job.copy, usage)]
    BY <1>4 DEF AllocateCluster
  <2>5. memUsage' = usage /\ UNCHANGED <<diskUsage, list, song, open, obj, result, stranded>>
    BY <1>4 DEF AllocateCluster
  <2> HIDE DEF c, left
  <2>6. Changed(job.copy, usage) \subseteq Bits
    BY <2>1 DEF TypeOK, JobType, Changed
  <2>7. job' \in JobType
    BY <2>1, <2>2, <2>4, <2>6 DEF TypeOK, JobType
  <2> QED BY <1>p, <2>1, <2>3, <2>5, <2>7 DEF TypeOK, OpenIsListed
<1>5. CASE OutOfSpace
  <2>1. nextfreeclusterword' \in Words
    BY <1>5, NextMemoType DEF OutOfSpace, TypeOK
  <2> DEFINE len == IF job.handle = "currsong" THEN job.oldlen ELSE obj["currsong"].len
  <2>2. len \in Nat
    BY <1>0 DEF TypeOK, JobType, Object
  <2>3. /\ obj'["newsong"] = NoObject
        /\ obj'["currsong"] = [obj["currsong"] EXCEPT !.len = len]
        /\ DOMAIN obj' = Handles
    BY <1>5, <1>0 DEF OutOfSpace, TypeOK, Handles
  <2>4. obj' = [h \in Handles |-> obj'[h]]
    BY <1>5 DEF OutOfSpace, TypeOK
  <2>5. obj'["currsong"] \in Object /\ obj'["currsong"].id = obj["currsong"].id
    BY <2>2, <2>3, <1>0 DEF TypeOK, Object
  <2>6. obj' \in [Handles -> Object]
    BY <1>0, <2>3, <2>4, <2>5 DEF Handles
  <2>7. result' \in ResultType
    BY <1>5 DEF OutOfSpace, ResultType, TypeOK, JobType
  <2>8. stranded' \subseteq Clusters
    BY <1>5 DEF OutOfSpace, TypeOK
  <2> QED BY <1>0, <1>5, <1>p, <2>1, <2>5, <2>6, <2>7, <2>8 DEF OutOfSpace, TypeOK, OpenIsListed
<1>6. CASE AppendClusters
  <2> DEFINE o == obj[job.handle]
             table == Append(o.table, job.batch \cap Clusters)
             blocks == AudioBlocks(table)
             len == IF job.resize THEN BlockWamples * blocks ELSE o.len
             new == [o EXCEPT !.table = table, !.audioblocks = blocks, !.len = len,
                              !.lengthened = TRUE, !.lastallocentry = Memoized(blocks)]
  <2>1. job.handle \in Handles /\ o \in Object /\ o.table \in Table
    BY DEF TypeOK, JobType, Object
  <2>2. table \in Table
    BY <2>1 DEF Table
  <2>3. blocks \in Nat
    BY <2>2, AudioBlocksType
  <2>4. len \in Nat
    BY <2>1, <2>3, SizeAssumption DEF Object
  <2>5. /\ obj' = [obj EXCEPT ![job.handle] = new]
        /\ job' = [Idle EXCEPT !.stage = "save", !.handle = job.handle]
        /\ result' = [ret |-> "ok", oldlen |-> job.oldlen, newlen |-> job.newlen]
        /\ UNCHANGED <<usageVars, list, song, open>>
    BY <1>6 DEF AppendClusters
  <2>6. Memoized(blocks) \in {0, 1}
    BY DEF Memoized
  <2> HIDE DEF table, blocks, len
  <2>7. new \in Object /\ new.id = o.id
    BY <2>1, <2>2, <2>3, <2>4, <2>6 DEF Object
  <2>8. obj' \in [Handles -> Object] /\ obj'["currsong"].id = obj["currsong"].id
    <3> HIDE DEF new
    <3> QED BY <1>0, <2>1, <2>5, <2>7 DEF TypeOK
  <2>9. job' \in JobType /\ result' \in ResultType
    BY <2>1, <2>5 DEF TypeOK, JobType, ResultType, Idle
  <2> QED BY <1>p, <2>5, <2>8, <2>9 DEF TypeOK, OpenIsListed, usageVars
<1>7. CASE SaveLengthened
  <2> DEFINE o == obj[job.handle]
             rec == [len |-> o.len, audioblocks |-> o.audioblocks, table |-> o.table]
             saved == [o EXCEPT !.lengthened = FALSE]
             new == IF job.handle = "newsong" THEN Opened(rec, o.id) ELSE saved
  <2>1. job.handle \in Handles /\ o \in Object
    BY DEF TypeOK, JobType
  <2>2. rec \in Record
    BY <2>1 DEF Record, Object
  <2>3. saved \in Object /\ saved.id = o.id
    BY <2>1 DEF Object
  <2>4. Opened(rec, o.id) \in Object /\ Opened(rec, o.id).id = o.id
    <3>1. o.id \in Nat
      BY <2>1 DEF Object
    <3> HIDE DEF o, rec
    <3> QED BY <2>2, <3>1, OpenedType DEF Opened
  <2>5. new \in Object /\ new.id = o.id
    BY <2>3, <2>4
  <2>0. o.id \in DOMAIN list
    BY <1>7 DEF SaveLengthened, JobHasSong
  <2>6. /\ o.id \in DOMAIN list
        /\ song' = [song EXCEPT ![list[o.id]] = rec]
        /\ diskUsage' = IF o.lengthened THEN memUsage ELSE diskUsage
        /\ open' = {"currsong"}
        /\ obj' = [obj EXCEPT !["newsong"] = NoObject, !["currsong"] = new]
        /\ job' = Idle /\ result' = NoResult
        /\ UNCHANGED <<memUsage, nextfreeclusterword, list, stranded>>
    BY <1>7, <2>0 DEF SaveLengthened
  <2> HIDE DEF o, rec, saved, new
  <2>7. obj' \in [Handles -> Object] /\ obj'["currsong"] = new
    BY <1>0, <2>5, <2>6 DEF TypeOK
  <2>8. song' \in [SongSectors -> Record]
    BY <2>2, <2>6 DEF TypeOK
  <2> QED BY <1>0, <1>p, <2>5, <2>6, <2>7, <2>8 DEF TypeOK, OpenIsListed
<1>8. CASE DeleteSong
  <2> DEFINE id == obj["currsong"].id
             s == list[id]
             usage == Unmarked(memUsage, song[s].table)
             emptied == [song EXCEPT ![s].len = 0, ![s].audioblocks = 0]
  <2>1. id \in DOMAIN list /\ s \in SongSectors
    BY <1>8 DEF DeleteSong, OpenIsListed, TypeOK
  <2>2. usage \subseteq Bits
    BY DEF Unmarked, TypeOK
  <2>3. emptied \in [SongSectors -> Record]
    BY <2>1 DEF TypeOK, Record
  <2>4. /\ Without(list, id) \in Seq(SongSectors)
        /\ DOMAIN Without(list, id) = 1 .. Len(list) - 1
    BY <2>1, WithoutType DEF TypeOK
  <2>5. /\ song' = emptied /\ list' = Without(list, id)
        /\ memUsage' = usage /\ diskUsage' = usage /\ result' = NoResult
        /\ UNCHANGED <<nextfreeclusterword, job, stranded>>
    BY <1>8 DEF DeleteSong
  <2>6. CASE /\ open' = open \ {"currsong"}
             /\ obj' = [obj EXCEPT !["currsong"] = NoObject]
    <3>1. obj' \in [Handles -> Object]
      BY <1>0, <2>6 DEF TypeOK
    <3> HIDE DEF usage, emptied
    <3> QED BY <1>0, <1>p, <2>2, <2>3, <2>4, <2>5, <2>6, <3>1 DEF TypeOK, OpenIsListed
  <2>7. CASE /\ Len(list) # 1 /\ UNCHANGED open
             /\ obj' = [obj EXCEPT !["currsong"] = Opened(emptied[Without(list, id)[1]], 1)]
    <3>1. 1 \in DOMAIN Without(list, id)
      <4>1. DOMAIN list = 1 .. Len(list) /\ Len(list) \in Nat
        BY LenProperties DEF TypeOK
      <4> HIDE DEF id
      <4> QED BY <2>1, <2>4, <2>7, <4>1
    <3>2. emptied[Without(list, id)[1]] \in Record
      <4>1. Without(list, id)[1] \in SongSectors
        BY <2>4, <3>1
      <4> HIDE DEF emptied
      <4> QED BY <2>3, <4>1
    <3> DEFINE new == Opened(emptied[Without(list, id)[1]], 1)
    <3>3. new \in Object /\ new.id = 1
      BY <3>2, OpenedType DEF Opened
    <3>4. obj' = [obj EXCEPT !["currsong"] = new]
      BY <2>7
    <3> HIDE DEF usage, emptied, new
    <3>5. obj' \in [Handles -> Object] /\ obj'["currsong"].id = 1
      BY <1>0, <3>3, <3>4 DEF TypeOK
    <3> QED BY <1>0, <1>p, <2>2, <2>3, <2>4, <2>5, <2>7, <3>1, <3>5 DEF TypeOK, OpenIsListed
  <2> QED BY <1>8, <2>6, <2>7 DEF DeleteSong
<1>9. CASE SaveThroughDeleted
  <2> DEFINE o == obj["newsong"]
             cur == obj["currsong"]
             rec == [len |-> o.len, audioblocks |-> o.audioblocks, table |-> o.table]
             new == IF "currsong" \in open THEN Opened(song'[list[cur.id]], cur.id) ELSE cur
  <2>1. rec \in Record
    BY <1>0 DEF TypeOK, Record, Object
  <2>2. /\ \E target \in SongSectors \cup {Elsewhere} :
                song' = [s \in SongSectors |-> IF s = target THEN rec ELSE song[s]]
        /\ diskUsage' = IF o.lengthened THEN memUsage ELSE diskUsage
        /\ open' = open \ {"newsong"}
        /\ obj' = [obj EXCEPT !["newsong"] = NoObject, !["currsong"] = new]
        /\ job' = Idle /\ result' = NoResult
        /\ UNCHANGED <<memUsage, nextfreeclusterword, list, stranded>>
    <3>1. new = IF "currsong" \in open THEN Opened(song'[list[cur.id]], cur.id)
                ELSE [obj EXCEPT !["newsong"] = NoObject]["currsong"]
      BY <1>0 DEF TypeOK
    <3> QED BY <1>9, <3>1 DEF SaveThroughDeleted
  <2> HIDE DEF rec
  <2>3. song' \in [SongSectors -> Record]
    BY <2>1, <2>2 DEF TypeOK
  <2>4. new \in Object /\ new.id = cur.id
    <3>1. cur \in Object /\ cur.id \in Nat
      BY <1>0 DEF TypeOK, Object
    <3>2. CASE "currsong" \in open
      <4>1. list[cur.id] \in SongSectors
        BY <3>2 DEF OpenIsListed, TypeOK
      <4>2. song'[list[cur.id]] \in Record
        BY <2>3, <4>1
      <4> HIDE DEF cur
      <4> QED BY <3>1, <3>2, <4>2, OpenedType DEF Opened
    <3> QED BY <3>1, <3>2
  <2> HIDE DEF new
  <2>5. obj' \in [Handles -> Object] /\ obj'["currsong"] = new
    BY <1>0, <2>2, <2>4 DEF TypeOK
  <2>6. diskUsage' \subseteq Bits
    BY <2>2 DEF TypeOK
  <2> QED BY <1>0, <1>p, <2>2, <2>3, <2>4, <2>5, <2>6 DEF TypeOK, OpenIsListed
<1>10. CASE Started
  <2>1. 0 \in Words /\ obj' \in [Handles -> Object]
    BY <1>0, <1>10, SizeAssumption DEF Started, Words
  <2> QED BY <1>0, <1>10, <1>p, <2>1 DEF Started, TypeOK, OpenIsListed
<1>11. CASE UNCHANGED vars
  BY <1>p, <1>11 DEF vars, TypeOK, OpenIsListed
<1> QED
  BY <1>1, <1>2, <1>3, <1>4, <1>5, <1>6, <1>7, <1>8, <1>9, <1>10, <1>11
     DEF Next, Reopen, CrashInSave

\* The song being lengthened stays on the list until a callback changes that.
LEMMA NextJobHasSong == TypeInv /\ [Next]_vars => JobHasSong' /\ DeletedInCallback'
<1> SUFFICES ASSUME TypeInv, [Next]_vars PROVE JobHasSong' /\ DeletedInCallback'
  OBVIOUS
<1> USE DEF TypeInv, Shape
<1>0. /\ "currsong" \in Handles /\ "newsong" \in Handles /\ job.handle \in Handles
      /\ obj[job.handle] \in Object /\ obj["currsong"] \in Object
      /\ Len(list) \in Nat /\ DOMAIN list = 1 .. Len(list)
      /\ parentproject \in {"valid", "deleted"}
  BY DEF Handles, TypeOK, JobType
\* Between lengthenings nothing is claimed but that there are no callbacks.
<1>a. ASSUME job'.stage = "idle", parentproject' = "valid"
      PROVE  JobHasSong' /\ DeletedInCallback'
  BY <1>a DEF JobHasSong, DeletedInCallback
\* A user action has come into the lengthening, or none was under way.
<1>b. ASSUME UserTurn \/ Callback, ProjectReplaced, UNCHANGED job
      PROVE  JobHasSong' /\ DeletedInCallback'
  <2>1. CASE UserTurn
    <3>1. parentproject = "valid"
      BY <1>0, <2>1 DEF DeletedInCallback, Callback, UserTurn
    <3> QED BY <1>a, <1>b, <2>1, <3>1 DEF UserTurn, ProjectReplaced
  <2>2. CASE Callback /\ ~UserTurn
    <3>1. parentproject' = "deleted" /\ Callback'
      BY <1>b, <2>2 DEF ProjectReplaced, Callback
    <3> QED BY <3>1 DEF JobHasSong, DeletedInCallback
  <2> QED BY <1>b, <2>1, <2>2
\* The lengthening goes on, with the same song object.
<1>c. ASSUME job.stage # "idle", job'.stage # "idle", job'.handle = job.handle,
             obj'[job.handle].id = obj[job.handle].id, UNCHANGED <<list, parentproject>>
      PROVE  JobHasSong' /\ DeletedInCallback'
  BY <1>c DEF JobHasSong, DeletedInCallback, Callback
\* A lengthening begins.
<1>d. ASSUME NEW h \in Handles, NEW o \in Object, NEW n \in Nat, NEW resize \in BOOLEAN,
             BeginLength(h, o, n, resize), UserTurn, o.id \in DOMAIN list',
             UNCHANGED parentproject
      PROVE  JobHasSong' /\ DeletedInCallback'
  <2>1. parentproject = "valid" /\ parentproject' = "valid"
    BY <1>0, <1>d DEF DeletedInCallback, Callback, UserTurn
  <2>2. \/ obj'[h].id = o.id /\ job'.handle = h
        \/ UNCHANGED <<obj, job>>
    BY <1>d, BeginLengthType
  <2>3. CASE UNCHANGED job
    BY <1>a, <1>d, <2>1, <2>3 DEF UserTurn
  <2>4. CASE obj'[h].id = o.id /\ job'.handle = h
    BY <1>d, <2>1, <2>4 DEF JobHasSong, DeletedInCallback
  <2> QED BY <2>2, <2>3, <2>4
<1>1. ASSUME NEW id \in 1 .. MaxSongs, SelectSong(id)
      PROVE  JobHasSong' /\ DeletedInCallback'
  BY <1>1, <1>b DEF SelectSong
<1>2. ASSUME NEW n \in Lengths, CreateSong(n) PROVE JobHasSong' /\ DeletedInCallback'
  <2> DEFINE new == Opened(EmptyRecord, Len(list) + 1)
             s == Least(SongSectors \ {list[i] : i \in DOMAIN list})
  <2>1. CASE UNCHANGED job
    BY <1>2, <1>b, <2>1 DEF CreateSong
  <2>2. CASE n > 0 /\ BeginLength("newsong", new, n, FALSE)
    <3>1. n \in Nat /\ UserTurn /\ UNCHANGED parentproject
      BY <1>2, <2>2, SizeAssumption DEF CreateSong, ProjectReplaced
    <3>2. new \in Object /\ new.id = Len(list) + 1
      BY <1>0, EmptyRecordType, OpenedType DEF Opened
    <3>3. list' = Append(list, s) /\ s \in SongSectors
      BY <1>2, SectorAssumption, LeastIsLeast DEF CreateSong
    <3> HIDE DEF new, s
    <3>4. new.id \in DOMAIN list'
      BY <1>0, <3>2, <3>3 DEF TypeOK
    <3> QED BY <1>0, <1>d, <2>2, <3>1, <3>2, <3>4
  <2> QED BY <1>2, <2>1, <2>2 DEF CreateSong
<1>3. ASSUME NEW n \in Lengths, NEW resize \in BOOLEAN, SetLength(n, resize)
      PROVE  JobHasSong' /\ DeletedInCallback'
  <2>1. /\ BeginLength("currsong", obj["currsong"], n, resize)
        /\ "currsong" \in open /\ UserTurn /\ UNCHANGED <<list, parentproject>>
    BY <1>3 DEF SetLength, projectVars
  <2>2. n \in Nat /\ obj["currsong"].id \in DOMAIN list'
    BY <2>1, SizeAssumption DEF OpenIsListed
  <2> QED BY <1>0, <1>d, <2>1, <2>2
<1>4. CASE AllocateCluster
  <2> DEFINE c == NextFree(obj[job.handle], job.last)
             left == IF job.left >= BlocksPerCluster THEN job.left - BlocksPerCluster ELSE 0
             usage == memUsage \cup {c}
  <2>1. job.stage = "alloc" /\ UNCHANGED <<list, obj, parentproject>>
    BY <1>4 DEF AllocateCluster, projectVars
  <2>2. job' = IF left > 0 THEN [job EXCEPT !.left = left, !.last = c]
               ELSE [job EXCEPT !.left = 0, !.last = c, !.stage = "append",
                                !.batch = Changed(job.copy, usage)]
    BY <1>4 DEF AllocateCluster
  <2> HIDE DEF left, c, usage
  <2>3. job'.handle = job.handle /\ job'.stage \in {"alloc", "append"}
    BY <2>1, <2>2 DEF TypeOK, JobType
  <2> QED BY <1>c, <2>1, <2>3
<1>5. CASE OutOfSpace
  BY <1>5, <1>a DEF OutOfSpace, Idle
<1>6. CASE AppendClusters
  <2>1. /\ job.stage = "append" /\ job' = [Idle EXCEPT !.stage = "save", !.handle = job.handle]
        /\ UNCHANGED <<list, parentproject>>
    BY <1>6 DEF AppendClusters, projectVars
  <2>2. obj'[job.handle].id = obj[job.handle].id
    BY <1>0, <1>6 DEF AppendClusters, TypeOK, Object
  <2>3. job'.stage = "save" /\ job'.handle = job.handle
    BY <2>1 DEF Idle
  <2> QED BY <1>c, <2>1, <2>2, <2>3
<1>7. CASE SaveLengthened
  BY <1>7, <1>a DEF SaveLengthened, Idle, projectVars
<1>8. CASE DeleteSong
  BY <1>8, <1>b DEF DeleteSong
<1>9. CASE SaveThroughDeleted \/ Started
  BY <1>9, <1>a DEF SaveThroughDeleted, Started, Idle
<1>10. CASE UNCHANGED vars
  BY <1>10 DEF vars, projectVars, JobHasSong, DeletedInCallback, Callback
<1> QED
  BY <1>1, <1>2, <1>3, <1>4, <1>5, <1>6, <1>7, <1>8, <1>9, <1>10
     DEF Next, Reopen, CrashInSave

LEMMA NextTypeInv == TypeInv /\ [Next]_vars => TypeInv'
BY NextShape, NextJobHasSong DEF TypeInv

\* Every variable keeps the shape of the data it stands for, in every
\* reachable state of a drive of any size.
THEOREM TypeCorrect == Spec => []TypeOK
<1>1. TypeInv => TypeOK
  BY DEF TypeInv, Shape
<1> QED BY <1>1, InitTypeInv, NextTypeInv, PTL DEF Spec

------------------------------------------------------------------------------
(* No cluster belongs to two songs.                                         *)

\* What appending a cluster set does to a table.
LEMMA CoverOfAppend ==
    ASSUME NEW t \in Table, NEW B \in SUBSET Clusters
    PROVE  /\ Append(t, B) \in Table
           /\ DOMAIN Append(t, B) = 1 .. Len(t) + 1 /\ DOMAIN t = 1 .. Len(t)
           /\ Len(t) \in Nat
           /\ \A i \in DOMAIN t : Append(t, B)[i] = t[i]
           /\ Append(t, B)[Len(t) + 1] = B
           /\ Cover(Append(t, B)) = Cover(t) \cup B
<1>1. /\ Append(t, B) \in Table
      /\ DOMAIN Append(t, B) = 1 .. Len(t) + 1 /\ DOMAIN t = 1 .. Len(t)
      /\ Len(t) \in Nat
      /\ \A i \in DOMAIN t : Append(t, B)[i] = t[i]
      /\ Append(t, B)[Len(t) + 1] = B
  BY AppendProperties DEF Table
<1> DEFINE u == Append(t, B)
<1> HIDE DEF u
<1>2. DOMAIN u = DOMAIN t \cup {Len(t) + 1}
  BY <1>1 DEF u
<1>3. \A c : (\E i \in DOMAIN u : c \in u[i]) <=> ((\E i \in DOMAIN t : c \in t[i]) \/ c \in B)
  BY <1>1, <1>2 DEF u
<1>4. \A c : c \in Cover(u) <=> c \in Cover(t) \cup B
  BY <1>3 DEF Cover
<1> QED BY <1>1, <1>4 DEF u

\* The tables of the listed songs stay apart when no song joins the list and
\* every song that stays keeps its table.
LEMMA SameTables ==
    ASSUME NoCrossLink, \A s \in Linked' : s \in Linked /\ song'[s].table = song[s].table
    PROVE  NoCrossLink' /\ Listed' \subseteq Listed
<1>1. NoCrossLink'
  BY DEF NoCrossLink
<1>2. \A c : (\E s \in Linked' : c \in Cover(song'[s].table))
              => (\E s \in Linked : c \in Cover(song[s].table))
  OBVIOUS
<1> QED BY <1>1, <1>2 DEF Listed

LEMMA InitIInv == Init => IInv
<1> SUFFICES ASSUME Init PROVE IInv
  OBVIOUS
<1>1. list = <<>> /\ DOMAIN list = {} /\ Linked = {}
  BY DEF Init, Linked
<1>2. Listed = {}
  BY <1>1 DEF Listed
<1>3. memUsage = diskUsage /\ open = {} /\ job.stage = "idle"
  BY DEF Init, Idle
<1> QED BY <1>1, <1>2, <1>3 DEF IInv, ListDistinct, MemoryAhead, OpenIsListed,
           SelectedIsSaved, JobFits, NoCrossLink, ListedAreUsed

\* Beginning a lengthening for an object with the table its song has on the
\* drive leaves a job that fits, and puts no limit on the table in memory.
LEMMA BeginLengthFits ==
    ASSUME TypeOK, MemoryAhead, job.stage = "idle", UNCHANGED diskUsage,
           NEW h \in Handles, NEW o \in Object, NEW n \in Nat, NEW resize \in BOOLEAN,
           BeginLength(h, o, n, resize),
           h = "currsong" => "currsong" \in open,
           o.id \in DOMAIN list', o.table = song'[list'[o.id]].table
    PROVE  /\ MemoryAhead' /\ JobFits'
           /\ (job'.stage = "save" => job'.handle = h)
           /\ obj'[h] = obj[h] \/ (obj'[h].id = o.id /\ obj'[h].table = o.table)
           /\ \A g \in Handles \ {h} : obj'[g] = obj[g]
<1> USE DEF MemoryAhead
<1>1. CASE /\ obj' = [obj EXCEPT ![h] = Fitted(o, n)]
           /\ open' = open \cup {h}
           /\ job' = [Idle EXCEPT !.stage = "save", !.handle = h]
           /\ UNCHANGED <<memUsage, stranded>>
  <2>1. job'.stage = "save" /\ job'.handle = h
    BY <1>1 DEF Idle
  <2>2. Fitted(o, n).table = o.table /\ Fitted(o, n).id = o.id
    BY DEF Fitted, Object
  <2>3. obj'[h] = Fitted(o, n) /\ \A g \in Handles \ {h} : obj'[g] = obj[g]
    BY <1>1 DEF TypeOK
  <2>4. JobFits'
    BY <1>1, <2>1, <2>2, <2>3 DEF JobFits, Extends
  <2> QED BY <1>1, <2>1, <2>2, <2>3, <2>4
<1>2. CASE UNCHANGED <<open, obj, memUsage, stranded, job>>
  BY <1>2 DEF JobFits
<1>3. CASE /\ obj' = [obj EXCEPT ![h] = [o EXCEPT !.len = n]]
           /\ open' = open \cup {h}
           /\ memUsage' = diskUsage
           /\ job' = [stage |-> "alloc", handle |-> h, copy |-> diskUsage,
                      left |-> RequiredBlocks(n) - AudioBlocks(o.table),
                      last |-> Undefined, batch |-> {}, oldlen |-> o.len,
                      newlen |-> n, resize |-> resize]
  <2>1. job'.stage = "alloc" /\ job'.handle = h /\ job'.copy = diskUsage
    BY <1>3
  <2>2. [o EXCEPT !.len = n].table = o.table /\ [o EXCEPT !.len = n].id = o.id
    BY DEF Object
  <2>3. obj'[h] = [o EXCEPT !.len = n] /\ \A g \in Handles \ {h} : obj'[g] = obj[g]
    BY <1>3 DEF TypeOK
  <2>4. JobFits'
    <3>1. obj'[h].table = o.table /\ obj'[h].id = o.id
      BY <2>2, <2>3
    <3>2. h = "currsong" => "currsong" \in open'
      BY <1>3
    <3>3. job'.copy = diskUsage' /\ job'.stage = "alloc" /\ job'.handle = h
      BY <2>1
    <3> QED BY <3>1, <3>2, <3>3 DEF JobFits
  <2> QED BY <1>3, <2>1, <2>2, <2>3, <2>4
<1> QED BY <1>1, <1>2, <1>3 DEF BeginLength

\* Every step but the save through a deleted project object keeps IInv.
LEMMA NextIInv == TypeInv /\ IInv /\ [Next]_vars => strayed' \/ IInv'
<1> SUFFICES ASSUME TypeInv, IInv, [Next]_vars, ~strayed' PROVE IInv'
  OBVIOUS
<1> USE DEF TypeInv, Shape
<1> DEFINE cur == obj["currsong"]
<1>0. /\ "currsong" \in Handles /\ "newsong" \in Handles
      /\ cur \in Object /\ obj[job.handle] \in Object /\ job.handle \in Handles
      /\ Len(list) \in Nat /\ DOMAIN list = 1 .. Len(list)
      /\ \A i \in DOMAIN list : list[i] \in SongSectors /\ list[i] \in Linked
  BY DEF Handles, TypeOK, JobType, Linked
<1>a. /\ ListDistinct /\ MemoryAhead /\ OpenIsListed /\ SelectedIsSaved
      /\ JobFits /\ NoCrossLink /\ ListedAreUsed
  BY DEF IInv
\* A step that leaves the list, the songs and the usage on the drive alone.
<1>b. ASSUME UNCHANGED <<list, song, diskUsage>>
      PROVE  ListDistinct' /\ NoCrossLink' /\ ListedAreUsed'
  BY <1>a, <1>b DEF ListDistinct, NoCrossLink, ListedAreUsed, Linked, Listed
\* A user action leaves no lengthening to claim anything of.
<1>c. ASSUME UserTurn \/ Callback, ProjectReplaced, UNCHANGED job PROVE JobFits'
  <2>1. CASE UserTurn
    BY <1>c, <2>1 DEF UserTurn, JobFits
  <2>2. CASE ~UserTurn
    BY <1>c, <2>2 DEF ProjectReplaced, JobFits
  <2> QED BY <2>1, <2>2
<1>1. ASSUME NEW id \in 1 .. MaxSongs, SelectSong(id) PROVE IInv'
  <2>1. /\ id \in DOMAIN list
        /\ obj'["currsong"] = Opened(song[list[id]], id)
        /\ UNCHANGED <<diskUsage, memUsage, list, song, job>>
    BY <1>0, <1>1 DEF SelectSong, usageVars, TypeOK
  <2>2. obj'["currsong"].id = id /\ obj'["currsong"].table = song[list[id]].table
    BY <2>1 DEF Opened
  <2>3. MemoryAhead' /\ OpenIsListed' /\ SelectedIsSaved'
    BY <1>a, <2>1, <2>2 DEF MemoryAhead, OpenIsListed, SelectedIsSaved
  <2>4. JobFits'
    BY <1>1, <1>c DEF SelectSong
  <2> QED BY <1>b, <2>1, <2>3, <2>4 DEF IInv
<1>2. ASSUME NEW n \in Lengths, CreateSong(n) PROVE IInv'
  <2> DEFINE unused == SongSectors \ {list[i] : i \in DOMAIN list}
             s == Least(unused)
             new == Opened(EmptyRecord, Len(list) + 1)
  <2>1. s \in SongSectors /\ s \notin Linked
    BY <1>2, SectorAssumption, LeastIsLeast DEF CreateSong, Linked
  <2>2. new \in Object /\ new.id = Len(list) + 1 /\ new.table = <<>>
    BY <1>0, EmptyRecordType, OpenedType DEF Opened, EmptyRecord
  <2>3. /\ song' = [song EXCEPT ![s] = EmptyRecord] /\ list' = Append(list, s)
        /\ UNCHANGED diskUsage
    BY <1>2 DEF CreateSong
  <2>b. \/ /\ open' = open \cup {"currsong"}
           /\ obj' = [obj EXCEPT !["currsong"] = new]
           /\ UNCHANGED <<memUsage, job>>
        \/ /\ BeginLength("newsong", new, n, FALSE)
           /\ job.stage = "idle"
    <3>1. CASE /\ n = 0 /\ open' = open \cup {"currsong"}
               /\ obj' = [obj EXCEPT !["currsong"] = new]
               /\ UNCHANGED <<memUsage, stranded, job>>
      BY <3>1
    <3>2. CASE n > 0 /\ BeginLength("newsong", new, n, FALSE)
      <4>1. n # 0
        BY <3>2, SizeAssumption
      <4> QED BY <1>2, <3>2, <4>1 DEF CreateSong, UserTurn
    <3> QED BY <1>2, <3>1, <3>2 DEF CreateSong
  <2> HIDE DEF unused, s, new
  <2>4. /\ Len(list') = Len(list) + 1 /\ DOMAIN list' = 1 .. Len(list) + 1
        /\ \A i \in DOMAIN list : list'[i] = list[i]
        /\ list'[Len(list) + 1] = s
    BY <1>0, <2>1, <2>3 DEF TypeOK
  <2>5. Linked' = Linked \cup {s}
    BY <1>0, <2>4 DEF Linked
  <2>6. /\ song'[s].table = <<>> /\ Cover(song'[s].table) = {}
        /\ \A t \in SongSectors \ {s} : song'[t] = song[t]
    BY <2>1, <2>3 DEF TypeOK, EmptyRecord, Cover
  <2>7. Linked \subseteq SongSectors \ {s}
    BY <1>0, <2>1 DEF Linked
  <2>8. ListDistinct'
    BY <1>0, <1>a, <2>1, <2>4 DEF ListDistinct
  <2>9. NoCrossLink'
    <3>1. DOMAIN song'[s].table = {}
      BY <2>6
    <3>2. \A t \in Linked : song'[t] = song[t]
      BY <2>6, <2>7
    <3>3. ASSUME NEW t \in Linked', NEW u \in Linked', t # u
          PROVE  Cover(song'[t].table) \cap Cover(song'[u].table) = {}
      BY <1>a, <2>5, <2>6, <3>2, <3>3 DEF NoCrossLink
    <3>4. ASSUME NEW t \in Linked', NEW i \in DOMAIN song'[t].table,
                 NEW j \in DOMAIN song'[t].table, i # j
          PROVE  song'[t].table[i] \cap song'[t].table[j] = {}
      BY <1>a, <2>5, <3>1, <3>2, <3>4 DEF NoCrossLink
    <3> QED BY <3>3, <3>4 DEF NoCrossLink
  <2>10. ListedAreUsed'
    <3>1. Listed' = Listed
      BY <2>5, <2>6, <2>7 DEF Listed
    <3> QED BY <1>a, <2>3, <3>1 DEF ListedAreUsed
  \* the selected song is still where it was
  <2>11. "currsong" \in open /\ job.stage = "idle" =>
            /\ cur.id \in DOMAIN list' /\ list'[cur.id] = list[cur.id]
            /\ cur.table = song'[list'[cur.id]].table
    BY <1>0, <1>a, <2>3, <2>4, <2>6, <2>7 DEF OpenIsListed, SelectedIsSaved
  <2>12. CASE /\ open' = open \cup {"currsong"}
              /\ obj' = [obj EXCEPT !["currsong"] = new]
              /\ UNCHANGED <<memUsage, job>>
    <3>1. obj'["currsong"] = new /\ new.table = song'[list'[new.id]].table
          /\ new.id \in DOMAIN list'
      BY <1>0, <2>2, <2>4, <2>6, <2>12 DEF TypeOK
    <3>2. MemoryAhead' /\ OpenIsListed' /\ SelectedIsSaved'
      BY <1>a, <2>3, <2>12, <3>1 DEF MemoryAhead, OpenIsListed, SelectedIsSaved
    <3>3. JobFits'
      BY <1>2, <1>c, <2>12 DEF CreateSong
    <3> QED BY <2>8, <2>9, <2>10, <3>2, <3>3 DEF IInv
  <2>13. CASE /\ BeginLength("newsong", new, n, FALSE)
              /\ job.stage = "idle"
    <3>1. n \in Nat
      BY SizeAssumption
    <3>2. new.id \in DOMAIN list' /\ new.table = song'[list'[new.id]].table
      BY <1>0, <2>2, <2>4, <2>6
    <3>3. /\ MemoryAhead' /\ JobFits'
          /\ (job'.stage = "save" => job'.handle = "newsong")
          /\ obj'["currsong"] = cur
      <4> DEFINE h == "newsong"
      <4>1. h \in Handles /\ "currsong" \in Handles \ {h} /\ FALSE \in BOOLEAN
        BY <1>0
      <4>2. /\ (h = "currsong" => "currsong" \in open)
            /\ new.id \in DOMAIN list' /\ new.table = song'[list'[new.id]].table
        BY <3>2
      <4>3. BeginLength(h, new, n, FALSE)
        BY <2>13
      <4> HIDE DEF h
      <4>4. /\ MemoryAhead' /\ JobFits'
            /\ (job'.stage = "save" => job'.handle = h)
            /\ \A g \in Handles \ {h} : obj'[g] = obj[g]
        BY <1>a, <2>2, <2>3, <2>13, <3>1, <4>1, <4>2, <4>3, BeginLengthFits
      <4> QED BY <4>1, <4>4 DEF h
    <3>4. "currsong" \in open' => "currsong" \in open
      BY <2>13 DEF BeginLength
    <3>5. OpenIsListed' /\ SelectedIsSaved'
      BY <2>11, <2>13, <3>3, <3>4 DEF OpenIsListed, SelectedIsSaved
    <3> QED BY <2>8, <2>9, <2>10, <3>3, <3>5 DEF IInv
  <2> QED BY <2>b, <2>12, <2>13
<1>3. ASSUME NEW n \in Lengths, NEW resize \in BOOLEAN, SetLength(n, resize)
      PROVE IInv'
  <2>1. /\ BeginLength("currsong", cur, n, resize)
        /\ "currsong" \in open /\ job.stage = "idle"
        /\ UNCHANGED <<diskUsage, list, song>>
    BY <1>3 DEF SetLength, UserTurn
  <2>2. n \in Nat
    BY SizeAssumption
  <2>3. cur.id \in DOMAIN list /\ cur.table = song[list[cur.id]].table
    BY <1>a, <2>1 DEF OpenIsListed, SelectedIsSaved
  <2>4. /\ MemoryAhead' /\ JobFits'
        /\ obj'["currsong"].id = cur.id /\ obj'["currsong"].table = cur.table
    BY <1>0, <1>a, <2>1, <2>2, <2>3, BeginLengthFits
  <2>5. OpenIsListed' /\ SelectedIsSaved'
    BY <2>1, <2>3, <2>4 DEF OpenIsListed, SelectedIsSaved
  <2> QED BY <1>b, <2>1, <2>4, <2>5 DEF IInv
<1>4. CASE AllocateCluster
  <2> DEFINE c == NextFree(obj[job.handle], job.last)
             usage == memUsage \cup {c}
             left == IF job.left >= BlocksPerCluster THEN job.left - BlocksPerCluster ELSE 0
  <2>1. /\ job.stage = "alloc" /\ memUsage' = usage
        /\ UNCHANGED <<diskUsage, list, song, open, obj, parentproject>>
    BY <1>4 DEF AllocateCluster, projectVars
  <2>2. job' = IF left > 0 THEN [job EXCEPT !.left = left, !.last = c]
               ELSE [job EXCEPT !.left = 0, !.last = c, !.stage = "append",
                                !.batch = Changed(job.copy, usage)]
    BY <1>4 DEF AllocateCluster
  <2> HIDE DEF left, c
  <2>3. /\ job'.handle = job.handle /\ job'.copy = job.copy
        /\ \/ job'.stage = "alloc"
           \/ /\ job'.stage = "append"
              /\ job'.batch = Changed(job.copy, usage)
    BY <2>1, <2>2 DEF TypeOK, JobType
  <2>4. MemoryAhead'
    BY <1>a, <2>1 DEF MemoryAhead
  <2>5. job.copy = diskUsage
            => Changed(job.copy, usage) = memUsage' \ diskUsage'
    BY <1>a, <2>1 DEF MemoryAhead, Changed
  <2>6. JobFits'
    BY <1>a, <2>1, <2>3, <2>5 DEF JobFits
  <2>7. OpenIsListed' /\ SelectedIsSaved'
    BY <1>a, <2>1, <2>3 DEF OpenIsListed, SelectedIsSaved
  <2> QED BY <1>b, <2>1, <2>4, <2>6, <2>7 DEF IInv
<1>5. CASE OutOfSpace
  <2>1. /\ job.stage = "alloc" /\ job' = Idle /\ open' \subseteq open
        /\ UNCHANGED <<diskUsage, memUsage, list, song>>
    BY <1>5 DEF OutOfSpace
  <2> DEFINE len == IF job.handle = "currsong" THEN job.oldlen ELSE cur.len
  <2>2. obj'["currsong"] = [cur EXCEPT !.len = len]
    BY <1>0, <1>5 DEF OutOfSpace, TypeOK
  <2>3. obj'["currsong"].id = cur.id /\ obj'["currsong"].table = cur.table
    BY <1>0, <2>2 DEF Object
  <2>4. job'.stage = "idle"
    BY <2>1 DEF Idle
  <2>5. MemoryAhead' /\ OpenIsListed' /\ SelectedIsSaved' /\ JobFits'
    BY <1>a, <2>1, <2>3, <2>4 DEF MemoryAhead, OpenIsListed, SelectedIsSaved, JobFits
  <2> QED BY <1>b, <2>1, <2>5 DEF IInv
<1>6. CASE AppendClusters
  <2> DEFINE o == obj[job.handle]
             B == job.batch \cap Clusters
             table == Append(o.table, B)
             blocks == AudioBlocks(table)
             len == IF job.resize THEN BlockWamples * blocks ELSE o.len
             new == [o EXCEPT !.table = table, !.audioblocks = blocks, !.len = len,
                              !.lengthened = TRUE, !.lastallocentry = Memoized(blocks)]
  <2>1. /\ job.stage = "append" /\ obj' = [obj EXCEPT ![job.handle] = new]
        /\ job' = [Idle EXCEPT !.stage = "save", !.handle = job.handle]
        /\ UNCHANGED <<diskUsage, memUsage, list, song, open>>
    BY <1>6 DEF AppendClusters, usageVars
  <2>2. job'.stage = "save" /\ job'.handle = job.handle
    BY <2>1 DEF Idle
  <2> HIDE DEF table, blocks, len
  <2>3. new.id = o.id /\ new.table = table /\ new.lengthened
    BY <1>0 DEF Object
  <2>4. obj'[job.handle] = new /\ \A g \in Handles \ {job.handle} : obj'[g] = obj[g]
    <3> HIDE DEF new
    <3> QED BY <1>0, <2>1 DEF TypeOK
  <2> HIDE DEF new
  <2>5. ASSUME parentproject = "valid" PROVE JobFits'
    <3>1. /\ o.id \in DOMAIN list /\ o.table = song[list[o.id]].table
          /\ job.batch = memUsage \ diskUsage
          /\ job.handle = "currsong" => "currsong" \in open
      BY <1>a, <2>1, <2>5 DEF JobFits
    <3>2. B \in SUBSET Clusters /\ B \cap diskUsage = {} /\ B \subseteq memUsage
      BY <3>1
    <3>3. new.table = Append(song[list[o.id]].table, B) /\ new.lengthened
      BY <2>3, <3>1 DEF table
    <3>4. /\ obj'[job'.handle] = new /\ new.id = o.id /\ job'.handle = job.handle
          /\ list' = list /\ song' = song /\ open' = open
          /\ B \cap diskUsage' = {} /\ B \subseteq memUsage'
      BY <2>1, <2>2, <2>3, <2>4, <3>2
    <3> HIDE DEF B
    <3>5. /\ new.id \in DOMAIN list' /\ new.lengthened
          /\ \E D \in SUBSET Clusters :
                D \cap diskUsage' = {} /\ D \subseteq memUsage'
                /\ new.table = Append(song'[list'[new.id]].table, D)
      <4> HIDE DEF o
      <4> QED BY <3>1, <3>2, <3>3, <3>4
    <3> HIDE DEF o
    <3> QED BY <2>2, <3>1, <3>4, <3>5 DEF JobFits, Extends
  <2>p. JobFits'
    <3>1. UNCHANGED parentproject
      BY <1>6 DEF AppendClusters, projectVars
    <3>2. CASE parentproject # "valid"
      BY <3>1, <3>2 DEF JobFits
    <3> QED BY <2>5, <3>2
  <2>6. MemoryAhead' /\ OpenIsListed' /\ SelectedIsSaved'
    BY <1>0, <1>a, <2>1, <2>2, <2>3, <2>4 DEF MemoryAhead, OpenIsListed, SelectedIsSaved
  <2> QED BY <1>b, <2>1, <2>6, <2>p DEF IInv
<1>7. CASE SaveLengthened
  <2> DEFINE o == obj[job.handle]
             sec == list[o.id]
             rec == [len |-> o.len, audioblocks |-> o.audioblocks, table |-> o.table]
             saved == [o EXCEPT !.lengthened = FALSE]
             new == IF job.handle = "newsong" THEN Opened(rec, o.id) ELSE saved
  <2>0. job.stage = "save" /\ parentproject = "valid"
    BY <1>7 DEF SaveLengthened
  <2>1. /\ job.stage = "save" /\ o.id \in DOMAIN list
        /\ song' = [song EXCEPT ![sec] = rec]
        /\ diskUsage' = IF o.lengthened THEN memUsage ELSE diskUsage
        /\ obj' = [obj EXCEPT !["newsong"] = NoObject, !["currsong"] = new]
        /\ job' = Idle /\ UNCHANGED <<memUsage, list>>
    BY <1>7, <1>a, <2>0 DEF SaveLengthened, JobFits
  <2>2. new.id = o.id /\ new.table = o.table
    <3>1. saved.id = o.id /\ saved.table = o.table
      BY <1>0 DEF Object
    <3>2. Opened(rec, o.id).id = o.id /\ Opened(rec, o.id).table = o.table
      BY DEF Opened
    <3> QED BY <3>1, <3>2
  <2>3. obj'["currsong"] = new
    <3> HIDE DEF new
    <3> QED BY <1>0, <2>1 DEF TypeOK
  <2>4. sec \in SongSectors /\ sec \in Linked /\ Linked' = Linked
    BY <1>0, <2>1 DEF Linked
  <2>5. /\ song'[sec].table = o.table
        /\ \A s \in SongSectors \ {sec} : song'[s] = song[s]
    BY <2>1, <2>4 DEF TypeOK
  <2>6. job'.stage = "idle"
    BY <2>1 DEF Idle
  <2>7. Extends(song[sec].table, o)
    BY <1>a, <2>0 DEF JobFits
  <2> HIDE DEF o, rec, saved, new
  <2>8. ListDistinct' /\ MemoryAhead' /\ OpenIsListed' /\ SelectedIsSaved' /\ JobFits'
    <3>1. diskUsage' \subseteq memUsage'
      BY <1>a, <2>1 DEF MemoryAhead
    <3>2. obj'["currsong"].id \in DOMAIN list'
      BY <2>1, <2>2, <2>3
    <3>3. obj'["currsong"].table = song'[list'[obj'["currsong"].id]].table
      BY <2>1, <2>2, <2>3, <2>5
    <3>4. ListDistinct'
      BY <1>a, <2>1 DEF ListDistinct
    <3> QED BY <2>6, <3>1, <3>2, <3>3, <3>4
            DEF MemoryAhead, OpenIsListed, SelectedIsSaved, JobFits
  <2>9. \A s \in Linked : s \in SongSectors /\ Cover(song[s].table) \subseteq diskUsage
    BY <1>0, <1>a DEF ListedAreUsed, Listed, Linked
  <2>10. diskUsage \subseteq diskUsage'
    BY <1>a, <2>1 DEF MemoryAhead
  <2>11. CASE o.table = song[sec].table
    <3>1. \A s \in Linked' : s \in Linked /\ song'[s].table = song[s].table
      BY <2>4, <2>5, <2>9, <2>11
    <3>2. NoCrossLink' /\ Listed' \subseteq Listed
      BY <1>a, <3>1, SameTables
    <3> QED BY <1>a, <2>8, <2>10, <3>2 DEF ListedAreUsed, IInv
  <2>12. ASSUME o.lengthened, NEW B \in SUBSET Clusters, B \cap diskUsage = {},
                B \subseteq memUsage, o.table = Append(song[sec].table, B)
         PROVE  IInv'
    <3> DEFINE t == song[sec].table
    <3>1. t \in Table
      BY <2>4 DEF TypeOK, Record
    <3> HIDE DEF t
    <3>2. /\ DOMAIN Append(t, B) = DOMAIN t \cup {Len(t) + 1}
          /\ \A i \in DOMAIN t : i # Len(t) + 1 /\ Append(t, B)[i] = t[i]
          /\ Append(t, B)[Len(t) + 1] = B
          /\ Cover(Append(t, B)) = Cover(t) \cup B
      BY <3>1, CoverOfAppend
    <3>3. song'[sec].table = Append(t, B)
      BY <2>5, <2>12 DEF t
    <3>4. Cover(t) \subseteq diskUsage
      BY <2>4, <2>9 DEF t
    <3>5. ASSUME NEW u \in Linked \ {sec}
          PROVE  /\ song'[u].table = song[u].table
                 /\ Cover(song'[sec].table) \cap Cover(song[u].table) = {}
      <4>1. song'[u].table = song[u].table /\ Cover(song[u].table) \subseteq diskUsage
        BY <2>5, <2>9, <3>5
      <4>2. Cover(t) \cap Cover(song[u].table) = {}
        BY <1>a, <2>4, <3>5 DEF NoCrossLink, t
      <4> QED BY <2>12, <3>2, <3>3, <4>1, <4>2
    <3>6. ASSUME NEW i \in DOMAIN Append(t, B), NEW j \in DOMAIN Append(t, B), i # j
          PROVE  Append(t, B)[i] \cap Append(t, B)[j] = {}
      <4>1. \A k \in DOMAIN t : t[k] \cap B = {}
        BY <2>12, <3>4 DEF Cover
      <4>2. i \in DOMAIN t /\ j \in DOMAIN t => t[i] \cap t[j] = {}
        BY <1>a, <2>4, <3>6 DEF NoCrossLink, t
      <4> QED BY <3>2, <3>6, <4>1, <4>2
    <3>7. NoCrossLink'
      <4>1. ASSUME NEW u \in Linked', NEW v \in Linked', u # v
            PROVE  Cover(song'[u].table) \cap Cover(song'[v].table) = {}
        <5>1. CASE u = sec
          BY <2>4, <3>5, <4>1, <5>1
        <5>2. CASE v = sec
          BY <2>4, <3>5, <4>1, <5>2
        <5>3. CASE u # sec /\ v # sec
          BY <1>a, <2>4, <3>5, <4>1, <5>3 DEF NoCrossLink
        <5> QED BY <5>1, <5>2, <5>3
      <4>2. ASSUME NEW u \in Linked', NEW i \in DOMAIN song'[u].table,
                   NEW j \in DOMAIN song'[u].table, i # j
            PROVE  song'[u].table[i] \cap song'[u].table[j] = {}
        <5>1. CASE u = sec
          BY <3>3, <3>6, <4>2, <5>1
        <5>2. CASE u # sec
          BY <1>a, <2>4, <3>5, <4>2, <5>2 DEF NoCrossLink
        <5> QED BY <5>1, <5>2
      <4> QED BY <4>1, <4>2 DEF NoCrossLink
    <3>8. ListedAreUsed'
      <4>1. diskUsage' = memUsage
        BY <2>1, <2>12
      <4>2. ASSUME NEW u \in Linked' PROVE Cover(song'[u].table) \subseteq diskUsage'
        <5>1. CASE u = sec
          BY <2>10, <2>12, <3>2, <3>3, <3>4, <4>1, <5>1
        <5>2. CASE u # sec
          BY <2>4, <2>9, <2>10, <3>5, <4>2, <5>2
        <5> QED BY <5>1, <5>2
      <4> QED BY <4>2 DEF ListedAreUsed, Listed
    <3> QED BY <2>8, <3>7, <3>8 DEF IInv
  <2> QED BY <2>7, <2>11, <2>12 DEF Extends
<1>8. CASE DeleteSong
  <2> DEFINE id == cur.id
             s == list[id]
             short == Without(list, id)
             usage == Unmarked(memUsage, song[s].table)
             emptied == [song EXCEPT ![s].len = 0, ![s].audioblocks = 0]
  <2>1. /\ "currsong" \in open /\ song' = emptied /\ list' = short
        /\ memUsage' = usage /\ diskUsage' = usage /\ UNCHANGED job
    BY <1>8 DEF DeleteSong
  <2>2. id \in 1 .. Len(list) /\ id \in Nat /\ s \in SongSectors /\ s \in Linked
    BY <1>0, <1>a, <2>1 DEF OpenIsListed
  <2>3. \A t \in SongSectors : emptied[t].table = song[t].table
    BY DEF TypeOK, Record
  <2>4. /\ Len(short) = Len(list) - 1 /\ DOMAIN short = 1 .. Len(list) - 1
        /\ \A i \in 1 .. Len(list) - 1 : short[i] = IF i < id THEN list[i] ELSE list[i + 1]
    <3>1. list \in Seq(SongSectors) /\ id \in DOMAIN list
      BY <1>0, <2>2 DEF TypeOK
    <3> HIDE DEF id
    <3> QED BY <3>1, WithoutType
  <2> HIDE DEF id, short, emptied
  <2>5. ListDistinct' /\ \A t \in Linked' : t \in Linked \ {s}
    <3>1. ASSUME NEW i \in 1 .. Len(list) - 1
          PROVE  \E k \in DOMAIN list : k # id /\ short[i] = list[k]
                                        /\ k = IF i < id THEN i ELSE i + 1
      BY <1>0, <2>2, <2>4, <3>1
    <3>2. \A t \in Linked' : t \in Linked \ {s}
      BY <1>0, <1>a, <2>1, <2>2, <2>4, <3>1 DEF Linked, ListDistinct
    <3>3. ASSUME NEW i \in DOMAIN short, NEW j \in DOMAIN short, i # j
          PROVE  short[i] # short[j]
      BY <1>0, <1>a, <2>2, <2>4, <3>1, <3>3 DEF ListDistinct
    <3> QED BY <2>1, <3>2, <3>3 DEF ListDistinct
  <2>6. \A t \in Linked' : t \in Linked /\ song'[t].table = song[t].table
    <3>1. \A t \in Linked : t \in SongSectors
      BY <1>0 DEF Linked
    <3> QED BY <2>1, <2>3, <2>5, <3>1
  <2>7. NoCrossLink'
    BY <1>a, <2>6, SameTables
  <2>8. ListedAreUsed'
    <3>1. ASSUME NEW t \in Linked' PROVE Cover(song'[t].table) \subseteq usage
      <4>1. t \in Linked /\ t # s /\ song'[t].table = song[t].table
        BY <2>5, <2>6
      <4>2. Cover(song[t].table) \subseteq diskUsage
        BY <1>a, <4>1 DEF ListedAreUsed, Listed
      <4>3. Cover(song[t].table) \cap Cover(song[s].table) = {}
        BY <1>a, <2>2, <4>1 DEF NoCrossLink
      <4> QED BY <1>a, <4>1, <4>2, <4>3 DEF MemoryAhead, Unmarked
    <3> QED BY <2>1, <3>1 DEF ListedAreUsed, Listed
  <2>9. OpenIsListed' /\ SelectedIsSaved'
    <3>1. CASE open' = open \ {"currsong"}
      BY <3>1 DEF OpenIsListed, SelectedIsSaved
    <3>2. CASE /\ Len(list) # 1
               /\ obj' = [obj EXCEPT !["currsong"] = Opened(emptied[short[1]], 1)]
      <4>1. obj'["currsong"] = Opened(emptied[short[1]], 1)
        BY <1>0, <3>2 DEF TypeOK
      <4>2. obj'["currsong"].id = 1 /\ obj'["currsong"].table = emptied[short[1]].table
        BY <4>1 DEF Opened
      <4>3. 1 \in DOMAIN short
        BY <1>0, <2>2, <2>4, <3>2
      <4> QED BY <2>1, <4>2, <4>3 DEF OpenIsListed, SelectedIsSaved
    <3> QED BY <1>8, <3>1, <3>2 DEF DeleteSong, short, id, emptied
  <2>10. JobFits'
    BY <1>8, <1>c DEF DeleteSong
  <2>11. MemoryAhead'
    BY <2>1 DEF MemoryAhead
  <2> QED BY <2>5, <2>7, <2>8, <2>9, <2>10, <2>11 DEF IInv
<1>9. CASE Started
  <2>1. /\ memUsage' = diskUsage /\ open' = {} /\ job'.stage = "idle"
        /\ UNCHANGED <<diskUsage, list, song>>
    BY <1>9 DEF Started, Idle
  <2>2. MemoryAhead' /\ OpenIsListed' /\ SelectedIsSaved' /\ JobFits'
    BY <2>1 DEF MemoryAhead, OpenIsListed, SelectedIsSaved, JobFits
  <2> QED BY <1>b, <2>1, <2>2 DEF IInv
<1>10. CASE SaveThroughDeleted
  BY <1>10 DEF SaveThroughDeleted
<1>11. CASE UNCHANGED vars
  <2>1. UNCHANGED <<diskUsage, memUsage, list, song, open, obj, job, parentproject>>
    BY <1>11 DEF vars, projectVars
  <2>2. MemoryAhead' /\ OpenIsListed' /\ SelectedIsSaved'
    BY <1>a, <2>1 DEF MemoryAhead, OpenIsListed, SelectedIsSaved
  <2>3. JobFits'
    BY <1>a, <2>1 DEF JobFits, Extends
  <2> QED BY <1>b, <2>1, <2>2, <2>3 DEF IInv
<1> QED
  BY <1>1, <1>2, <1>3, <1>4, <1>5, <1>6, <1>7, <1>8, <1>9, <1>10, <1>11
     DEF Next, Reopen, CrashInSave

\* Whatever users do in callbacks and whatever lengthenings fail, the songs, the
\* usage tables and the selected song agree until a song is saved through a
\* deleted project object.
THEOREM Consistency == Spec => []SoundUntilStrayed
<1>1. Init => TypeInv /\ SoundUntilStrayed
  BY InitTypeInv, InitIInv DEF SoundUntilStrayed
<1>2. TypeInv /\ SoundUntilStrayed /\ [Next]_vars => (TypeInv /\ SoundUntilStrayed)'
  <2> SUFFICES ASSUME TypeInv, SoundUntilStrayed, [Next]_vars
               PROVE  (TypeInv /\ SoundUntilStrayed)'
    OBVIOUS
  <2>1. strayed \in BOOLEAN /\ (strayed => strayed')
    BY ProjectVarsStep DEF TypeInv, Shape, TypeOK
  <2>2. CASE strayed
    BY <2>1, <2>2, NextTypeInv DEF SoundUntilStrayed
  <2>3. CASE ~strayed
    BY <2>3, NextTypeInv, NextIInv DEF SoundUntilStrayed
  <2> QED BY <2>1, <2>2, <2>3
<1> QED BY <1>1, <1>2, PTL DEF Spec

\* Without callbacks a song is always saved where it belongs.
LEMMA Undisturbed ==
    ASSUME ~Reentrant
    PROVE  Spec => [](TypeInv /\ IInv /\ ~strayed)
<1>1. Init => TypeInv /\ IInv /\ ~strayed
  BY InitTypeInv, InitIInv DEF Init
<1>2. TypeInv /\ IInv /\ ~strayed /\ [Next]_vars => (TypeInv /\ IInv /\ ~strayed)'
  <2> SUFFICES ASSUME TypeInv, IInv, ~strayed, [Next]_vars
               PROVE  (TypeInv /\ IInv /\ ~strayed)'
    OBVIOUS
  <2>1. parentproject # "deleted"
    BY DEF TypeInv, DeletedInCallback, Callback
  <2>2. ~strayed'
    BY <2>1, StrayedBySave DEF TypeInv, Shape, SaveThroughDeleted
  <2> QED BY <2>2, NextTypeInv, NextIInv
<1> QED BY <1>1, <1>2, PTL DEF Spec

LEMMA NeverStrayed == ASSUME ~Reentrant PROVE Spec => []~strayed
<1>1. Spec => [](TypeInv /\ IInv /\ ~strayed)
  BY Undisturbed
<1> QED BY <1>1, PTL

\* No two songs of a project have a cluster in common, and no song lists one
\* twice, whatever lengthenings fail and whenever songs are deleted: always
\* without callbacks, and with them until a song is saved through a deleted
\* project object.
THEOREM NoCrossLinks ==
    /\ Spec => [](~strayed => NoCrossLink)
    /\ ~Reentrant => (Spec => []NoCrossLink)
<1>1. SoundUntilStrayed => (~strayed => NoCrossLink)
  BY DEF SoundUntilStrayed, IInv
<1>2. Spec => [](~strayed => NoCrossLink)
  BY <1>1, Consistency, PTL
<1>3. ASSUME ~Reentrant PROVE Spec => []NoCrossLink
  BY <1>2, NeverStrayed, <1>3, PTL
<1> QED BY <1>2, <1>3

\* What a song lists is marked as used in the table on the drive, under the
\* same condition.
THEOREM ListedStayUsed ==
    /\ Spec => [](~strayed => ListedAreUsed)
    /\ ~Reentrant => (Spec => []ListedAreUsed)
<1>1. SoundUntilStrayed => (~strayed => ListedAreUsed)
  BY DEF SoundUntilStrayed, IInv
<1>2. Spec => [](~strayed => ListedAreUsed)
  BY <1>1, Consistency, PTL
<1>3. ASSUME ~Reentrant PROVE Spec => []ListedAreUsed
  BY <1>2, NeverStrayed, <1>3, PTL
<1> QED BY <1>2, <1>3

------------------------------------------------------------------------------
(* The program implements ClusterPool.                                      *)

\* DiskOwner says of every cluster whose it is, without a choice.
OwnerIsRight ==
    /\ DiskOwner = [c \in Clusters |-> DiskOwner[c]]
    /\ \A s \in Linked : \A c \in Clusters \cap Cover(song[s].table) : DiskOwner[c] = s
    /\ \A c \in Clusters \ Listed :
            DiskOwner[c] = IF c \in diskUsage THEN PoolLost ELSE PoolFree

LEMMA OwnerRight == NoCrossLink => OwnerIsRight
<1> SUFFICES ASSUME NoCrossLink PROVE OwnerIsRight
  OBVIOUS
<1>1. ASSUME NEW s \in Linked, NEW c \in Clusters \cap Cover(song[s].table)
      PROVE  DiskOwner[c] = s
  <2>1. c \in Listed
    BY <1>1 DEF Listed
  <2>2. \A t \in Linked : c \in Cover(song[t].table) => t = s
    BY <1>1 DEF NoCrossLink
  <2>3. DiskOwner[c] = CHOOSE t \in Linked : c \in Cover(song[t].table)
    BY <1>1, <2>1 DEF DiskOwner
  <2> QED BY <1>1, <2>2, <2>3
<1>2. DiskOwner = [c \in Clusters |-> DiskOwner[c]]
  BY DEF DiskOwner
<1>3. ASSUME NEW c \in Clusters \ Listed
      PROVE  DiskOwner[c] = IF c \in diskUsage THEN PoolLost ELSE PoolFree
  BY <1>3 DEF DiskOwner
<1> QED BY <1>1, <1>2, <1>3 DEF OwnerIsRight

LEMMA OwnerRightNext == NoCrossLink' => OwnerIsRight'
BY OwnerRight, PTL

\* A cluster nobody has is one that is not marked as used on the drive.
LEMMA FreeOwner ==
    ASSUME TypeOK, NoCrossLink, ListedAreUsed
    PROVE  Pool!FreeClusters = Clusters \ diskUsage
<1>1. OwnerIsRight
  BY OwnerRight
<1>2. ASSUME NEW c \in Clusters
      PROVE  DiskOwner[c] = PoolFree <=> c \notin diskUsage
  <2>1. CASE c \in Listed
    <3>1. PICK s \in Linked : c \in Cover(song[s].table)
      BY <2>1 DEF Listed
    <3>2. s \in Nat
      <4>1. \A i \in DOMAIN list : list[i] \in SongSectors
        BY DEF TypeOK
      <4> QED BY <3>1, <4>1, SectorAssumption DEF Linked
    <3>3. DiskOwner[c] # PoolFree
      BY <1>1, <3>1, <3>2 DEF OwnerIsRight, PoolFree
    <3> QED BY <2>1, <3>3 DEF ListedAreUsed
  <2>2. CASE c \notin Listed
    BY <1>1, <2>2 DEF OwnerIsRight, PoolFree, PoolLost
  <2> QED BY <2>1, <2>2
<1> QED BY <1>2 DEF Pool!FreeClusters, Pool!OwnedBy

\* Seen from the drive nothing happens in a step that keeps the usage on the
\* drive and what the songs of the list have.
LEMMA SameOwner ==
    ASSUME UNCHANGED diskUsage, NoCrossLink, NoCrossLink',
           \A c \in Clusters : \A s : (s \in Linked' /\ c \in Cover(song'[s].table))
                                <=> (s \in Linked /\ c \in Cover(song[s].table))
    PROVE  UNCHANGED DiskOwner
<1>1. OwnerIsRight /\ OwnerIsRight'
  BY OwnerRight, OwnerRightNext
<1>2. \A c \in Clusters : c \in Listed' <=> c \in Listed
  BY DEF Listed
<1>3. ASSUME NEW c \in Clusters PROVE DiskOwner'[c] = DiskOwner[c]
  <2>1. CASE c \in Listed
    <3>1. PICK s \in Linked : c \in Cover(song[s].table)
      BY <2>1 DEF Listed
    <3>2. s \in Linked' /\ c \in Cover(song'[s].table)
      BY <3>1
    <3> QED BY <1>1, <3>1, <3>2 DEF OwnerIsRight
  <2>2. CASE c \notin Listed
    BY <1>1, <1>2, <2>2 DEF OwnerIsRight
  <2> QED BY <2>1, <2>2
<1> QED BY <1>1, <1>3 DEF OwnerIsRight

LEMMA InitPool == Init => Pool!Init
<1> SUFFICES ASSUME Init PROVE Pool!Init
  OBVIOUS
<1>1. Listed = {}
  BY DEF Init, Linked, Listed
<1> QED BY <1>1 DEF Pool!Init, DiskOwner

\* The shape both steps of ClusterPool have: some free clusters get lost, and
\* the others get the owners f tells.
LEMMA StrandIs ==
    ASSUME NEW f, NEW L, f = [c \in Clusters |-> f[c]], OwnerIsRight',
           \A c \in Clusters : DiskOwner'[c] = IF c \in L THEN PoolLost ELSE f[c]
    PROVE  DiskOwner' = Pool!Strand(f, L)
BY DEF Pool!Strand, OwnerIsRight

\* The list after the song of the list at place id is taken off.
LEMMA LinkedWithout ==
    ASSUME list \in Seq(SongSectors), ListDistinct,
           NEW id \in DOMAIN list, list' = Without(list, id)
    PROVE  Linked' = Linked \ {list[id]}
<1> DEFINE short == Without(list, id)
<1>0. DOMAIN list = 1 .. Len(list) /\ Len(list) \in Nat
  BY LenProperties
<1>1. /\ DOMAIN short = 1 .. Len(list) - 1
      /\ \A i \in 1 .. Len(list) - 1 : short[i] = IF i < id THEN list[i] ELSE list[i + 1]
  BY WithoutType
<1> HIDE DEF short
<1>2. ASSUME NEW i \in 1 .. Len(list) - 1
      PROVE  short[i] \in Linked \ {list[id]}
  <2>1. PICK k \in DOMAIN list : k # id /\ short[i] = list[k]
    BY <1>0, <1>1, <1>2
  <2> QED BY <2>1 DEF ListDistinct, Linked
<1>3. ASSUME NEW k \in DOMAIN list, k # id
      PROVE  \E i \in 1 .. Len(list) - 1 : short[i] = list[k]
  <2>1. CASE k < id
    <3>1. k \in 1 .. Len(list) - 1
      BY <1>0, <1>3, <2>1
    <3> QED BY <1>1, <2>1, <3>1
  <2>2. CASE k > id
    <3>1. k - 1 \in 1 .. Len(list) - 1 /\ ~(k - 1 < id) /\ (k - 1) + 1 = k
      BY <1>0, <1>3, <2>2
    <3> QED BY <1>1, <3>1
  <2> QED BY <1>0, <1>3, <2>1, <2>2
<1>4. \A t : t \in Linked' <=> \E i \in 1 .. Len(list) - 1 : short[i] = t
  BY <1>1 DEF Linked, short
<1>5. \A t : t \in Linked \ {list[id]} => \E k \in DOMAIN list : k # id /\ list[k] = t
  BY DEF Linked
<1> QED BY <1>2, <1>3, <1>4, <1>5

\* Every step is a step of ClusterPool or is not seen from the drive: a song
\* that is saved gains clusters nobody had, a song that is deleted gives all of
\* its own back, and what failed lengthenings left set in memory gets lost
\* when the usage table is written.
LEMMA NextPool ==
    TypeInv /\ IInv /\ IInv' /\ ~strayed' /\ [Next]_vars => [Pool!Next]_DiskOwner
<1> SUFFICES ASSUME TypeInv, IInv, IInv', ~strayed', [Next]_vars
             PROVE  [Pool!Next]_DiskOwner
  OBVIOUS
<1> USE DEF TypeInv, Shape
<1>0. /\ \A i \in DOMAIN list : list[i] \in SongSectors /\ list[i] \in Linked
      /\ Len(list) \in Nat /\ DOMAIN list = 1 .. Len(list)
      /\ obj["currsong"] \in Object /\ obj[job.handle] \in Object
      /\ "currsong" \in Handles
      /\ list \in Seq(SongSectors)
  BY DEF TypeOK, Linked, JobType, Handles
<1>a. /\ NoCrossLink /\ ListedAreUsed /\ MemoryAhead /\ OpenIsListed /\ ListDistinct
      /\ JobFits /\ NoCrossLink' /\ ListedAreUsed'
  BY DEF IInv
<1>b. OwnerIsRight /\ OwnerIsRight' /\ Pool!FreeClusters = Clusters \ diskUsage
  BY <1>a, OwnerRight, OwnerRightNext, FreeOwner
\* The clusters that are free or lost, and those of a song, by DiskOwner.
<1>c. /\ \A c \in Clusters \ Listed : DiskOwner[c] = IF c \in diskUsage THEN PoolLost ELSE PoolFree
      /\ \A c \in Clusters \ Listed' : DiskOwner'[c] = IF c \in diskUsage' THEN PoolLost ELSE PoolFree
      /\ \A s \in Linked : \A c \in Clusters \cap Cover(song[s].table) : DiskOwner[c] = s
      /\ \A s \in Linked' : \A c \in Clusters \cap Cover(song'[s].table) : DiskOwner'[c] = s
  BY <1>b DEF OwnerIsRight
<1>d. ASSUME UNCHANGED <<diskUsage, list, song>> PROVE [Pool!Next]_DiskOwner
  <2>1. UNCHANGED DiskOwner
    BY <1>a, <1>d, SameOwner DEF Linked
  <2> QED BY <2>1
<1>1. ASSUME NEW id \in 1 .. MaxSongs, SelectSong(id) PROVE [Pool!Next]_DiskOwner
  BY <1>1, <1>d DEF SelectSong, usageVars
<1>2. ASSUME NEW n \in Lengths, CreateSong(n) PROVE [Pool!Next]_DiskOwner
  <2> DEFINE s == Least(SongSectors \ {list[i] : i \in DOMAIN list})
  <2>1. s \in SongSectors /\ s \notin Linked
    BY <1>2, SectorAssumption, LeastIsLeast DEF CreateSong, Linked
  <2>2. /\ song' = [song EXCEPT ![s] = EmptyRecord] /\ list' = Append(list, s)
        /\ UNCHANGED diskUsage
    BY <1>2 DEF CreateSong
  <2> HIDE DEF s
  <2>3. /\ DOMAIN list' = 1 .. Len(list) + 1 /\ list'[Len(list) + 1] = s
        /\ \A i \in DOMAIN list : list'[i] = list[i]
    BY <1>0, <2>1, <2>2 DEF TypeOK
  <2>4. Linked' = Linked \cup {s}
    BY <1>0, <2>3 DEF Linked
  <2>5. Cover(song'[s].table) = {} /\ \A t \in SongSectors \ {s} : song'[t] = song[t]
    BY <2>1, <2>2 DEF TypeOK, EmptyRecord, Cover
  <2>6. Linked \subseteq SongSectors
    BY <1>0 DEF Linked
  <2>7. UNCHANGED DiskOwner
    BY <1>a, <2>1, <2>2, <2>4, <2>5, <2>6, SameOwner
  <2> QED BY <2>7
<1>3. ASSUME NEW n \in Lengths, NEW resize \in BOOLEAN, SetLength(n, resize)
      PROVE  [Pool!Next]_DiskOwner
  BY <1>3, <1>d DEF SetLength
<1>4. CASE AllocateCluster
  BY <1>4, <1>d DEF AllocateCluster
<1>5. CASE OutOfSpace
  BY <1>5, <1>d DEF OutOfSpace
<1>6. CASE AppendClusters
  BY <1>6, <1>d DEF AppendClusters, usageVars
<1>7. CASE SaveLengthened
  <2> DEFINE o == obj[job.handle]
             sec == list[o.id]
             rec == [len |-> o.len, audioblocks |-> o.audioblocks, table |-> o.table]
  <2>1. /\ job.stage = "save" /\ o.id \in DOMAIN list
        /\ song' = [song EXCEPT ![sec] = rec]
        /\ diskUsage' = IF o.lengthened THEN memUsage ELSE diskUsage
        /\ UNCHANGED list
    BY <1>7, <1>a DEF SaveLengthened, JobFits
  <2>2. /\ sec \in SongSectors /\ sec \in Linked /\ Linked' = Linked
        /\ Linked \subseteq SongSectors
    BY <1>0, <2>1 DEF Linked
  <2>3. /\ song'[sec].table = o.table
        /\ \A s \in SongSectors \ {sec} : song'[s] = song[s]
    BY <2>1, <2>2 DEF TypeOK
  <2>4. Extends(song[sec].table, o)
    BY <1>7, <1>a, <2>1 DEF SaveLengthened, JobFits
  <2>5. song[sec].table \in Table
    BY <2>2 DEF TypeOK, Record
  <2> HIDE DEF o, sec, rec
  \* The clusters B the song gains, none of which any song had.
  <2>6. PICK B \in SUBSET Clusters :
            /\ B \cap diskUsage = {} /\ B \subseteq diskUsage'
            /\ Cover(o.table) = Cover(song[sec].table) \cup B
    <3>1. CASE o.table = song[sec].table
      <4>1. /\ {} \in SUBSET Clusters /\ {} \cap diskUsage = {} /\ {} \subseteq diskUsage'
            /\ Cover(o.table) = Cover(song[sec].table) \cup {}
        BY <3>1
      <4> QED BY <4>1
    <3>2. ASSUME o.lengthened, NEW B \in SUBSET Clusters, B \cap diskUsage = {},
                 B \subseteq memUsage, o.table = Append(song[sec].table, B)
          PROVE  /\ B \subseteq diskUsage'
                 /\ Cover(o.table) = Cover(song[sec].table) \cup B
      BY <2>1, <2>5, <3>2, CoverOfAppend
    <3> QED BY <2>4, <3>1, <3>2 DEF Extends
  <2> DEFINE L == (Clusters \cap (diskUsage' \ diskUsage)) \ B
             f == [c \in Clusters |-> IF c \in B THEN sec ELSE DiskOwner[c]]
  <2>7. /\ L \in SUBSET Pool!FreeClusters
        /\ B \in SUBSET (Pool!FreeClusters \ L)
        /\ B \subseteq Pool!FreeClusters /\ L \subseteq Pool!FreeClusters \ B
    BY <1>b, <2>6
  <2>8. ASSUME NEW c \in Clusters
        PROVE  DiskOwner'[c] = IF c \in L THEN PoolLost ELSE f[c]
    <3>1. diskUsage \subseteq diskUsage'
      BY <1>a, <2>1 DEF MemoryAhead
    <3>2. CASE c \in B
      BY <1>c, <2>2, <2>3, <2>6, <3>2
    <3>3. CASE c \notin B /\ c \in Listed
      <4>1. PICK s \in Linked : c \in Cover(song[s].table)
        BY <3>3 DEF Listed
      <4>2. c \in Cover(song'[s].table)
        BY <2>2, <2>3, <2>6, <4>1
      <4>3. c \in diskUsage
        BY <1>a, <3>3 DEF ListedAreUsed
      <4> QED BY <1>c, <2>2, <3>3, <4>1, <4>2, <4>3
    <3>4. CASE c \notin B /\ c \notin Listed
      <4>1. c \notin Listed'
        BY <2>2, <2>3, <2>6, <3>4 DEF Listed
      <4> QED BY <1>c, <3>1, <3>4, <4>1
    <3> QED BY <3>2, <3>3, <3>4
  <2>9. DiskOwner' = Pool!Strand(f, L)
    <3> HIDE DEF L
    <3> QED BY <1>b, <2>8, StrandIs
  <2>10. Pool!Claim(sec, B, L)
    BY <2>7, <2>9 DEF Pool!Claim
  <2> HIDE DEF L
  <2> QED BY <2>2, <2>7, <2>10 DEF Pool!Next
<1>8. CASE DeleteSong
  <2> DEFINE id == obj["currsong"].id
             s == list[id]
  <2>1. /\ "currsong" \in open
        /\ song' = [song EXCEPT ![s].len = 0, ![s].audioblocks = 0]
        /\ list' = Without(list, id) /\ diskUsage' = Unmarked(memUsage, song[s].table)
    BY <1>8 DEF DeleteSong
  <2>2. id \in 1 .. Len(list) /\ id \in Nat /\ s \in SongSectors /\ s \in Linked
    BY <1>0, <1>a, <2>1 DEF OpenIsListed
  <2>3. \A t \in SongSectors : song'[t].table = song[t].table
    BY <2>1 DEF TypeOK, Record
  <2>5. Linked' = Linked \ {s}
    BY <1>0, <1>a, <2>1, <2>2, LinkedWithout
  <2>6. Linked \subseteq SongSectors
    BY <1>0 DEF Linked
  <2> HIDE DEF s
  <2> DEFINE L == Clusters \cap (memUsage \ diskUsage)
             f == [c \in Clusters |-> IF DiskOwner[c] = s THEN PoolFree ELSE DiskOwner[c]]
  <2>7. L \in SUBSET Pool!FreeClusters /\ L \subseteq Pool!FreeClusters
    BY <1>b
  <2>8. ASSUME NEW c \in Clusters
        PROVE  DiskOwner'[c] = IF c \in L THEN PoolLost ELSE f[c]
    <3>0. s # PoolFree /\ s # PoolLost
      <4>1. s \in Nat
        BY <2>2, SectorAssumption
      <4> QED BY <4>1 DEF PoolFree, PoolLost
    <3>1. CASE c \in Cover(song[s].table)
      <4>1. c \in diskUsage /\ DiskOwner[c] = s
        BY <1>a, <1>c, <2>2, <3>1 DEF ListedAreUsed, Listed
      <4>2. \A t \in Linked \ {s} : c \notin Cover(song[t].table)
        BY <1>a, <2>2, <3>1 DEF NoCrossLink
      <4>3. \A t \in Linked' : c \notin Cover(song'[t].table)
        BY <2>3, <2>5, <2>6, <4>2
      <4>4. c \notin Listed' /\ c \notin diskUsage'
        BY <2>1, <3>1, <4>3 DEF Listed, Unmarked
      <4> QED BY <1>c, <4>1, <4>4
    <3>2. CASE c \notin Cover(song[s].table) /\ c \in Listed
      <4>1. PICK t \in Linked : c \in Cover(song[t].table)
        BY <3>2 DEF Listed
      <4>2. t # s /\ t \in Linked' /\ c \in Cover(song'[t].table)
        BY <2>3, <2>5, <2>6, <3>2, <4>1
      <4>3. c \in diskUsage /\ DiskOwner[c] = t /\ DiskOwner'[c] = t
        BY <1>a, <1>c, <3>2, <4>1, <4>2 DEF ListedAreUsed
      <4> QED BY <4>2, <4>3
    <3>3. CASE c \notin Listed
      <4>1. c \notin Listed' /\ c \notin Cover(song[s].table)
        BY <2>2, <2>3, <2>5, <2>6, <3>3 DEF Listed
      <4>2. c \in diskUsage' <=> c \in memUsage
        BY <2>1, <4>1 DEF Unmarked
      <4>3. DiskOwner[c] # s
        BY <1>c, <3>0, <3>3
      <4> QED BY <1>a, <1>c, <3>3, <4>1, <4>2, <4>3 DEF MemoryAhead
    <3> QED BY <3>1, <3>2, <3>3
  <2>9. DiskOwner' = Pool!Strand(f, L)
    <3> HIDE DEF L
    <3> QED BY <1>b, <2>8, StrandIs
  <2>10. Pool!Release(s, L)
    BY <2>7, <2>9 DEF Pool!Release
  <2> HIDE DEF L
  <2> QED BY <2>2, <2>7, <2>10 DEF Pool!Next
<1>9. CASE Started
  BY <1>9, <1>d DEF Started
<1>10. CASE SaveThroughDeleted
  BY <1>10 DEF SaveThroughDeleted
<1>11. CASE UNCHANGED vars
  BY <1>11, <1>d DEF vars
<1> QED
  BY <1>1, <1>2, <1>3, <1>4, <1>5, <1>6, <1>7, <1>8, <1>9, <1>10, <1>11
     DEF Next, Reopen, CrashInSave

\* Seen from the drive, allocating and freeing clusters as the code does it,
\* with lengthenings that fail half-way and tables that are re-read, keeps the
\* promises of ClusterPool when no callback runs user actions.
THEOREM PoolImplemented == ~Reentrant => (Spec => ImplementsPool)
<1> SUFFICES ASSUME ~Reentrant PROVE Spec => ImplementsPool
  OBVIOUS
<1>1. Init => Pool!Init
  BY InitPool
<1>2. TypeInv /\ IInv /\ IInv' /\ ~strayed' /\ [Next]_vars => [Pool!Next]_DiskOwner
  BY NextPool
<1>3. Spec => [](TypeInv /\ IInv /\ ~strayed)
  BY Undisturbed
<1> QED BY <1>1, <1>2, <1>3, PTL DEF Spec, ImplementsPool, Pool!Spec

------------------------------------------------------------------------------
(* Space gets lost only by failed lengthenings.                             *)

\* Between lengthenings, and between one and the saving of its song, what is
\* set in memory is set on the drive, stranded or in the table to be saved.
MemoryAccounted ==
    /\ job.stage = "idle" =>
            memUsage \cap Clusters \subseteq diskUsage \cup stranded
    /\ job.stage = "save" =>
            memUsage \cap Clusters
                \subseteq diskUsage \cup stranded \cup Cover(obj[job.handle].table)

LostInv == MemoryAccounted /\ LostOnlyByFailure

LEMMA InitLostInv == Init => LostInv
<1> SUFFICES ASSUME Init PROVE LostInv
  OBVIOUS
<1>1. job.stage = "idle" /\ memUsage = diskUsage /\ stranded = diskUsage \cap Clusters
  BY DEF Init, Idle
<1>2. LostOnlyByFailure
  BY <1>1 DEF LostOnlyByFailure, Unowned
<1> QED BY <1>1, <1>2 DEF LostInv, MemoryAccounted

\* Beginning a lengthening strands nothing, and forgets no stranded cluster
\* that is marked as used on the drive.
LEMMA BeginLengthLoses ==
    ASSUME TypeOK, MemoryAccounted, job.stage = "idle", UNCHANGED diskUsage,
           NEW h \in Handles, NEW o \in Object, NEW n \in Nat, NEW resize \in BOOLEAN,
           BeginLength(h, o, n, resize)
    PROVE  /\ MemoryAccounted'
           /\ stranded \cap diskUsage \subseteq stranded'
<1>1. CASE /\ obj' = [obj EXCEPT ![h] = Fitted(o, n)]
           /\ job' = [Idle EXCEPT !.stage = "save", !.handle = h]
           /\ UNCHANGED <<memUsage, stranded>>
  <2>1. job'.stage = "save" /\ job'.handle = h
    BY <1>1 DEF Idle
  <2> QED BY <1>1, <2>1 DEF MemoryAccounted
<1>2. CASE UNCHANGED <<open, obj, memUsage, stranded, job>>
  BY <1>2 DEF MemoryAccounted
<1>3. CASE /\ obj' = [obj EXCEPT ![h] = [o EXCEPT !.len = n]]
           /\ memUsage' = diskUsage
           /\ stranded' = stranded \cap diskUsage
           /\ job' = [stage |-> "alloc", handle |-> h, copy |-> diskUsage,
                      left |-> RequiredBlocks(n) - AudioBlocks(o.table),
                      last |-> Undefined, batch |-> {}, oldlen |-> o.len,
                      newlen |-> n, resize |-> resize]
  <2>1. job'.stage = "alloc" /\ job'.handle = h
    BY <1>3
  <2> QED BY <1>3, <2>1 DEF MemoryAccounted
<1> QED BY <1>1, <1>2, <1>3 DEF BeginLength

LEMMA NextLostInv ==
    ASSUME ~Reentrant
    PROVE  TypeInv /\ IInv /\ LostInv /\ [Next]_vars => LostInv'
<1> SUFFICES ASSUME TypeInv, IInv, LostInv, [Next]_vars PROVE LostInv'
  OBVIOUS
<1> USE DEF TypeInv, Shape
<1>v. parentproject = "valid" /\ ~Callback
  BY DEF TypeOK, DeletedInCallback, Callback
<1>0. /\ \A i \in DOMAIN list : list[i] \in SongSectors /\ list[i] \in Linked
      /\ list \in Seq(SongSectors) /\ Len(list) \in Nat /\ DOMAIN list = 1 .. Len(list)
      /\ obj["currsong"] \in Object /\ obj[job.handle] \in Object
      /\ "currsong" \in Handles /\ "newsong" \in Handles /\ job.handle \in Handles
      /\ Linked \subseteq SongSectors
  BY DEF TypeOK, Linked, JobType, Handles
<1>a. /\ NoCrossLink /\ ListedAreUsed /\ MemoryAhead /\ OpenIsListed /\ ListDistinct
      /\ JobFits /\ JobHasSong /\ MemoryAccounted /\ LostOnlyByFailure
  BY DEF IInv, LostInv
\* A step that keeps what songs have and drops nothing from stranded that the
\* drive marks as used loses no space.
<1>b. ASSUME UNCHANGED <<diskUsage, Listed>>, stranded \cap diskUsage \subseteq stranded'
      PROVE  LostOnlyByFailure'
  BY <1>a, <1>b DEF LostOnlyByFailure, Unowned
<1>c. UNCHANGED <<list, song>> => UNCHANGED Listed
  BY DEF Listed, Linked
<1>1. ASSUME NEW id \in 1 .. MaxSongs, SelectSong(id) PROVE LostInv'
  <2>1. /\ job.stage = "idle"
        /\ UNCHANGED <<diskUsage, memUsage, stranded, list, song, job>>
    BY <1>1, <1>v DEF SelectSong, UserTurn, usageVars
  <2> QED BY <1>a, <1>b, <1>c, <2>1 DEF LostInv, MemoryAccounted
<1>2. ASSUME NEW n \in Lengths, CreateSong(n) PROVE LostInv'
  <2> DEFINE s == Least(SongSectors \ {list[i] : i \in DOMAIN list})
             new == Opened(EmptyRecord, Len(list) + 1)
  <2>1. s \in SongSectors /\ s \notin Linked
    BY <1>2, SectorAssumption, LeastIsLeast DEF CreateSong, Linked
  <2>2. /\ song' = [song EXCEPT ![s] = EmptyRecord] /\ list' = Append(list, s)
        /\ job.stage = "idle" /\ UNCHANGED diskUsage
    BY <1>2, <1>v DEF CreateSong, UserTurn
  <2>3. \/ UNCHANGED <<memUsage, stranded, job>>
        \/ BeginLength("newsong", new, n, FALSE)
    BY <1>2 DEF CreateSong
  <2>4. new \in Object /\ new.id = Len(list) + 1
    BY <1>0, EmptyRecordType, OpenedType DEF Opened
  <2> HIDE DEF s, new
  <2>5. /\ DOMAIN list' = 1 .. Len(list) + 1 /\ list'[Len(list) + 1] = s
        /\ \A i \in DOMAIN list : list'[i] = list[i]
    BY <1>0, <2>1, <2>2
  <2>6. Linked' = Linked \cup {s}
    BY <1>0, <2>5 DEF Linked
  <2>7. Cover(song'[s].table) = {} /\ \A t \in Linked : song'[t] = song[t]
    BY <1>0, <2>1, <2>2 DEF TypeOK, EmptyRecord, Cover
  <2>8. UNCHANGED Listed
    BY <2>6, <2>7 DEF Listed
  <2>9. CASE UNCHANGED <<memUsage, stranded, job>>
    <3>1. LostOnlyByFailure'
      BY <1>b, <2>2, <2>8, <2>9
    <3> QED BY <1>a, <2>2, <2>9, <3>1 DEF LostInv, MemoryAccounted
  <2>10. CASE BeginLength("newsong", new, n, FALSE)
    <3>1. n \in Nat
      BY SizeAssumption
    <3>2. MemoryAccounted' /\ stranded \cap diskUsage \subseteq stranded'
      BY <1>0, <1>a, <2>2, <2>4, <2>10, <3>1, BeginLengthLoses
    <3> QED BY <1>b, <2>2, <2>8, <3>2 DEF LostInv
  <2> QED BY <2>3, <2>9, <2>10
<1>3. ASSUME NEW n \in Lengths, NEW resize \in BOOLEAN, SetLength(n, resize)
      PROVE  LostInv'
  <2>1. /\ job.stage = "idle" /\ "currsong" \in open
        /\ BeginLength("currsong", obj["currsong"], n, resize)
        /\ UNCHANGED <<diskUsage, list, song>>
    BY <1>3 DEF SetLength, UserTurn
  <2>2. n \in Nat
    BY SizeAssumption
  <2>3. MemoryAccounted' /\ stranded \cap diskUsage \subseteq stranded'
    BY <1>0, <1>a, <2>1, <2>2, BeginLengthLoses
  <2> QED BY <1>b, <1>c, <2>1, <2>3 DEF LostInv
<1>4. CASE AllocateCluster
  <2> DEFINE c == NextFree(obj[job.handle], job.last)
             left == IF job.left >= BlocksPerCluster THEN job.left - BlocksPerCluster ELSE 0
             usage == memUsage \cup {c}
  <2>1. /\ job.stage = "alloc"
        /\ UNCHANGED <<diskUsage, list, song, obj, stranded>>
    BY <1>4 DEF AllocateCluster
  <2>2. job' = IF left > 0 THEN [job EXCEPT !.left = left, !.last = c]
               ELSE [job EXCEPT !.left = 0, !.last = c, !.stage = "append",
                                !.batch = Changed(job.copy, usage)]
    BY <1>4 DEF AllocateCluster
  <2> HIDE DEF left, c, usage
  <2>3. job'.handle = job.handle /\ job'.stage \in {"alloc", "append"}
    BY <2>1, <2>2 DEF TypeOK, JobType
  <2> QED BY <1>a, <1>b, <1>c, <2>1, <2>3 DEF LostInv, MemoryAccounted
<1>5. CASE OutOfSpace
  <2>1. /\ job.stage = "alloc" /\ job' = Idle
        /\ stranded' = stranded \cup (Clusters \cap (memUsage \ job.copy))
        /\ UNCHANGED <<diskUsage, memUsage, list, song>>
    BY <1>5 DEF OutOfSpace
  <2>2. job.copy = diskUsage
    BY <1>a, <1>v, <2>1 DEF JobFits
  <2>3. job'.stage = "idle"
    BY <2>1 DEF Idle
  <2>4. memUsage' \cap Clusters \subseteq diskUsage' \cup stranded'
    BY <2>1, <2>2
  <2> QED BY <1>b, <1>c, <2>1, <2>3, <2>4 DEF LostInv, MemoryAccounted
<1>6. CASE AppendClusters
  <2> DEFINE o == obj[job.handle]
             B == job.batch \cap Clusters
  <2>1. /\ job.stage = "append"
        /\ obj'[job.handle].table = Append(o.table, B) /\ obj'[job.handle].id = o.id
        /\ job' = [Idle EXCEPT !.stage = "save", !.handle = job.handle]
        /\ UNCHANGED <<diskUsage, memUsage, stranded, list, song>>
    BY <1>0, <1>6 DEF AppendClusters, usageVars, TypeOK, Object
  <2>2. job'.stage = "save" /\ job'.handle = job.handle
    BY <2>1 DEF Idle
  <2>3. job.batch = memUsage \ diskUsage
    BY <1>a, <1>v, <2>1 DEF JobFits
  <2>4. o.table \in Table /\ B \in SUBSET Clusters
    BY <1>0 DEF Object
  <2> HIDE DEF o
  <2>5. Cover(Append(o.table, B)) = Cover(o.table) \cup B
    <3> HIDE DEF B
    <3> QED BY <2>4, CoverOfAppend
  <2>6. MemoryAccounted'
    BY <2>1, <2>2, <2>3, <2>5 DEF MemoryAccounted
  <2> QED BY <1>b, <1>c, <2>1, <2>6 DEF LostInv
<1>7. CASE SaveLengthened
  <2> DEFINE o == obj[job.handle]
             sec == list[o.id]
             rec == [len |-> o.len, audioblocks |-> o.audioblocks, table |-> o.table]
  <2>1. /\ job.stage = "save" /\ o.id \in DOMAIN list
        /\ song' = [song EXCEPT ![sec] = rec]
        /\ diskUsage' = IF o.lengthened THEN memUsage ELSE diskUsage
        /\ job' = Idle
        /\ UNCHANGED <<memUsage, list, stranded>>
    BY <1>7, <1>a, <1>v DEF SaveLengthened, JobHasSong
  <2>2. sec \in Linked /\ sec \in SongSectors /\ Linked' = Linked
    BY <1>0, <2>1 DEF Linked
  <2>3. /\ song'[sec].table = o.table
        /\ \A s \in Linked \ {sec} : song'[s] = song[s]
    BY <1>0, <2>1, <2>2 DEF TypeOK
  <2>4. job'.stage = "idle"
    BY <2>1 DEF Idle
  <2>5. /\ Extends(song[sec].table, o)
        /\ memUsage \cap Clusters \subseteq diskUsage \cup stranded \cup Cover(o.table)
    BY <1>a, <1>v, <2>1 DEF JobFits, MemoryAccounted
  <2>6. song[sec].table \in Table
    BY <2>2 DEF TypeOK, Record
  <2>7. Cover(song[sec].table) \subseteq diskUsage
    BY <1>a, <2>2 DEF ListedAreUsed, Listed
  <2> HIDE DEF o, sec, rec
  <2>8. Cover(song[sec].table) \subseteq Cover(o.table)
    <3>1. ASSUME NEW B \in SUBSET Clusters, o.table = Append(song[sec].table, B)
          PROVE  Cover(song[sec].table) \subseteq Cover(o.table)
      BY <2>6, <3>1, CoverOfAppend
    <3> QED BY <2>5, <3>1 DEF Extends
  <2>9. Listed' = Listed \cup Cover(o.table)
    <3>1. \A c : c \in Listed' <=> \E s \in Linked : c \in Cover(song'[s].table)
      BY <2>2 DEF Listed
    <3>2. \A c : c \in Listed <=> \E s \in Linked : c \in Cover(song[s].table)
      BY DEF Listed
    <3>3. \A c : c \in Listed' <=> c \in Listed \/ c \in Cover(o.table)
      BY <2>2, <2>3, <2>8, <3>1, <3>2
    <3> QED BY <3>3
  <2>10. memUsage \cap Clusters \subseteq diskUsage' \cup stranded
    BY <2>1, <2>5, <2>7 DEF Extends
  <2>11. Unowned' \subseteq stranded'
    BY <1>a, <2>1, <2>5, <2>9 DEF LostOnlyByFailure, Unowned
  <2> QED BY <2>1, <2>4, <2>10, <2>11
          DEF LostInv, MemoryAccounted, LostOnlyByFailure
<1>8. CASE DeleteSong
  <2> DEFINE id == obj["currsong"].id
             s == list[id]
  <2>1. /\ "currsong" \in open /\ job.stage = "idle"
        /\ song' = [song EXCEPT ![s].len = 0, ![s].audioblocks = 0]
        /\ list' = Without(list, id)
        /\ memUsage' = Unmarked(memUsage, song[s].table)
        /\ diskUsage' = Unmarked(memUsage, song[s].table)
        /\ UNCHANGED <<job, stranded>>
    BY <1>8, <1>v DEF DeleteSong, UserTurn
  <2>2. id \in DOMAIN list /\ s \in SongSectors /\ s \in Linked
    BY <1>0, <1>a, <2>1 DEF OpenIsListed
  <2>3. \A t \in Linked : song'[t].table = song[t].table
    BY <1>0, <2>1 DEF TypeOK, Record
  <2>4. Linked' = Linked \ {s}
    BY <1>0, <1>a, <2>1, <2>2, LinkedWithout
  <2> HIDE DEF id, s
  <2>5. \A c : c \in Listed => c \in Listed' \/ c \in Cover(song[s].table)
    BY <2>3, <2>4 DEF Listed
  <2>6. Unowned' \subseteq stranded'
    BY <1>a, <2>1, <2>5 DEF LostOnlyByFailure, Unowned, MemoryAccounted, Unmarked
  <2> QED BY <2>1, <2>6 DEF LostInv, MemoryAccounted, LostOnlyByFailure
<1>9. CASE Started
  <2>1. /\ memUsage' = diskUsage /\ job'.stage = "idle" /\ stranded' = stranded \cap diskUsage
        /\ UNCHANGED <<diskUsage, list, song>>
    BY <1>9 DEF Started, Idle
  <2>2. LostOnlyByFailure'
    BY <1>b, <1>c, <2>1
  <2> QED BY <2>1, <2>2 DEF LostInv, MemoryAccounted
<1>10. CASE SaveThroughDeleted
  BY <1>v, <1>10 DEF SaveThroughDeleted
<1>11. CASE UNCHANGED vars
  BY <1>a, <1>b, <1>c, <1>11 DEF vars, LostInv, MemoryAccounted
<1> QED
  BY <1>1, <1>2, <1>3, <1>4, <1>5, <1>6, <1>7, <1>8, <1>9, <1>10, <1>11
     DEF Next, Reopen, CrashInSave

\* Without callbacks, a cluster that is marked as used on the drive and that
\* no song lists was left set by a failed lengthening, or was found so: no
\* other step, and no order of them, loses space.
THEOREM LossExplained == ~Reentrant => (Spec => []LostOnlyByFailure)
<1> SUFFICES ASSUME ~Reentrant PROVE Spec => []LostOnlyByFailure
  OBVIOUS
<1>1. Init => LostInv
  BY InitLostInv
<1>2. TypeInv /\ IInv /\ LostInv /\ [Next]_vars => LostInv'
  BY NextLostInv
<1>3. Spec => [](TypeInv /\ IInv /\ ~strayed)
  BY Undisturbed
<1>4. LostInv => LostOnlyByFailure
  BY DEF LostInv
<1> QED BY <1>1, <1>2, <1>3, <1>4, PTL DEF Spec

\* Without callbacks, what is appended to a song was allocated and still is
\* when it is appended, as the comment in setallocinfo says.  It takes a
\* callback that deletes a song meanwhile to make it false.
THEOREM AppendedStayAllocated == ~Reentrant => (Spec => []AppendedWereAllocated)
<1> SUFFICES ASSUME ~Reentrant PROVE Spec => []AppendedWereAllocated
  OBVIOUS
<1>1. Spec => [](TypeInv /\ IInv /\ ~strayed)
  BY Undisturbed
<1>2. TypeInv /\ IInv => AppendedWereAllocated
  BY DEF TypeInv, Shape, TypeOK, DeletedInCallback, Callback, IInv, JobFits,
         AppendedWereAllocated
<1> QED BY <1>1, <1>2, PTL

------------------------------------------------------------------------------
(* Every saved song has the clusters its length needs.                      *)

\* Appending the clusters B to a table appends their audio blocks.
LEMMA AppendedBlocks ==
    ASSUME NEW t \in Table, NEW B \in SUBSET Clusters
    PROVE  /\ Cardinality(B) \in Nat
           /\ AudioBlocks(Append(t, B)) = AudioBlocks(t) + BlocksPerCluster * Cardinality(B)
<1> DEFINE u == Append(t, B)
           n == Len(t) + 1
           Old == {p \in (DOMAIN t) \X Clusters : p[2] \in t[p[1]]}
           New == {n} \X B
           All == {p \in (DOMAIN u) \X Clusters : p[2] \in u[p[1]]}
<1>1. /\ DOMAIN u = 1 .. n /\ DOMAIN t = 1 .. Len(t) /\ Len(t) \in Nat
      /\ \A i \in DOMAIN t : u[i] = t[i]
      /\ u[n] = B
  BY CoverOfAppend
<1>2. IsFiniteSet(Clusters) /\ IsFiniteSet(B)
  <2>1. IsFiniteSet(Clusters)
    BY SizeAssumption, FS_Interval DEF Clusters
  <2> QED BY <2>1, FS_Subset
<1>3. IsFiniteSet(Old)
  <2>1. IsFiniteSet(DOMAIN t)
    BY <1>1, FS_Interval
  <2>2. IsFiniteSet((DOMAIN t) \X Clusters)
    BY <1>2, <2>1, FS_Product
  <2> QED BY <2>2, FS_Subset
<1>4. IsFiniteSet(New) /\ Cardinality(New) = Cardinality(B)
  <2>1. IsFiniteSet({n}) /\ Cardinality({n}) = 1
    BY FS_Singleton
  <2>2. Cardinality(B) \in Nat
    BY <1>2, FS_CardinalityType
  <2> HIDE DEF n
  <2>3. IsFiniteSet(New) /\ Cardinality(New) = 1 * Cardinality(B)
    BY <1>2, <2>1, FS_Product
  <2> QED BY <2>2, <2>3
<1>5. Old \cap New = {}
  <2>1. n \notin DOMAIN t
    BY <1>1
  <2> QED BY <2>1
<1>6. All = Old \cup New
  <2>1. DOMAIN u = DOMAIN t \cup {n} /\ n \notin DOMAIN t
    BY <1>1
  <2> HIDE DEF u, n
  <2>2. ASSUME NEW p PROVE p \in All <=> p \in Old \cup New
    <3>1. CASE p \in (DOMAIN t) \X Clusters
      BY <1>1, <2>1, <3>1
    <3>2. CASE p \in {n} \X Clusters
      BY <1>1, <2>1, <3>2
    <3>3. CASE p \notin (DOMAIN u) \X Clusters
      BY <2>1, <3>3
    <3> QED BY <2>1, <3>1, <3>2, <3>3
  <2> QED BY <2>2
<1>7. /\ Cardinality(Old) \in Nat /\ Cardinality(B) \in Nat
      /\ Cardinality(All) = Cardinality(Old) + Cardinality(B)
  <2>1. Cardinality(Old) \in Nat /\ Cardinality(B) \in Nat /\ Cardinality({}) = 0
    BY <1>2, <1>3, FS_CardinalityType, FS_EmptySet
  <2> HIDE DEF Old, New, All
  <2>2. Cardinality(Old \cup New)
            = Cardinality(Old) + Cardinality(New) - Cardinality(Old \cap New)
    BY <1>3, <1>4, FS_Union
  <2>3. Cardinality(All) = Cardinality(Old \cup New) /\ Cardinality(Old \cap New) = 0
    BY <1>5, <1>6, <2>1
  <2>4. Cardinality(New) = Cardinality(B)
    BY <1>4
  <2> QED BY <2>1, <2>2, <2>3, <2>4
<1>8. AudioBlocks(u) = BlocksPerCluster * Cardinality(All)
      /\ AudioBlocks(t) = BlocksPerCluster * Cardinality(Old)
  BY DEF AudioBlocks
<1> HIDE DEF Old, New, All
<1>9. BlocksPerCluster * (Cardinality(Old) + Cardinality(B))
        = BlocksPerCluster * Cardinality(Old) + BlocksPerCluster * Cardinality(B)
  BY <1>7, SizeAssumption
<1> QED BY <1>7, <1>8, <1>9

\* Blocks that are all full need no more blocks, and no samples none.
LEMMA FullBlocks ==
    /\ RequiredBlocks(0) = 0
    /\ \A b \in Nat : RequiredBlocks(BlockWamples * b) = b
<1>1. BlockWamples \in Nat /\ BlockWamples > 0
  BY SizeAssumption
<1>2. ASSUME NEW b \in Nat PROVE RequiredBlocks(BlockWamples * b) = b
  <2> DEFINE x == BlockWamples * b + BlockWamples - 1
  <2>1. x \in Nat /\ x = BlockWamples * b + (BlockWamples - 1)
    BY <1>1
  <2>2. x \div BlockWamples = b
    BY <1>1, <2>1, Z3
  <2> QED BY <2>2 DEF RequiredBlocks
<1>3. RequiredBlocks(0) = 0
  <2>1. BlockWamples * 0 = 0
    BY <1>1
  <2> QED BY <1>2, <2>1
<1> QED BY <1>2, <1>3

\* The clusters allocated so far for the lengthening in progress.
GainedClusters == (memUsage \ job.copy) \cap Clusters
GainedBlocks == BlocksPerCluster * Cardinality(GainedClusters)

\* An allocation table, or an object, has the blocks its length needs.
Backed(len, audioblocks, table) ==
    /\ RequiredBlocks(len) <= AudioBlocks(table)
    /\ audioblocks <= AudioBlocks(table)

\* What no cluster stands for is never free.
SetBits == Bits \ Clusters \subseteq diskUsage

\* An object in use has the blocks it needs, except while it is lengthened.
SelectedBacked ==
    LET o == obj["currsong"] IN
    "currsong" \in open /\ ~(job.stage # "idle" /\ job.handle = "currsong")
        => Backed(o.len, o.audioblocks, o.table)

\* During a lengthening the blocks in the table, those of the clusters gained
\* and those still to be allocated are enough, and so are those of the table
\* alone for the length to go back to.
JobBacked ==
    LET o == obj[job.handle] IN
    parentproject = "valid" =>
        /\ job.stage = "save" => Backed(o.len, o.audioblocks, o.table)
        /\ job.stage \in {"alloc", "append"} =>
            /\ job.handle = "currsong" => RequiredBlocks(job.oldlen) <= AudioBlocks(o.table)
            /\ o.audioblocks <= AudioBlocks(o.table)
            /\ RequiredBlocks(o.len) <= AudioBlocks(o.table) + GainedBlocks + job.left
        /\ job.stage = "append" => job.left = 0

BackInv == SetBits /\ SelectedBacked /\ JobBacked /\ SavedLengthIsBacked

LEMMA InitBackInv == Init => BackInv
<1> SUFFICES ASSUME Init PROVE BackInv
  OBVIOUS
<1>1. list = <<>> /\ DOMAIN list = {} /\ Linked = {}
  BY DEF Init, Linked
<1>2. open = {} /\ job.stage = "idle" /\ SetBits
  BY DEF Init, Idle, SetBits
<1> QED BY <1>1, <1>2 DEF BackInv, SelectedBacked, JobBacked, SavedLengthIsBacked

\* A song without a length has the blocks it needs.
LEMMA EmptyBacked ==
    ASSUME NEW table \in Table
    PROVE  Backed(0, 0, table)
<1>1. AudioBlocks(table) \in Nat /\ RequiredBlocks(0) = 0
  BY AudioBlocksType, FullBlocks
<1> QED BY <1>1 DEF Backed

\* A lengthening begun for an object that has the blocks it needs is backed.
LEMMA BeginLengthBacked ==
    ASSUME TypeOK, JobBacked, job.stage = "idle",
           NEW h \in Handles, NEW o \in Object, NEW n \in Nat, NEW resize \in BOOLEAN,
           BeginLength(h, o, n, resize), Backed(o.len, o.audioblocks, o.table)
    PROVE  /\ JobBacked'
           /\ \/ job'.stage # "idle" /\ job'.handle = h
              \/ obj' = obj /\ UNCHANGED <<job, open>>
           /\ open' \subseteq open \cup {h}
           /\ \A g \in Handles \ {h} : obj'[g] = obj[g]
<1>0. /\ o.table \in Table /\ AudioBlocks(o.table) \in Nat
      /\ RequiredBlocks(n) \in Nat
      /\ RequiredBlocks(o.len) <= AudioBlocks(o.table)
      /\ o.audioblocks <= AudioBlocks(o.table)
  BY AudioBlocksType, RequiredBlocksType DEF Object, Backed
<1>1. CASE /\ LengthFits(o, n)
           /\ obj' = [obj EXCEPT ![h] = Fitted(o, n)]
           /\ open' = open \cup {h}
           /\ job' = [Idle EXCEPT !.stage = "save", !.handle = h]
  <2>1. job'.stage = "save" /\ job'.handle = h
    BY <1>1 DEF Idle
  <2>2. obj'[h] = Fitted(o, n) /\ \A g \in Handles \ {h} : obj'[g] = obj[g]
    BY <1>1 DEF TypeOK
  <2>3. Backed(obj'[h].len, obj'[h].audioblocks, obj'[h].table)
    <3>1. CASE n = 0
      <4>1. Fitted(o, n).len = 0 /\ Fitted(o, n).audioblocks = 0 /\ Fitted(o, n).table = o.table
        BY <3>1 DEF Fitted, Object
      <4> QED BY <1>0, <2>2, <4>1, EmptyBacked
    <3>2. CASE n # 0
      <4>1. /\ Fitted(o, n).len = n /\ Fitted(o, n).audioblocks = o.audioblocks
            /\ Fitted(o, n).table = o.table
        BY <3>2 DEF Fitted, Object
      <4>2. AudioBlocks(o.table) = RequiredBlocks(n)
        BY <1>1, <3>2 DEF LengthFits
      <4> QED BY <1>0, <2>2, <4>1, <4>2 DEF Backed
    <3> QED BY <3>1, <3>2
  <2>4. JobBacked'
    BY <2>1, <2>3 DEF JobBacked
  <2> QED BY <1>1, <2>1, <2>2, <2>4
<1>2. CASE UNCHANGED <<open, obj, memUsage, stranded, job>>
  BY <1>2 DEF JobBacked
<1>3. CASE /\ ~LengthFits(o, n) /\ ~LengthRefused(o, n)
           /\ obj' = [obj EXCEPT ![h] = [o EXCEPT !.len = n]]
           /\ open' = open \cup {h}
           /\ memUsage' = diskUsage
           /\ job' = [stage |-> "alloc", handle |-> h, copy |-> diskUsage,
                      left |-> RequiredBlocks(n) - AudioBlocks(o.table),
                      last |-> Undefined, batch |-> {}, oldlen |-> o.len,
                      newlen |-> n, resize |-> resize]
  <2>1. /\ job'.stage = "alloc" /\ job'.handle = h /\ job'.oldlen = o.len
        /\ job'.copy = diskUsage /\ job'.left = RequiredBlocks(n) - AudioBlocks(o.table)
    BY <1>3
  <2>2. /\ obj'[h].len = n /\ obj'[h].table = o.table /\ obj'[h].audioblocks = o.audioblocks
        /\ \A g \in Handles \ {h} : obj'[g] = obj[g]
    BY <1>3 DEF TypeOK, Object
  <2>3. GainedBlocks' = 0
    <3>1. GainedClusters' = {}
      BY <1>3, <2>1 DEF GainedClusters
    <3>2. Cardinality(GainedClusters') = 0
      BY <3>1, FS_EmptySet
    <3> QED BY <3>2, SizeAssumption DEF GainedBlocks
  <2>4. RequiredBlocks(n) <= AudioBlocks(o.table) + GainedBlocks' + job'.left
    BY <1>0, <2>1, <2>3
  <2>5. JobBacked'
    BY <1>0, <2>1, <2>2, <2>4 DEF JobBacked
  <2> QED BY <1>3, <2>1, <2>2, <2>5
<1> QED BY <1>1, <1>2, <1>3 DEF BeginLength

\* A table lists clusters only.
LEMMA CoverType ==
    ASSUME NEW t \in Table
    PROVE  Cover(t) \subseteq Clusters
<1>1. \A i \in DOMAIN t : t[i] \in SUBSET Clusters
  BY DEF Table
<1> QED BY <1>1 DEF Cover

LEMMA NextBackInv == TypeInv /\ IInv /\ BackInv /\ [Next]_vars => strayed' \/ BackInv'
<1> SUFFICES ASSUME TypeInv, IInv, BackInv, [Next]_vars, ~strayed' PROVE BackInv'
  OBVIOUS
<1> USE DEF TypeInv, Shape
<1> DEFINE cur == obj["currsong"]
<1>0. /\ \A i \in DOMAIN list : list[i] \in SongSectors /\ list[i] \in Linked
      /\ list \in Seq(SongSectors) /\ Len(list) \in Nat /\ DOMAIN list = 1 .. Len(list)
      /\ cur \in Object /\ obj[job.handle] \in Object
      /\ "currsong" \in Handles /\ "newsong" \in Handles /\ job.handle \in Handles
      /\ Linked \subseteq SongSectors
  BY DEF TypeOK, Linked, JobType, Handles
<1>a. /\ MemoryAhead /\ OpenIsListed /\ ListDistinct /\ JobFits
      /\ SetBits /\ SelectedBacked /\ JobBacked /\ SavedLengthIsBacked
  BY DEF IInv, BackInv
<1>b. \A s \in Linked : Backed(song[s].len, song[s].audioblocks, song[s].table)
  BY <1>a DEF SavedLengthIsBacked, Backed
<1>c. (\A s \in Linked' : Backed(song'[s].len, song'[s].audioblocks, song'[s].table))
        => SavedLengthIsBacked'
  BY DEF SavedLengthIsBacked, Backed
<1>d. UNCHANGED <<list, song>> => SavedLengthIsBacked'
  BY <1>a DEF SavedLengthIsBacked, Linked
\* A user action leaves no lengthening to claim anything of.
<1>e. ASSUME UserTurn \/ Callback, ProjectReplaced, UNCHANGED job PROVE JobBacked'
  <2>1. CASE UserTurn
    BY <1>e, <2>1 DEF UserTurn, JobBacked
  <2>2. CASE ~UserTurn
    BY <1>e, <2>2 DEF ProjectReplaced, JobBacked
  <2> QED BY <2>1, <2>2
<1>1. ASSUME NEW id \in 1 .. MaxSongs, SelectSong(id) PROVE BackInv'
  <2>1. /\ id \in DOMAIN list
        /\ obj'["currsong"] = Opened(song[list[id]], id)
        /\ UNCHANGED <<diskUsage, list, song>>
    BY <1>0, <1>1 DEF SelectSong, usageVars, TypeOK
  <2>2. Backed(song[list[id]].len, song[list[id]].audioblocks, song[list[id]].table)
    BY <1>0, <1>b, <2>1
  <2>3. SelectedBacked'
    BY <2>1, <2>2 DEF SelectedBacked, Opened
  <2>4. JobBacked'
    BY <1>1, <1>e DEF SelectSong
  <2> QED BY <1>a, <1>d, <2>1, <2>3, <2>4 DEF BackInv, SetBits
<1>2. ASSUME NEW n \in Lengths, CreateSong(n) PROVE BackInv'
  <2> DEFINE s == Least(SongSectors \ {list[i] : i \in DOMAIN list})
             new == Opened(EmptyRecord, Len(list) + 1)
  <2>1. s \in SongSectors /\ s \notin Linked
    BY <1>2, SectorAssumption, LeastIsLeast DEF CreateSong, Linked
  <2>2. /\ song' = [song EXCEPT ![s] = EmptyRecord] /\ list' = Append(list, s)
        /\ UNCHANGED diskUsage
    BY <1>2 DEF CreateSong
  <2>3. \/ /\ obj' = [obj EXCEPT !["currsong"] = new]
           /\ UNCHANGED job
        \/ /\ BeginLength("newsong", new, n, FALSE)
           /\ job.stage = "idle"
    <3>1. CASE n > 0 /\ BeginLength("newsong", new, n, FALSE)
      <4>1. n # 0
        BY <3>1, SizeAssumption
      <4> QED BY <1>2, <3>1, <4>1 DEF CreateSong, UserTurn
    <3> QED BY <1>2, <3>1 DEF CreateSong
  <2>4. new \in Object /\ new.len = 0 /\ new.audioblocks = 0 /\ new.table \in Table
    <3>1. new \in Object
      BY <1>0, EmptyRecordType, OpenedType
    <3>2. new.len = 0 /\ new.audioblocks = 0
      BY DEF Opened, EmptyRecord
    <3>3. new.table \in Table
      BY <3>1 DEF Object
    <3> QED BY <3>1, <3>2, <3>3
  <2>5. Backed(new.len, new.audioblocks, new.table)
    BY <2>4, EmptyBacked
  <2> HIDE DEF s, new
  <2>6. \A t \in Linked' : t = s \/ t \in Linked
    <3>1. /\ DOMAIN list' = 1 .. Len(list) + 1 /\ list'[Len(list) + 1] = s
          /\ \A i \in DOMAIN list : list'[i] = list[i]
      BY <1>0, <2>1, <2>2
    <3> QED BY <1>0, <3>1 DEF Linked
  <2>7. SavedLengthIsBacked'
    <3>1. song'[s] = EmptyRecord /\ \A t \in Linked : song'[t] = song[t]
      BY <1>0, <2>1, <2>2 DEF TypeOK
    <3>2. Backed(EmptyRecord.len, EmptyRecord.audioblocks, EmptyRecord.table)
      <4>1. EmptyRecord.len = 0 /\ EmptyRecord.audioblocks = 0 /\ EmptyRecord.table \in Table
        BY EmptyRecordType DEF EmptyRecord, Record
      <4> QED BY <4>1, EmptyBacked
    <3> QED BY <1>b, <1>c, <2>6, <3>1, <3>2
  <2>8. CASE /\ obj' = [obj EXCEPT !["currsong"] = new]
             /\ UNCHANGED job
    <3>1. obj'["currsong"] = new
      BY <1>0, <2>8 DEF TypeOK
    <3>2. JobBacked'
      BY <1>2, <1>e, <2>8 DEF CreateSong
    <3> QED BY <1>a, <2>2, <2>5, <2>7, <2>8, <3>1, <3>2
            DEF BackInv, SetBits, SelectedBacked
  <2>9. CASE /\ BeginLength("newsong", new, n, FALSE)
             /\ job.stage = "idle"
    <3>1. n \in Nat
      BY SizeAssumption
    <3>2. /\ JobBacked' /\ obj'["currsong"] = cur /\ open' \subseteq open \cup {"newsong"}
          /\ \/ job'.stage # "idle" /\ job'.handle = "newsong"
             \/ UNCHANGED job
      BY <1>0, <1>a, <2>2, <2>4, <2>5, <2>9, <3>1, BeginLengthBacked
    <3>3. SelectedBacked'
      BY <1>a, <2>2, <2>9, <3>2 DEF SelectedBacked
    <3> QED BY <1>a, <2>2, <2>7, <3>2, <3>3 DEF BackInv, SetBits
  <2> QED BY <2>3, <2>8, <2>9
<1>3. ASSUME NEW n \in Lengths, NEW resize \in BOOLEAN, SetLength(n, resize)
      PROVE  BackInv'
  <2>1. /\ job.stage = "idle" /\ "currsong" \in open
        /\ BeginLength("currsong", cur, n, resize)
        /\ UNCHANGED <<diskUsage, list, song>>
    BY <1>3 DEF SetLength, UserTurn
  <2>2. n \in Nat /\ Backed(cur.len, cur.audioblocks, cur.table)
    BY <1>a, <2>1, SizeAssumption DEF SelectedBacked
  <2>3. /\ JobBacked'
        /\ \/ job'.stage # "idle" /\ job'.handle = "currsong"
           \/ obj' = obj /\ UNCHANGED <<job, open>>
    BY <1>0, <1>a, <2>1, <2>2, BeginLengthBacked
  <2>4. SelectedBacked'
    BY <1>a, <2>3 DEF SelectedBacked
  <2> QED BY <1>a, <1>d, <2>1, <2>3, <2>4 DEF BackInv, SetBits
<1>4. CASE AllocateCluster
  <2> DEFINE o == obj[job.handle]
             c == NextFree(o, job.last)
             left == IF job.left >= BlocksPerCluster THEN job.left - BlocksPerCluster ELSE 0
             batch == Changed(job.copy, memUsage \cup {c})
  <2>1. /\ job.stage = "alloc" /\ memUsage' = memUsage \cup {c}
        /\ job' = IF left > 0 THEN [job EXCEPT !.left = left, !.last = c]
                  ELSE [job EXCEPT !.left = 0, !.last = c, !.stage = "append",
                                   !.batch = batch]
        /\ UNCHANGED <<diskUsage, list, song, open, obj>>
    BY <1>4 DEF AllocateCluster
  <2>2. c \in Bits \ memUsage
    BY <1>4, NextFreeIsFree DEF AllocateCluster
  <2>3. left \in Nat /\ job.left \in Nat /\ job.left <= left + BlocksPerCluster
    BY SizeAssumption DEF TypeOK, JobType
  <2> HIDE DEF c, left, batch
  <2>4. /\ job'.handle = job.handle /\ job'.copy = job.copy /\ job'.oldlen = job.oldlen
        /\ job'.left = left
        /\ job'.stage = "alloc" \/ (job'.stage = "append" /\ left = 0)
    BY <2>1, <2>3 DEF TypeOK, JobType
  <2>5. c \in Clusters
    BY <1>a, <2>2 DEF SetBits, MemoryAhead
  <2>6. ASSUME parentproject = "valid"
        PROVE  /\ GainedBlocks \in Nat
               /\ GainedBlocks' = GainedBlocks + BlocksPerCluster
    <3>1. job.copy = diskUsage
      BY <1>a, <2>1, <2>6 DEF JobFits
    <3>2. GainedClusters' = GainedClusters \cup {c} /\ c \notin GainedClusters
      BY <1>a, <2>1, <2>2, <2>4, <2>5, <3>1 DEF GainedClusters, MemoryAhead
    <3>3. IsFiniteSet(GainedClusters)
      <4>1. IsFiniteSet(Clusters)
        BY SizeAssumption, FS_Interval DEF Clusters
      <4> QED BY <4>1, FS_Subset DEF GainedClusters
    <3>4. /\ Cardinality(GainedClusters) \in Nat
          /\ Cardinality(GainedClusters') = Cardinality(GainedClusters) + 1
      BY <3>2, <3>3, FS_CardinalityType, FS_AddElement
    <3>5. BlocksPerCluster * (Cardinality(GainedClusters) + 1)
            = BlocksPerCluster * Cardinality(GainedClusters) + BlocksPerCluster
      BY <3>4, SizeAssumption
    <3>6. BlocksPerCluster * Cardinality(GainedClusters) \in Nat
      BY <3>4, SizeAssumption
    <3> QED BY <3>4, <3>5, <3>6 DEF GainedBlocks
  <2>7. ASSUME parentproject = "valid"
        PROVE  RequiredBlocks(o.len) <= AudioBlocks(o.table) + GainedBlocks' + left
    <3>1. RequiredBlocks(o.len) <= AudioBlocks(o.table) + GainedBlocks + job.left
      BY <1>a, <2>1, <2>7 DEF JobBacked
    <3>2. RequiredBlocks(o.len) \in Nat /\ AudioBlocks(o.table) \in Nat
      BY <1>0, RequiredBlocksType, AudioBlocksType DEF Object
    <3>3. BlocksPerCluster \in Nat
      BY SizeAssumption
    <3> QED BY <2>3, <2>6, <2>7, <3>1, <3>2, <3>3
  <2>8. JobBacked'
    <3> HIDE DEF o
    <3>1. obj'[job'.handle] = o /\ job.stage \in {"alloc", "append"}
      BY <2>1, <2>4 DEF o
    <3>2. UNCHANGED parentproject
      BY <1>4 DEF AllocateCluster, projectVars
    <3>3. ASSUME parentproject = "valid"
          PROVE  /\ job.handle = "currsong" =>
                        RequiredBlocks(job.oldlen) <= AudioBlocks(o.table)
                 /\ o.audioblocks <= AudioBlocks(o.table)
      BY <1>a, <2>1, <3>3 DEF JobBacked, o
    <3> QED BY <2>1, <2>4, <2>7, <3>1, <3>2, <3>3 DEF JobBacked
  <2>9. SelectedBacked'
    BY <1>a, <2>1, <2>4 DEF SelectedBacked
  <2> QED BY <1>a, <1>d, <2>1, <2>8, <2>9 DEF BackInv, SetBits
<1>5. CASE OutOfSpace
  <2> DEFINE len == IF job.handle = "currsong" THEN job.oldlen ELSE cur.len
  <2>1. /\ job.stage = "alloc" /\ job' = Idle /\ open' \subseteq open
        /\ UNCHANGED <<diskUsage, list, song>>
    BY <1>5 DEF OutOfSpace
  <2>2. obj'["currsong"] = [cur EXCEPT !.len = len]
    BY <1>0, <1>5 DEF OutOfSpace, TypeOK
  <2>3. /\ obj'["currsong"].len = len /\ obj'["currsong"].table = cur.table
        /\ obj'["currsong"].audioblocks = cur.audioblocks
    BY <1>0, <2>2 DEF Object
  <2>4. job'.stage = "idle"
    BY <2>1 DEF Idle
  <2>5. SelectedBacked'
    <3>1. CASE job.handle = "currsong"
      <4>1. parentproject = "valid"
        BY <3>1 DEF TypeOK, DeletedInCallback, Callback
      <4> QED BY <1>a, <2>1, <2>3, <3>1, <4>1 DEF SelectedBacked, JobBacked, Backed
    <3>2. CASE job.handle # "currsong"
      BY <1>a, <2>1, <2>3, <3>2 DEF SelectedBacked
    <3> QED BY <3>1, <3>2
  <2> QED BY <1>a, <1>d, <2>1, <2>4, <2>5 DEF BackInv, SetBits, JobBacked
<1>6. CASE AppendClusters
  <2> DEFINE o == obj[job.handle]
             B == job.batch \cap Clusters
             table == Append(o.table, B)
             blocks == AudioBlocks(table)
             len == IF job.resize THEN BlockWamples * blocks ELSE o.len
             new == [o EXCEPT !.table = table, !.audioblocks = blocks, !.len = len,
                              !.lengthened = TRUE, !.lastallocentry = Memoized(blocks)]
  <2>1. /\ job.stage = "append" /\ obj' = [obj EXCEPT ![job.handle] = new]
        /\ job' = [Idle EXCEPT !.stage = "save", !.handle = job.handle]
        /\ UNCHANGED <<diskUsage, memUsage, list, song, open>>
    BY <1>6 DEF AppendClusters, usageVars
  <2>2. job'.stage = "save" /\ job'.handle = job.handle
    BY <2>1 DEF Idle
  <2>3. o.table \in Table /\ B \in SUBSET Clusters /\ table \in Table
    BY <1>0 DEF Object, Table
  <2>4. blocks \in Nat /\ blocks = AudioBlocks(o.table) + BlocksPerCluster * Cardinality(B)
    <3> HIDE DEF B, o
    <3> QED BY <2>3, AppendedBlocks, AudioBlocksType
  <2> HIDE DEF table, blocks, len
  <2>5. /\ new.id = o.id /\ new.table = table /\ new.len = len /\ new.audioblocks = blocks
    BY <1>0 DEF Object
  <2>6. obj'[job.handle] = new /\ \A g \in Handles \ {job.handle} : obj'[g] = obj[g]
    <3> HIDE DEF new
    <3> QED BY <1>0, <2>1 DEF TypeOK
  <2> HIDE DEF new
  <2>7. ASSUME parentproject = "valid" PROVE Backed(len, blocks, table)
    <3>1. job.batch = memUsage \ diskUsage /\ job.copy = diskUsage
      BY <1>a, <2>1, <2>7 DEF JobFits
    <3>2. B = GainedClusters
      BY <3>1 DEF GainedClusters
    <3>3. RequiredBlocks(o.len) <= AudioBlocks(o.table) + GainedBlocks + 0
      BY <1>a, <2>1, <2>7 DEF JobBacked
    <3>4. GainedBlocks = BlocksPerCluster * Cardinality(B)
      BY <3>2 DEF GainedBlocks
    <3>5. RequiredBlocks(o.len) <= blocks
      <4>1. RequiredBlocks(o.len) \in Nat /\ AudioBlocks(o.table) \in Nat
        BY <1>0, RequiredBlocksType, AudioBlocksType DEF Object
      <4>2. GainedBlocks \in Int
        <5>1. Cardinality(B) \in Nat
          BY <2>3, AppendedBlocks
        <5> QED BY <3>4, <5>1, SizeAssumption
      <4> HIDE DEF B, o
      <4> QED BY <2>4, <3>3, <3>4, <4>1, <4>2
    <3>6. RequiredBlocks(len) <= blocks
      <4>1. CASE job.resize
        <5>1. RequiredBlocks(BlockWamples * blocks) = blocks
          BY <2>4, FullBlocks
        <5> QED BY <2>4, <4>1, <5>1 DEF len
      <4>2. CASE ~job.resize
        BY <3>5, <4>2 DEF len
      <4> QED BY <4>1, <4>2
    <3> QED BY <2>4, <3>6 DEF Backed, blocks
  <2>8. JobBacked'
    <3>1. UNCHANGED parentproject
      BY <1>6 DEF AppendClusters, projectVars
    <3> HIDE DEF o
    <3> QED BY <2>1, <2>2, <2>5, <2>6, <2>7, <3>1 DEF JobBacked
  <2>9. SelectedBacked'
    BY <1>0, <1>a, <2>1, <2>2, <2>6 DEF SelectedBacked
  <2> QED BY <1>a, <1>d, <2>1, <2>8, <2>9 DEF BackInv, SetBits
<1>7. CASE SaveLengthened
  <2> DEFINE o == obj[job.handle]
             sec == list[o.id]
             rec == [len |-> o.len, audioblocks |-> o.audioblocks, table |-> o.table]
             saved == [o EXCEPT !.lengthened = FALSE]
             new == IF job.handle = "newsong" THEN Opened(rec, o.id) ELSE saved
  <2>1. /\ job.stage = "save" /\ o.id \in DOMAIN list
        /\ song' = [song EXCEPT ![sec] = rec]
        /\ diskUsage' = IF o.lengthened THEN memUsage ELSE diskUsage
        /\ obj' = [obj EXCEPT !["newsong"] = NoObject, !["currsong"] = new]
        /\ job' = Idle /\ UNCHANGED <<memUsage, list>>
    BY <1>7, <1>a DEF SaveLengthened, JobFits
  <2>2. new.len = o.len /\ new.audioblocks = o.audioblocks /\ new.table = o.table
    <3>1. saved.len = o.len /\ saved.audioblocks = o.audioblocks /\ saved.table = o.table
      BY <1>0 DEF Object
    <3>2. /\ Opened(rec, o.id).len = o.len /\ Opened(rec, o.id).audioblocks = o.audioblocks
          /\ Opened(rec, o.id).table = o.table
      BY DEF Opened
    <3> QED BY <3>1, <3>2
  <2>3. obj'["currsong"] = new
    <3> HIDE DEF new
    <3> QED BY <1>0, <2>1 DEF TypeOK
  <2>4. sec \in SongSectors /\ Linked' = Linked
    BY <1>0, <2>1 DEF Linked
  <2>5. /\ song'[sec].len = o.len /\ song'[sec].audioblocks = o.audioblocks
        /\ song'[sec].table = o.table
        /\ \A s \in SongSectors \ {sec} : song'[s] = song[s]
    BY <2>1, <2>4 DEF TypeOK
  <2>6. Backed(o.len, o.audioblocks, o.table)
    BY <1>7, <1>a, <2>1 DEF SaveLengthened, JobBacked
  <2>7. job'.stage = "idle"
    BY <2>1 DEF Idle
  <2> HIDE DEF o, sec, rec, saved, new
  <2>8. SavedLengthIsBacked'
    <3>1. ASSUME NEW s \in Linked'
          PROVE  Backed(song'[s].len, song'[s].audioblocks, song'[s].table)
      <4>1. CASE s = sec
        BY <2>5, <2>6, <4>1
      <4>2. CASE s # sec
        BY <1>0, <1>b, <2>4, <2>5, <4>2
      <4> QED BY <4>1, <4>2
    <3> QED BY <1>c, <3>1
  <2>9. SelectedBacked'
    BY <2>2, <2>3, <2>6 DEF SelectedBacked
  <2>10. SetBits'
    BY <1>a, <2>1 DEF SetBits, MemoryAhead
  <2> QED BY <2>7, <2>8, <2>9, <2>10 DEF BackInv, JobBacked
<1>8. CASE DeleteSong
  <2> DEFINE id == cur.id
             s == list[id]
             short == Without(list, id)
             usage == Unmarked(memUsage, song[s].table)
             emptied == [song EXCEPT ![s].len = 0, ![s].audioblocks = 0]
  <2>1. /\ "currsong" \in open /\ song' = emptied /\ list' = short
        /\ memUsage' = usage /\ diskUsage' = usage /\ UNCHANGED job
    BY <1>8 DEF DeleteSong
  <2>2. id \in DOMAIN list /\ s \in SongSectors /\ s \in Linked
    BY <1>0, <1>a, <2>1 DEF OpenIsListed
  <2>3. /\ emptied[s].len = 0 /\ emptied[s].audioblocks = 0
        /\ emptied[s].table = song[s].table /\ song[s].table \in Table
        /\ \A t \in SongSectors \ {s} : emptied[t] = song[t]
    BY <2>2 DEF TypeOK, Record
  <2>4. Linked' = Linked \ {s}
    BY <1>0, <1>a, <2>1, <2>2, LinkedWithout
  <2>5. /\ DOMAIN short = 1 .. Len(list) - 1 /\ short \in Seq(SongSectors)
    BY <1>0, <2>2, WithoutType
  <2>6. SetBits'
    <3>1. Cover(song[s].table) \subseteq Clusters
      BY <2>3, CoverType
    <3> QED BY <1>a, <2>1, <3>1 DEF SetBits, MemoryAhead, Unmarked
  <2> HIDE DEF id, s, short, emptied, usage
  <2>7. SavedLengthIsBacked'
    BY <1>0, <1>b, <1>c, <2>1, <2>3, <2>4
  <2>8. SelectedBacked'
    <3>1. CASE open' = open \ {"currsong"}
      BY <3>1 DEF SelectedBacked
    <3>2. CASE /\ Len(list) # 1
               /\ obj' = [obj EXCEPT !["currsong"] = Opened(emptied[short[1]], 1)]
      <4>1. obj'["currsong"] = Opened(emptied[short[1]], 1)
        BY <1>0, <3>2 DEF TypeOK
      <4>2. short[1] \in Linked'
        <5>1. 1 \in DOMAIN short
          BY <1>0, <2>2, <2>5, <3>2
        <5> QED BY <2>1, <5>1 DEF Linked
      <4>3. Backed(emptied[short[1]].len, emptied[short[1]].audioblocks, emptied[short[1]].table)
        BY <1>0, <1>b, <2>3, <2>4, <4>2
      <4> QED BY <4>1, <4>3 DEF SelectedBacked, Opened
    <3> QED BY <1>8, <3>1, <3>2 DEF DeleteSong, short, id, s, emptied
  <2>9. JobBacked'
    BY <1>8, <1>e DEF DeleteSong
  <2> QED BY <2>6, <2>7, <2>8, <2>9 DEF BackInv
<1>9. CASE Started
  <2>1. /\ open' = {} /\ job'.stage = "idle"
        /\ UNCHANGED <<diskUsage, list, song>>
    BY <1>9 DEF Started, Idle
  <2> QED BY <1>a, <1>d, <2>1 DEF BackInv, SetBits, SelectedBacked, JobBacked
<1>10. CASE SaveThroughDeleted
  BY <1>10 DEF SaveThroughDeleted
<1>11. CASE UNCHANGED vars
  BY <1>a, <1>d, <1>11 DEF vars, projectVars, BackInv, SetBits, SelectedBacked,
                           JobBacked, GainedBlocks, GainedClusters
<1> QED
  BY <1>1, <1>2, <1>3, <1>4, <1>5, <1>6, <1>7, <1>8, <1>9, <1>10, <1>11
     DEF Next, Reopen, CrashInSave

\* Every song of the list has on the drive the audio blocks its length needs
\* and its record claims, for every cluster size, every length asked for and
\* every lengthening that fails half-way: always without callbacks, and with
\* them until a song is saved through a deleted project object.
THEOREM SongsBacked ==
    /\ Spec => [](~strayed => SavedLengthIsBacked)
    /\ ~Reentrant => (Spec => []SavedLengthIsBacked)
<1> DEFINE Inv == TypeInv /\ (~strayed => IInv /\ BackInv)
<1>1. Init => Inv
  BY InitTypeInv, InitIInv, InitBackInv
<1>2. Inv /\ [Next]_vars => Inv'
  <2> SUFFICES ASSUME Inv, [Next]_vars PROVE Inv'
    OBVIOUS
  <2>1. strayed \in BOOLEAN /\ (strayed => strayed')
    BY ProjectVarsStep DEF TypeInv, Shape, TypeOK
  <2>2. CASE strayed
    BY <2>1, <2>2, NextTypeInv
  <2>3. CASE ~strayed
    BY <2>3, NextTypeInv, NextIInv, NextBackInv
  <2> QED BY <2>1, <2>2, <2>3
<1>3. Inv => (~strayed => SavedLengthIsBacked)
  BY DEF BackInv
<1>4. Spec => [](~strayed => SavedLengthIsBacked)
  BY <1>1, <1>2, <1>3, PTL DEF Spec
<1>5. ASSUME ~Reentrant PROVE Spec => []SavedLengthIsBacked
  BY <1>4, NeverStrayed, <1>5, PTL
<1> QED BY <1>4, <1>5
==============================================================================
