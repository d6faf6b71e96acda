---------------------------- MODULE CatalogProofs ----------------------------
(***************************************************************************)
(* Proofs about Catalog, for any number of projects, songs and clusters,   *)
(* if the recorder restores the drive after each stop and the program does *)
(* not stop between the two saves of createsong.                           *)
(***************************************************************************)
EXTENDS Catalog, FiniteSetTheorems, SequenceTheorems, WellFoundedInduction, TLAPS

------------------------------------------------------------------------------
(* What is still to be done. *)

\* The steps that write the list of projects or a project's list of songs.
ListWriters ==
  {"enlist", "count", "unlist", "sort", "lastsong", "project", "addproject",
   "dropproject", "lastproject"}

\* The steps that may be to be done some time after a step.
After(step) ==
  CASE step \in {"record", "enlist"} -> {"enlist", "count", "usage", "songs", "commit"}
    [] step = "count" -> {"usage", "songs", "commit"}
    [] step \in {"unlist", "usage", "songs", "unmark"} ->
         {"usage", "songs", "unmark", "allsongs", "dropproject", "commit"}
    [] step = "allsongs" -> {"dropproject", "commit"}
    [] step = "project" -> {"addproject", "commit"}
    [] step = "grow" -> {"mark", "commit"}
    [] step = "commit" ->
         {"count", "usage", "songs", "unmark", "allsongs", "dropproject", "addproject", "commit"}
    [] OTHER -> {"commit"}

CommitIn(steps, k, i) == \E j \in 1 .. Len(steps) : k < j /\ j < i /\ steps[j] = "commit"

\* Where the copies of the lists have to agree: before a step that changes a
\* list or begins to delete songs, and at the end.
Gate(steps, i) ==
  i = Len(steps) + 1 \/ (i \in 1 .. Len(steps) /\ steps[i] \in ListWriters \cup {"allsongs"})

StepsFit(steps) ==
  /\ steps \in Seq(Steps)
  /\ \A i, j \in 1 .. Len(steps) : i < j => steps[j] \in After(steps[i])
  /\ \A i \in 1 .. Len(steps) :
       steps[i] = "enlist" => \E j \in 1 .. Len(steps) : i < j /\ steps[j] = "count"
  /\ \A k \in 1 .. Len(steps), i \in 1 .. Len(steps) + 1 :
       k < i /\ steps[k] \in ListWriters /\ Gate(steps, i) => CommitIn(steps, k, i)

LEMMA TailFits ==
  ASSUME NEW steps, StepsFit(steps), steps # <<>>
  PROVE  /\ StepsFit(Tail(steps)) /\ Len(Tail(steps)) = Len(steps) - 1
         /\ Head(steps) = steps[1] /\ Len(steps) \in Nat \ {0}
         /\ \A i \in 1 .. Len(Tail(steps)) : Tail(steps)[i] = steps[i + 1]
<1>1. /\ Len(Tail(steps)) = Len(steps) - 1 /\ Len(steps) \in Nat \ {0}
      /\ Tail(steps) \in Seq(Steps) /\ Head(steps) = steps[1]
      /\ \A i \in 1 .. Len(Tail(steps)) : Tail(steps)[i] = steps[i + 1]
  BY DEF StepsFit
<1> DEFINE rest == Tail(steps)
<1>2. ASSUME NEW i \in 1 .. Len(rest)
      PROVE  i + 1 \in 1 .. Len(steps) /\ rest[i] = steps[i + 1]
  BY <1>1
<1>3. ASSUME NEW j \in 1 .. Len(steps), j > 1
      PROVE  j - 1 \in 1 .. Len(rest) /\ rest[j - 1] = steps[j]
  <2>1. j - 1 \in 1 .. Len(rest) /\ (j - 1) + 1 = j
    BY <1>1, <1>3
  <2> QED BY <1>1, <2>1
<1> HIDE DEF rest
<1>4. \A i, j \in 1 .. Len(rest) : i < j => rest[j] \in After(rest[i])
  BY <1>1, <1>2 DEF StepsFit
<1>5. ASSUME NEW i \in 1 .. Len(rest), rest[i] = "enlist"
      PROVE  \E j \in 1 .. Len(rest) : i < j /\ rest[j] = "count"
  <2>1. PICK j \in 1 .. Len(steps) : i + 1 < j /\ steps[j] = "count"
    BY <1>2, <1>5 DEF StepsFit
  <2> QED BY <1>1, <1>3, <2>1
<1>6. ASSUME NEW k \in 1 .. Len(rest), NEW i \in 1 .. Len(rest) + 1,
             k < i, rest[k] \in ListWriters, Gate(rest, i)
      PROVE  CommitIn(rest, k, i)
  <2>1. Gate(steps, i + 1) /\ i + 1 \in 1 .. Len(steps) + 1
    <3>1. Len(rest) = Len(steps) - 1 /\ Len(steps) \in Nat \ {0}
      BY <1>1 DEF rest
    <3>2. CASE i = Len(rest) + 1
      BY <3>1, <3>2 DEF Gate
    <3>3. CASE i \in 1 .. Len(rest) /\ rest[i] \in ListWriters \cup {"allsongs"}
      BY <1>2, <3>1, <3>3 DEF Gate
    <3> QED BY <1>6, <3>2, <3>3 DEF Gate
  <2>2. CommitIn(steps, k + 1, i + 1)
    BY <1>2, <1>6, <2>1 DEF StepsFit
  <2>3. PICK j \in 1 .. Len(steps) : k + 1 < j /\ j < i + 1 /\ steps[j] = "commit"
    BY <2>2 DEF CommitIn
  <2> QED BY <1>1, <1>3, <2>3 DEF CommitIn
<1> QED BY <1>1, <1>4, <1>5, <1>6 DEF StepsFit, rest

\* The operations as they begin.
LEMMA BeginningsFit ==
  /\ StepsFit(<<>>)
  /\ \A selected \in BOOLEAN : StepsFit(CreateSongSteps(selected))
  /\ StepsFit(DeleteSongSteps) /\ StepsFit(LengthenSteps)
  /\ StepsFit(CreateProjectSteps) /\ StepsFit(DeleteProjectSteps)
  /\ StepsFit(<<"lastsong", "commit">>) /\ StepsFit(<<"sort", "commit">>)
  /\ StepsFit(<<"lastproject", "commit">>)
  /\ \A selected \in BOOLEAN : CreateSongSteps(selected)[1] = "record"
<1> USE DEF StepsFit, Steps, After, Gate, CommitIn, ListWriters
<1>1. StepsFit(<<>>)
  OBVIOUS
<1>2. StepsFit(CreateSongSteps(TRUE)) /\ CreateSongSteps(TRUE)[1] = "record"
  BY DEF CreateSongSteps
<1>3. StepsFit(CreateSongSteps(FALSE)) /\ CreateSongSteps(FALSE)[1] = "record"
  <2> DEFINE rest  == <<"count", "commit", "usage", "songs", "commit">>
             all   == <<"record", "count", "commit", "usage", "songs", "commit">>
             steps == <<"record">> \o rest
  <2>1. StepsFit(all)
    OBVIOUS
  <2>2. <<"record">> \o <<>> = <<"record">>
    <3>1. <<"record">> \in Seq(Steps)
      OBVIOUS
    <3> QED BY <3>1, ConcatEmptySeq
  <2>3. CreateSongSteps(FALSE) = (<<"record">> \o <<>>) \o rest
    BY DEF CreateSongSteps
  <2>4. steps = all
    <3>1. steps \in Seq(Steps) /\ all \in Seq(Steps)
      OBVIOUS
    <3>2. Len(steps) = 6 /\ Len(all) = 6
      OBVIOUS
    <3>3. \A i \in 1 .. 6 : steps[i] = all[i]
      OBVIOUS
    <3> HIDE DEF steps, all, Steps
    <3> QED BY <3>1, <3>2, <3>3, SeqEqual
  <2>5. all[1] = "record"
    OBVIOUS
  <2> HIDE DEF rest, all, StepsFit
  <2> QED BY <2>1, <2>2, <2>3, <2>4, <2>5, Zenon
<1>4. StepsFit(DeleteSongSteps)
  BY DEF DeleteSongSteps
<1>5. StepsFit(LengthenSteps)
  BY DEF LengthenSteps
<1>6. StepsFit(CreateProjectSteps)
  BY DEF CreateProjectSteps
<1>7. StepsFit(DeleteProjectSteps)
  BY DEF DeleteProjectSteps
<1>8. StepsFit(<<"lastsong", "commit">>) /\ StepsFit(<<"sort", "commit">>)
      /\ StepsFit(<<"lastproject", "commit">>)
  OBVIOUS
<1> HIDE DEF StepsFit
<1>9. \A selected \in BOOLEAN :
        StepsFit(CreateSongSteps(selected)) /\ CreateSongSteps(selected)[1] = "record"
  BY <1>2, <1>3
<1> QED BY <1>1, <1>4, <1>5, <1>6, <1>7, <1>8, <1>9

------------------------------------------------------------------------------
(* What the lists say. *)

ListBlocks == {DriveInfo} \cup ProjectBlocks

InfoContent ==
  [list : [1 .. MaxProjects -> ProjectBlocks \cup {None}],
   count : 0 .. MaxProjects, last : ProjectBlocks \cup {None}]
ProjectContent == [list : SongList, count : 0 .. MaxSongs, last : Songs \cup {None}]

ListTypes(img) ==
  /\ DOMAIN img = Blocks
  /\ img[DriveInfo] \in InfoContent
  /\ \A p \in ProjectBlocks : img[p] \in ProjectContent

\* The list of projects has no gaps and no project twice.
InfoPacked(info) ==
  /\ \A i \in 1 .. MaxProjects : info.list[i] # None <=> i <= info.count
  /\ \A i, j \in 1 .. MaxProjects : info.list[i] # None /\ info.list[i] = info.list[j] => i = j

CountedAreThere(project_) == \A i \in 1 .. project_.count : project_.list[i] # None

SongsDistinct(img) ==
  \A p, q \in ProjectsOf(img) : \A i, j \in 1 .. MaxSongs :
    img[p].list[i] # None /\ img[p].list[i] = img[q].list[j] => p = q /\ i = j

ListsOK(img) ==
  /\ ListTypes(img)
  /\ InfoPacked(img[DriveInfo])
  /\ \A p \in ProjectsOf(img) : CountedAreThere(img[p])
  /\ SongsDistinct(img)

LEMMA BlockFacts ==
  /\ MaxProjects \in Nat \ {0} /\ MaxSongs \in Nat \ {0} /\ MaxEntries \in Nat
  /\ DriveInfo \in Blocks /\ ProjectBlocks \subseteq Blocks /\ Songs \subseteq Blocks
  /\ Blocks \subseteq Nat /\ ListBlocks \subseteq Blocks
  /\ None \notin ProjectBlocks /\ None \notin Songs /\ DriveInfo \notin ProjectBlocks
  /\ (Songs \cup {None, Superblock, SongUsage, DriveUsage}) \cap ListBlocks = {}
  /\ None \notin ListBlocks
<1>1. MaxProjects * MaxSongs \in Nat
  BY CatalogAssumption
<1> QED BY <1>1, CatalogAssumption
        DEF Blocks, ProjectBlocks, Songs, FirstProject, FirstSong, DriveInfo, None,
            ListBlocks, Superblock, SongUsage, DriveUsage

LEMMA LeastIsLeast ==
  ASSUME NEW S \in SUBSET Nat, S # {}
  PROVE  Least(S) \in S /\ \A y \in S : Least(S) <= y
<1> DEFINE Upto == {1 .. n : n \in S}
<1>1. \A n \in Nat : IsFiniteSet(1 .. n) /\ 1 .. n \subseteq Nat
  BY FS_Interval
<1>2. Upto \subseteq FiniteSubsetsOf(Nat) /\ Upto # {}
  BY <1>1 DEF FiniteSubsetsOf
<1>3. PICK X \in Upto : \A Y \in Upto : <<Y, X>> \notin StrictSubsetOrdering(Nat)
  <2> HIDE DEF Upto
  <2> QED BY <1>2, FS_StrictSubsetOrderingWellFounded, WFMin, Zenon
<1>4. PICK x \in S : X = 1 .. x
  BY <1>3
<1>5. \A y \in S : x <= y
  <2> SUFFICES ASSUME NEW y \in S, y < x PROVE FALSE
    OBVIOUS
  <2>1. 1 .. y \in Upto /\ 1 .. y \subseteq 1 .. x /\ x \in 1 .. x /\ x \notin 1 .. y
    BY <1>4
  <2>2. <<1 .. y, X>> \in StrictSubsetOrdering(Nat)
    BY <1>1, <1>4, <2>1 DEF StrictSubsetOrdering
  <2> QED BY <1>3, <2>1, <2>2
<1> QED BY <1>5 DEF Least

\* The projects of a drive are the entries of its list.
LEMMA ProjectsFacts ==
  ASSUME NEW img, ListsOK(img)
  PROVE  /\ ProjectsOf(img) \subseteq ProjectBlocks
         /\ \A p : p \in ProjectsOf(img) <=>
              p # None /\ \E i \in 1 .. MaxProjects : img[DriveInfo].list[i] = p
         /\ Values(img[DriveInfo].list) = ProjectsOf(img)
         /\ DOMAIN img[DriveInfo].list = 1 .. MaxProjects
<1> DEFINE info == img[DriveInfo]
<1>1. /\ info.list \in [1 .. MaxProjects -> ProjectBlocks \cup {None}]
      /\ info.count \in 0 .. MaxProjects
  BY DEF ListsOK, ListTypes, InfoContent
<1>2. \A i \in 1 .. MaxProjects : info.list[i] # None <=> i <= info.count
  BY DEF ListsOK, InfoPacked
<1>3. ProjectsOf(img) = {info.list[i] : i \in 1 .. info.count} \ {None}
  BY DEF ProjectsOf
<1> HIDE DEF info
<1>4. \A p : p \in ProjectsOf(img) <=> p # None /\ \E i \in 1 .. MaxProjects : info.list[i] = p
  BY <1>1, <1>2, <1>3, BlockFacts
<1>5. Values(info.list) = ProjectsOf(img) /\ DOMAIN info.list = 1 .. MaxProjects
  BY <1>1, <1>4 DEF Values
<1>6. ProjectsOf(img) \subseteq ProjectBlocks
  BY <1>1, <1>3, BlockFacts
<1> QED BY <1>4, <1>5, <1>6 DEF info

\* The lists are in these blocks only.
LEMMA SameLists ==
  ASSUME NEW img, NEW other, ListsOK(img), DOMAIN other = Blocks,
         \A b \in ListBlocks : other[b] = img[b]
  PROVE  ListsOK(other) /\ ProjectsOf(other) = ProjectsOf(img)
<1>1. other[DriveInfo] = img[DriveInfo] /\ \A p \in ProjectBlocks : other[p] = img[p]
  BY DEF ListBlocks
<1>2. ProjectsOf(other) = ProjectsOf(img) /\ ProjectsOf(img) \subseteq ProjectBlocks
  BY <1>1, ProjectsFacts DEF ProjectsOf
<1> QED BY <1>1, <1>2 DEF ListsOK, ListTypes, SongsDistinct

\* What a project may become, the others being what they are.
Suits(img, p, new) ==
  /\ CountedAreThere(new)
  /\ \A i, j \in 1 .. MaxSongs : new.list[i] # None /\ new.list[i] = new.list[j] => i = j
  /\ \A q \in ProjectsOf(img) \ {p} : \A i, j \in 1 .. MaxSongs :
       new.list[i] # None => new.list[i] # img[q].list[j]

\* One project is written.
LEMMA ProjectWritten ==
  ASSUME NEW img, ListsOK(img), NEW p \in ProjectBlocks, NEW new \in ProjectContent,
         p \in ProjectsOf(img) => Suits(img, p, new)
  PROVE  /\ ListsOK([img EXCEPT ![p] = new])
         /\ ProjectsOf([img EXCEPT ![p] = new]) = ProjectsOf(img)
<1> DEFINE next == [img EXCEPT ![p] = new]
<1>1. /\ DOMAIN next = Blocks /\ next[DriveInfo] = img[DriveInfo] /\ next[p] = new
      /\ \A q \in ProjectBlocks : q # p => next[q] = img[q]
  BY BlockFacts DEF ListsOK, ListTypes
<1> HIDE DEF next
<1>2. ProjectsOf(next) = ProjectsOf(img) /\ ProjectsOf(img) \subseteq ProjectBlocks
  BY <1>1, ProjectsFacts DEF ProjectsOf
<1>3. ListTypes(next)
  BY <1>1 DEF ListsOK, ListTypes
<1>4. \A q \in ProjectsOf(next) : CountedAreThere(next[q])
  BY <1>1, <1>2 DEF ListsOK, Suits
<1>5. SongsDistinct(next)
  <2> SUFFICES ASSUME NEW q \in ProjectsOf(img), NEW r \in ProjectsOf(img),
                      NEW i \in 1 .. MaxSongs, NEW j \in 1 .. MaxSongs,
                      next[q].list[i] # None, next[q].list[i] = next[r].list[j]
               PROVE  q = r /\ i = j
    BY <1>2 DEF SongsDistinct
  <2>1. CASE q # p /\ r # p
    <3>1. next[q] = img[q] /\ next[r] = img[r]
      BY <1>1, <1>2, <2>1
    <3> QED BY <3>1 DEF ListsOK, SongsDistinct
  <2>2. CASE q = p /\ r = p
    BY <1>1, <2>2 DEF Suits
  <2>3. CASE q = p /\ r # p
    BY <1>1, <1>2, <2>3 DEF Suits
  <2>4. CASE q # p /\ r = p
    BY <1>1, <1>2, <2>4 DEF Suits
  <2> QED BY <2>1, <2>2, <2>3, <2>4
<1> QED BY <1>1, <1>2, <1>3, <1>4, <1>5 DEF ListsOK, next

\* Projects that come into the list are without songs.
NewOnesEmpty(img, info) ==
  \A i \in 1 .. MaxProjects :
    info.list[i] # None /\ info.list[i] \notin ProjectsOf(img)
    => img[info.list[i]] = NewProject

\* The list of projects is written: projects that come in have no songs.
LEMMA InfoWritten ==
  ASSUME NEW img, ListsOK(img), NEW new \in InfoContent, InfoPacked(new),
         NewOnesEmpty(img, new)
  PROVE  /\ ListsOK([img EXCEPT ![DriveInfo] = new])
         /\ \A p : p \in ProjectsOf([img EXCEPT ![DriveInfo] = new]) <=>
              p # None /\ \E i \in 1 .. MaxProjects : new.list[i] = p
<1> DEFINE next == [img EXCEPT ![DriveInfo] = new]
<1>1. /\ DOMAIN next = Blocks /\ next[DriveInfo] = new
      /\ \A p \in ProjectBlocks : next[p] = img[p]
  BY BlockFacts DEF ListsOK, ListTypes
<1> HIDE DEF next
<1>2. new.list \in [1 .. MaxProjects -> ProjectBlocks \cup {None}] /\ new.count \in 0 .. MaxProjects
      /\ \A i \in 1 .. MaxProjects : new.list[i] # None <=> i <= new.count
  BY DEF InfoContent, InfoPacked
<1>3. \A p : p \in ProjectsOf(next) <=> p # None /\ \E i \in 1 .. MaxProjects : new.list[i] = p
  <2>1. ProjectsOf(next) = {new.list[i] : i \in 1 .. new.count} \ {None}
    BY <1>1 DEF ProjectsOf
  <2> QED BY <1>2, <2>1, BlockFacts
<1>4. ProjectsOf(next) \subseteq ProjectBlocks
  <2> SUFFICES ASSUME NEW p \in ProjectsOf(next) PROVE p \in ProjectBlocks
    OBVIOUS
  <2>1. PICK i \in 1 .. MaxProjects : p # None /\ new.list[i] = p
    BY <1>3
  <2> QED BY <1>2, <2>1
<1>5. ASSUME NEW p \in ProjectsOf(next), p \notin ProjectsOf(img)
      PROVE  next[p].count = 0 /\ \A i \in 1 .. MaxSongs : next[p].list[i] = None
  <2>1. next[p] = NewProject
    BY <1>1, <1>3, <1>4, <1>5 DEF NewOnesEmpty
  <2> QED BY <2>1 DEF NewProject, EmptyList
<1>6. ListTypes(next)
  BY <1>1 DEF ListsOK, ListTypes
<1>7. ASSUME NEW p \in ProjectsOf(next)
      PROVE  CountedAreThere(next[p])
  <2>1. CASE p \in ProjectsOf(img)
    BY <1>1, <1>4, <1>7, <2>1 DEF ListsOK
  <2>2. CASE p \notin ProjectsOf(img)
    BY <1>5, <1>7, <2>2 DEF CountedAreThere
  <2> QED BY <2>1, <2>2
<1>8. SongsDistinct(next)
  <2> SUFFICES ASSUME NEW p \in ProjectsOf(next), NEW q \in ProjectsOf(next),
                      NEW i \in 1 .. MaxSongs, NEW j \in 1 .. MaxSongs,
                      next[p].list[i] # None, next[p].list[i] = next[q].list[j]
               PROVE  p = q /\ i = j
    BY DEF SongsDistinct
  <2>1. p \in ProjectsOf(img) /\ q \in ProjectsOf(img)
    BY <1>5
  <2>2. next[p] = img[p] /\ next[q] = img[q]
    BY <1>1, <1>4
  <2> QED BY <2>1, <2>2 DEF ListsOK, SongsDistinct
<1> QED BY <1>1, <1>3, <1>6, <1>7, <1>8 DEF ListsOK, next

------------------------------------------------------------------------------
(* The invariant. *)

InStep == \A b \in ListBlocks : home[b] = backup[b]
HasStep(step) == \E i \in 1 .. Len(todo) : todo[i] = step

\* Where the lists have to agree they do, or a commit comes first.
CopiesAgree ==
  \A i \in 1 .. Len(todo) + 1 : Gate(todo, i) => InStep \/ CommitIn(todo, 0, i)

\* Only createsong leaves a song listed and not counted.
UncountedIsNew ==
  \A p \in ProjectsOf(home) : \A i \in 1 .. MaxSongs :
    home[p].list[i] # None /\ i > home[p].count
    => HasStep("count") /\ p = arg.project /\ i = arg.id

NoneUncounted(img) ==
  \A p \in ProjectsOf(img) : \A i \in 1 .. MaxSongs :
    img[p].list[i] # None => i <= img[p].count

NewSongFits ==
  /\ arg.project \in ProjectsOf(home)
  /\ arg.id = home[arg.project].count + 1 /\ arg.id <= MaxSongs /\ arg.song \in Songs
  /\ \A p \in ProjectsOf(home) : \A i \in 1 .. MaxSongs :
       home[p].list[i] = arg.song => p = arg.project /\ i = arg.id

NewProjectFits ==
  /\ arg.project \in ProjectBlocks \ ProjectsOf(home)
  /\ arg.id = home[DriveInfo].count + 1 /\ arg.id <= MaxProjects

\* What is to be done is about something that is there, or is free.
ArgFits ==
  /\ HasStep("count") => NewSongFits
  /\ HasStep("unlist") => arg.project \in ProjectsOf(home) /\ arg.id \in 1 .. home[arg.project].count
  /\ \A step \in {"sort", "lastsong", "allsongs", "dropproject"} :
       HasStep(step) => arg.project \in ProjectsOf(home)
  /\ HasStep("lastsong") => arg.id \in 1 .. MaxSongs
  /\ HasStep("project") \/ HasStep("addproject") => NewProjectFits
  /\ HasStep("addproject") => HasStep("project") \/ home[arg.project] = NewProject
  /\ HasStep("lastproject") => arg.project \in ProjectBlocks

ArgContent ==
  [project : ProjectBlocks \cup {None}, id : Nat, song : Songs \cup {None},
   space : SUBSET Clusters]

CatInv ==
  /\ ListsOK(home) /\ ListsOK(backup)
  /\ \A b, c \in ListBlocks : home[b] # backup[b] /\ home[c] # backup[c] => b = c
  /\ StepsFit(todo) /\ arg \in ArgContent /\ running \in BOOLEAN
  /\ running => CopiesAgree /\ UncountedIsNew
  /\ ~running => todo = <<>> /\ NoneUncounted(backup)
  /\ ArgFits

\* The first thing to do is done.
LEMMA StepTaken ==
  ASSUME StepsFit(todo), todo # <<>>, todo' = Tail(todo)
  PROVE  /\ StepsFit(todo)' /\ HasStep(Head(todo))
         /\ \A step : HasStep(step)' => HasStep(step) /\ step \in After(Head(todo))
         /\ \A step : HasStep(step) => step = Head(todo) \/ HasStep(step)'
         /\ Head(todo) = "enlist" => HasStep("count")'
<1>1. /\ StepsFit(todo)' /\ Len(todo') = Len(todo) - 1
      /\ Head(todo) = todo[1] /\ Len(todo) \in Nat \ {0}
      /\ \A i \in 1 .. Len(todo') : todo'[i] = todo[i + 1]
  BY TailFits
<1>2. ASSUME NEW i \in 1 .. Len(todo), i > 1
      PROVE  i - 1 \in 1 .. Len(todo') /\ todo'[i - 1] = todo[i]
  <2>1. i - 1 \in 1 .. Len(todo') /\ (i - 1) + 1 = i
    BY <1>1, <1>2
  <2> QED BY <1>1, <2>1
<1>3. ASSUME NEW i \in 1 .. Len(todo')
      PROVE  i + 1 \in 1 .. Len(todo) /\ todo'[i] = todo[i + 1] /\ todo[i + 1] \in After(todo[1])
  BY <1>1 DEF StepsFit
<1>4. ASSUME NEW step, HasStep(step)
      PROVE  step = Head(todo) \/ HasStep(step)'
  <2>1. PICK i \in 1 .. Len(todo) : todo[i] = step
    BY <1>4 DEF HasStep
  <2>2. CASE i = 1
    BY <1>1, <2>1, <2>2
  <2>3. CASE i > 1
    BY <1>2, <2>1, <2>3 DEF HasStep
  <2> QED BY <1>1, <2>2, <2>3
<1>5. ASSUME Head(todo) = "enlist"
      PROVE  HasStep("count")'
  <2>1. PICK j \in 1 .. Len(todo) : 1 < j /\ todo[j] = "count"
    BY <1>1, <1>5 DEF StepsFit
  <2> QED BY <1>2, <2>1 DEF HasStep
<1>6. HasStep(Head(todo))
  BY <1>1 DEF HasStep
<1>7. ASSUME NEW step, HasStep(step)'
      PROVE  HasStep(step) /\ step \in After(Head(todo))
  <2>1. PICK i \in 1 .. Len(todo') : todo'[i] = step
    BY <1>7 DEF HasStep
  <2> QED BY <1>1, <1>3, <2>1 DEF HasStep
<1> QED BY <1>1, <1>4, <1>5, <1>6, <1>7

\* If it is no commit, the lists agree before a step that changes them, and
\* after such a step there is a commit to come before the next.
LEMMA GatesKept ==
  ASSUME StepsFit(todo), todo # <<>>, todo' = Tail(todo), Head(todo) # "commit", CopiesAgree
  PROVE  /\ Head(todo) \in ListWriters \cup {"allsongs"} => InStep
         /\ \A i \in 1 .. Len(todo') + 1 : Gate(todo', i) =>
              /\ InStep \/ CommitIn(todo', 0, i)
              /\ Head(todo) \in ListWriters => CommitIn(todo', 0, i)
<1>1. /\ Len(todo') = Len(todo) - 1 /\ Head(todo) = todo[1] /\ Len(todo) \in Nat \ {0}
      /\ \A i \in 1 .. Len(todo') : todo'[i] = todo[i + 1]
  BY TailFits
<1>2. ASSUME Head(todo) \in ListWriters \cup {"allsongs"}
      PROVE  InStep
  <2>1. Gate(todo, 1) /\ 1 \in 1 .. Len(todo) + 1
    BY <1>1, <1>2 DEF Gate
  <2>2. ~CommitIn(todo, 0, 1)
    BY <1>1 DEF CommitIn
  <2> QED BY <2>1, <2>2 DEF CopiesAgree
<1>3. ASSUME NEW i \in 1 .. Len(todo') + 1, Gate(todo', i)
      PROVE  Gate(todo, i + 1) /\ i + 1 \in 1 .. Len(todo) + 1
  <2>1. CASE i = Len(todo') + 1
    BY <1>1, <2>1 DEF Gate
  <2>2. CASE i \in 1 .. Len(todo') /\ todo'[i] \in ListWriters \cup {"allsongs"}
    BY <1>1, <2>2 DEF Gate
  <2> QED BY <1>3, <2>1, <2>2 DEF Gate
<1>4. ASSUME NEW i \in 1 .. Len(todo') + 1, NEW k \in {0, 1}, CommitIn(todo, k, i + 1)
      PROVE  CommitIn(todo', 0, i)
  <2>1. PICK j \in 1 .. Len(todo) : k < j /\ j < i + 1 /\ todo[j] = "commit"
    BY <1>4 DEF CommitIn
  <2>2. j > 1 /\ j - 1 \in 1 .. Len(todo') /\ (j - 1) + 1 = j
    BY <1>1, <2>1
  <2>3. todo'[j - 1] = "commit" /\ 0 < j - 1 /\ j - 1 < i
    BY <1>1, <2>1, <2>2
  <2> QED BY <2>2, <2>3 DEF CommitIn
<1>5. ASSUME NEW i \in 1 .. Len(todo') + 1, Gate(todo', i), Head(todo) \in ListWriters
      PROVE  CommitIn(todo', 0, i)
  <2>1. CommitIn(todo, 1, i + 1)
    BY <1>1, <1>3, <1>5 DEF StepsFit
  <2> QED BY <1>4, <2>1
<1>6. ASSUME NEW i \in 1 .. Len(todo') + 1, Gate(todo', i)
      PROVE  InStep \/ CommitIn(todo', 0, i)
  <2>1. InStep \/ CommitIn(todo, 0, i + 1)
    BY <1>3, <1>6 DEF CopiesAgree
  <2> QED BY <1>4, <2>1
<1> QED BY <1>2, <1>5, <1>6

\* A step writes no list.
LEMMA ListsUntouched ==
  ASSUME CatInv, running, todo # <<>>, todo' = Tail(todo), Head(todo) \notin ListWriters,
         UNCHANGED <<backup, arg, running>>, DOMAIN home' = Blocks,
         \A c \in ListBlocks : home'[c] = home[c], CopiesAgree'
  PROVE  CatInv'
<1>3. ListsOK(home)' /\ ProjectsOf(home') = ProjectsOf(home)
  BY SameLists DEF CatInv
<1>4. /\ home'[DriveInfo] = home[DriveInfo] /\ ProjectsOf(home) \subseteq ProjectBlocks
      /\ \A p \in ProjectBlocks : home'[p] = home[p]
  BY ProjectsFacts DEF ListBlocks, CatInv
<1>5. /\ StepsFit(todo)' /\ \A s : HasStep(s)' => HasStep(s)
      /\ \A s : HasStep(s) => s = Head(todo) \/ HasStep(s)'
  BY StepTaken DEF CatInv
<1>6. Head(todo) # "count" /\ Head(todo) # "project"
  BY DEF ListWriters
<1>8. UncountedIsNew'
  <2>1. HasStep("count") => HasStep("count")'
    BY <1>5, <1>6
  <2>2. UncountedIsNew
    BY DEF CatInv
  <2> HIDE DEF HasStep
  <2> QED BY <1>3, <1>4, <2>1, <2>2 DEF UncountedIsNew
<1>9. ArgFits'
  <2>1. ASSUME NewSongFits
        PROVE  NewSongFits'
    <3>1. arg' = arg /\ home'[arg.project] = home[arg.project]
      BY <1>4, <2>1 DEF NewSongFits
    <3>2. \A p \in ProjectsOf(home) : home'[p] = home[p]
      BY <1>4
    <3> QED BY <1>3, <2>1, <3>1, <3>2 DEF NewSongFits
  <2>2. NewProjectFits => NewProjectFits'
    BY <1>3, <1>4 DEF NewProjectFits
  <2>3. HasStep("project") => HasStep("project")'
    BY <1>5, <1>6
  <2>4. HasStep("addproject") => arg.project \in ProjectBlocks
    BY DEF CatInv, ArgFits, NewProjectFits
  <2>5. HasStep("unlist") => home'[arg.project] = home[arg.project]
    BY <1>4 DEF CatInv, ArgFits
  <2> HIDE DEF HasStep
  <2> QED BY <1>3, <1>4, <1>5, <2>1, <2>2, <2>3, <2>4, <2>5 DEF CatInv, ArgFits
<1> QED BY <1>3, <1>5, <1>8, <1>9 DEF CatInv

\* A step writes a list: what is left is that the lists and what is still to
\* be done are in order.
LEMMA ListWritten ==
  ASSUME CatInv, NEW step \in ListWriters, NEW b \in ListBlocks, NEW content,
         Write(step, b, content), ListsOK(home)', UncountedIsNew', ArgFits'
  PROVE  CatInv'
<1>1. /\ running /\ todo # <<>> /\ Head(todo) = step /\ todo' = Tail(todo)
      /\ home' = [home EXCEPT ![b] = content] /\ UNCHANGED <<backup, arg, running>>
  BY DEF Write, Doing
<1>2. InStep /\ \A i \in 1 .. Len(todo') + 1 : Gate(todo', i) => CommitIn(todo', 0, i)
  <2>1. step # "commit"
    BY DEF ListWriters
  <2> QED BY <1>1, <2>1, GatesKept DEF CatInv
<1>3. \A c \in ListBlocks : c # b => home'[c] = backup'[c]
  BY <1>1, <1>2, BlockFacts DEF InStep, CatInv, ListsOK, ListTypes
<1>4. StepsFit(todo)'
  BY <1>1, StepTaken DEF CatInv
<1>5. CopiesAgree'
  BY <1>2 DEF CopiesAgree
<1> QED BY <1>1, <1>3, <1>4, <1>5 DEF CatInv

\* An operation begins.
LEMMA Begun ==
  ASSUME CatInv, NEW steps, StepsFit(steps), NEW p \in ProjectBlocks \cup {None},
         NEW id \in Nat, NEW s \in Songs \cup {None}, NEW space \in SUBSET Clusters,
         Begin(steps, p, id, s, space), ArgFits'
  PROVE  CatInv'
<1>1. /\ running /\ todo = <<>> /\ todo' = steps /\ UNCHANGED <<home, backup, running>>
      /\ arg' = [project |-> p, id |-> id, song |-> s, space |-> space]
  BY DEF Begin, Idle
<1>2. InStep
  <2>1. Gate(todo, 1) /\ ~CommitIn(todo, 0, 1) /\ 1 \in 1 .. Len(todo) + 1
    BY <1>1 DEF Gate, CommitIn
  <2> QED BY <1>1, <2>1 DEF CatInv, CopiesAgree
<1>3. CopiesAgree'
  BY <1>1, <1>2 DEF CopiesAgree, InStep
<1>4. UncountedIsNew'
  <2>1. ~HasStep("count")
    BY <1>1 DEF HasStep
  <2> QED BY <1>1, <2>1 DEF CatInv, UncountedIsNew
<1>5. arg' \in ArgContent
  BY <1>1 DEF ArgContent
<1> QED BY <1>1, <1>3, <1>4, <1>5 DEF CatInv

\* While nothing is to be done, and before each operation, all songs are counted.
LEMMA AllCounted ==
  ASSUME CatInv, running, ~HasStep("count")
  PROVE  NoneUncounted(home)
<1>1. \A p \in ProjectsOf(home) : home[p].count \in Nat
  BY ProjectsFacts DEF CatInv, ListsOK, ListTypes, ProjectContent
<1> QED BY <1>1 DEF CatInv, UncountedIsNew, NoneUncounted
------------------------------------------------------------------------------
(* Operations begin. *)

\* What may be to be done is the first step or may follow it.
LEMMA StepsOfBegun ==
  ASSUME NEW steps, StepsFit(steps), todo' = steps, NEW first, steps[1] = first
  PROVE  \A step : HasStep(step)' => step = first \/ step \in After(first)
<1> SUFFICES ASSUME NEW i \in 1 .. Len(steps)
             PROVE  steps[i] = first \/ steps[i] \in After(first)
  BY DEF HasStep
<1>1. CASE i = 1
  BY <1>1
<1>2. CASE i # 1
  <2>1. 1 \in 1 .. Len(steps) /\ 1 < i
    BY <1>2 DEF StepsFit
  <2> QED BY <2>1 DEF StepsFit
<1> QED BY <1>1, <1>2

LEMMA IdleFacts ==
  ASSUME CatInv, Idle
  PROVE  /\ NoneUncounted(home) /\ running /\ ListsOK(home)
         /\ ProjectsOf(home) \subseteq ProjectBlocks
         /\ \A p \in ProjectsOf(home) :
              /\ home[p] \in ProjectContent /\ home[p].list \in SongList
              /\ home[p].count \in 0 .. MaxSongs
              /\ \A i \in 1 .. MaxSongs : home[p].list[i] # None <=> i <= home[p].count
<1>1. NoneUncounted(home) /\ running /\ ListsOK(home)
  <2>1. ~HasStep("count")
    BY DEF Idle, HasStep
  <2> QED BY <2>1, AllCounted DEF Idle, CatInv
<1>2. ProjectsOf(home) \subseteq ProjectBlocks
  BY <1>1, ProjectsFacts
<1>3. ASSUME NEW p \in ProjectsOf(home)
      PROVE  home[p] \in ProjectContent /\ CountedAreThere(home[p])
  BY <1>1, <1>2, <1>3 DEF ListsOK, ListTypes
<1>4. ASSUME NEW p \in ProjectsOf(home)
      PROVE  /\ home[p].list \in SongList
             /\ home[p].count \in 0 .. MaxSongs
             /\ \A i \in 1 .. MaxSongs : home[p].list[i] # None <=> i <= home[p].count
  BY <1>1, <1>3, <1>4, BlockFacts DEF ProjectContent, CountedAreThere, NoneUncounted
<1> QED BY <1>1, <1>2, <1>3, <1>4

LEMMA CreateSongBegins ==
  ASSUME CatInv, NEW p \in ProjectsOf(home), CreateSong(p)
  PROVE  CatInv'
<1> DEFINE slot == Least(Unused(home[p].list))
           s == Least(FreeSongs)
<1>1. Idle
  BY DEF CreateSong, Begin
<1>2. PICK selected \in BOOLEAN :
        /\ home[p].count # MaxSongs /\ Unused(home[p].list) # {} /\ FreeSongs # {}
        /\ Begin(CreateSongSteps(selected), p, slot, s, {})
  BY DEF CreateSong
<1>3. /\ p \in ProjectBlocks /\ home[p].list \in [1 .. MaxSongs -> Songs \cup {None}]
      /\ home[p].count \in 0 .. MaxSongs
      /\ \A i \in 1 .. MaxSongs : home[p].list[i] # None <=> i <= home[p].count
  BY <1>1, IdleFacts DEF SongList
<1>4. slot = home[p].count + 1 /\ slot <= MaxSongs /\ slot \in Nat
  <2>1. Unused(home[p].list) = {i \in 1 .. MaxSongs : i > home[p].count}
    <3>1. Unused(home[p].list) = {i \in 1 .. MaxSongs : home[p].list[i] = None}
      BY <1>3 DEF Unused
    <3>2. \A i \in 1 .. MaxSongs : home[p].list[i] = None <=> i > home[p].count
      BY <1>3
    <3> QED BY <3>1, <3>2
  <2>2. Unused(home[p].list) \in SUBSET Nat
    BY <2>1
  <2>3. slot \in Unused(home[p].list) /\ \A y \in Unused(home[p].list) : slot <= y
    BY <1>2, <2>2, LeastIsLeast
  <2>4. home[p].count + 1 \in Unused(home[p].list)
    BY <1>2, <1>3, <2>1, BlockFacts
  <2> HIDE DEF slot
  <2> QED BY <1>3, <2>1, <2>3, <2>4
<1>5. s \in Songs /\ s \notin Listed(home)
  <2>1. FreeSongs \in SUBSET Nat
    BY BlockFacts DEF FreeSongs
  <2>2. s \in FreeSongs
    BY <1>2, <2>1, LeastIsLeast
  <2> QED BY <2>2 DEF FreeSongs
<1> HIDE DEF slot, s
<1>6. \A q \in ProjectsOf(home) : \A i \in 1 .. MaxSongs : home[q].list[i] # s
  <2> SUFFICES ASSUME NEW q \in ProjectsOf(home), NEW i \in 1 .. MaxSongs, home[q].list[i] = s
               PROVE  FALSE
    OBVIOUS
  <2>1. s # None
    BY <1>5, BlockFacts
  <2>2. i \in 1 .. home[q].count
    BY <1>1, <2>1, IdleFacts
  <2>3. s \in SongsOf(home, q)
    BY <2>1, <2>2 DEF SongsOf
  <2> QED BY <1>5, <2>3 DEF Listed
<1>7. /\ todo' = CreateSongSteps(selected) /\ home' = home
      /\ arg' = [project |-> p, id |-> slot, song |-> s, space |-> {}]
  BY <1>2 DEF Begin
<1>8. NewSongFits'
  BY <1>4, <1>5, <1>6, <1>7 DEF NewSongFits
<1>9. StepsFit(CreateSongSteps(selected)) /\ CreateSongSteps(selected)[1] = "record"
  BY BeginningsFit
<1>10. ArgFits'
  <2>1. \A step : HasStep(step)' => step = "record" \/ step \in After("record")
    BY <1>7, <1>9, StepsOfBegun
  <2> HIDE DEF HasStep
  <2> QED BY <1>8, <2>1 DEF ArgFits, After
<1> QED BY <1>2, <1>3, <1>4, <1>5, <1>9, <1>10, Begun

LEMMA SongOpBegins ==
  ASSUME CatInv, NEW p \in ProjectsOf(home),
         \/ SortSongs(p)
         \/ \E id \in 1 .. MaxSongs :
              \/ DeleteSong(p, id) \/ SelectSong(p, id)
              \/ \E space \in SUBSET Clusters : LengthenSong(p, id, space)
  PROVE  CatInv'
<1>1. Idle
  BY DEF SortSongs, DeleteSong, SelectSong, LengthenSong, Begin
<1>2. /\ p \in ProjectBlocks /\ home[p].list \in [1 .. MaxSongs -> Songs \cup {None}]
      /\ home[p].count \in 0 .. MaxSongs
  BY <1>1, IdleFacts DEF SongList
<1>3. CASE SortSongs(p)
  <2> DEFINE steps == <<"sort", "commit">>
  <2>1. Begin(steps, p, 0, None, {})
    BY <1>3 DEF SortSongs
  <2>2. todo' = steps /\ home' = home /\ arg'.project = p
    BY <2>1 DEF Begin
  <2>3. StepsFit(steps) /\ steps[1] = "sort"
    BY BeginningsFit
  <2> HIDE DEF steps
  <2>4. \A step : HasStep(step)' => step = "sort" \/ step \in After("sort")
    BY <2>2, <2>3, StepsOfBegun
  <2>5. ArgFits'
    <3> HIDE DEF HasStep
    <3> QED BY <2>2, <2>4 DEF ArgFits, After
  <2>6. /\ p \in ProjectBlocks \cup {None} /\ None \in Songs \cup {None}
        /\ 0 \in Nat /\ {} \in SUBSET Clusters
    BY <1>2
  <2> QED BY <2>1, <2>3, <2>5, <2>6, Begun
<1>4. ASSUME NEW id \in 1 .. MaxSongs, DeleteSong(p, id)
      PROVE  CatInv'
  <2> DEFINE steps == DeleteSongSteps
  <2>1. Begin(steps, p, id, home[p].list[id], {}) /\ id \in 1 .. home[p].count
    BY <1>4 DEF DeleteSong
  <2>2. todo' = steps /\ home' = home /\ arg'.project = p /\ arg'.id = id
    BY <2>1 DEF Begin
  <2>3. StepsFit(steps) /\ steps[1] = "unlist"
    BY BeginningsFit DEF DeleteSongSteps
  <2> HIDE DEF steps
  <2>4. \A step : HasStep(step)' => step = "unlist" \/ step \in After("unlist")
    BY <2>2, <2>3, StepsOfBegun
  <2>5. ArgFits'
    <3> HIDE DEF HasStep
    <3> QED BY <2>1, <2>2, <2>4 DEF ArgFits, After
  <2>6. home[p].list[id] \in Songs \cup {None} /\ id \in Nat
    <3>1. id \in Nat
      BY <1>4, BlockFacts
    <3>2. home[p].list[id] \in Songs \cup {None}
      BY <1>2
    <3> QED BY <3>1, <3>2
  <2> QED BY <1>2, <2>1, <2>3, <2>5, <2>6, Begun
<1>5. ASSUME NEW id \in 1 .. MaxSongs, SelectSong(p, id)
      PROVE  CatInv'
  <2> DEFINE steps == <<"lastsong", "commit">>
  <2>1. Begin(steps, p, id, None, {}) /\ id \in 1 .. home[p].count
    BY <1>5 DEF SelectSong
  <2>2. todo' = steps /\ home' = home /\ arg'.project = p /\ arg'.id = id
    BY <2>1 DEF Begin
  <2>3. StepsFit(steps) /\ steps[1] = "lastsong"
    BY BeginningsFit
  <2> HIDE DEF steps
  <2>4. \A step : HasStep(step)' => step = "lastsong" \/ step \in After("lastsong")
    BY <2>2, <2>3, StepsOfBegun
  <2>5. ArgFits'
    <3> HIDE DEF HasStep
    <3> QED BY <1>5, <2>2, <2>4 DEF ArgFits, After
  <2>6. id \in Nat
    BY <1>5
  <2> QED BY <1>2, <2>1, <2>3, <2>5, <2>6, Begun
<1>6. ASSUME NEW id \in 1 .. MaxSongs, NEW space \in SUBSET Clusters,
             LengthenSong(p, id, space)
      PROVE  CatInv'
  <2> DEFINE steps == LengthenSteps
  <2>1. Begin(steps, p, id, home[p].list[id], space)
    BY <1>6 DEF LengthenSong
  <2>2. todo' = steps /\ home' = home
    BY <2>1 DEF Begin
  <2>3. StepsFit(steps) /\ steps[1] = "grow"
    BY BeginningsFit DEF LengthenSteps
  <2> HIDE DEF steps
  <2>4. \A step : HasStep(step)' => step = "grow" \/ step \in After("grow")
    BY <2>2, <2>3, StepsOfBegun
  <2>5. ArgFits'
    <3> HIDE DEF HasStep
    <3> QED BY <2>4 DEF ArgFits, After
  <2>6. home[p].list[id] \in Songs \cup {None} /\ id \in Nat
    <3>1. id \in Nat
      BY <1>6, BlockFacts
    <3>2. home[p].list[id] \in Songs \cup {None}
      BY <1>2
    <3> QED BY <3>1, <3>2
  <2> QED BY <1>2, <2>1, <2>3, <2>5, <2>6, Begun
<1> QED BY <1>3, <1>4, <1>5, <1>6

LEMMA ProjectOpBegins ==
  ASSUME CatInv,
         \/ CreateProject
         \/ \E id \in 1 .. home[DriveInfo].count : DeleteProject(id) \/ SelectProject(id)
  PROVE  CatInv'
<1> DEFINE info == home[DriveInfo]
<1>1. Idle /\ ListsOK(home)
  BY DEF CreateProject, DeleteProject, SelectProject, Begin, CatInv
<1>2. /\ info.list \in [1 .. MaxProjects -> ProjectBlocks \cup {None}]
      /\ info.count \in 0 .. MaxProjects
      /\ \A i \in 1 .. MaxProjects : info.list[i] # None <=> i <= info.count
  BY <1>1 DEF ListsOK, ListTypes, InfoContent, InfoPacked
<1>3. Values(info.list) = ProjectsOf(home)
  BY <1>1, ProjectsFacts
<1> HIDE DEF info
<1>4. CASE CreateProject
  <2> DEFINE slot == Least(Unused(info.list))
             p == Least(ProjectBlocks \ Values(info.list))
             steps == CreateProjectSteps
  <2>1. /\ Begin(steps, p, slot, None, {}) /\ info.count # MaxProjects
        /\ Unused(info.list) # {} /\ ProjectBlocks \ Values(info.list) # {}
    BY <1>4 DEF CreateProject, info
  <2>2. p \in ProjectBlocks \ ProjectsOf(home)
    <3>1. ProjectBlocks \ Values(info.list) \in SUBSET Nat
      BY BlockFacts
    <3> QED BY <1>3, <2>1, <3>1, LeastIsLeast
  <2>3. slot = info.count + 1 /\ slot <= MaxProjects /\ slot \in Nat
    <3>1. Unused(info.list) = {i \in 1 .. MaxProjects : info.list[i] = None}
      BY <1>2 DEF Unused
    <3>2. \A i \in 1 .. MaxProjects : info.list[i] = None <=> i > info.count
      BY <1>2
    <3>3. Unused(info.list) = {i \in 1 .. MaxProjects : i > info.count}
      BY <3>1, <3>2
    <3>4. Unused(info.list) \in SUBSET Nat
      BY <3>3
    <3>5. slot \in Unused(info.list) /\ \A y \in Unused(info.list) : slot <= y
      BY <2>1, <3>4, LeastIsLeast
    <3>6. info.count + 1 \in Unused(info.list)
      BY <1>2, <2>1, <3>3, BlockFacts
    <3> HIDE DEF slot
    <3> QED BY <1>2, <3>3, <3>5, <3>6
  <2> HIDE DEF slot, p
  <2>4. todo' = steps /\ home' = home /\ arg'.project = p /\ arg'.id = slot
    BY <2>1 DEF Begin
  <2>5. StepsFit(steps) /\ steps[1] = "project" /\ 1 \in 1 .. Len(steps)
    BY BeginningsFit DEF CreateProjectSteps
  <2> HIDE DEF steps
  <2>6. /\ \A step : HasStep(step)' => step = "project" \/ step \in After("project")
        /\ HasStep("project")'
    BY <2>4, <2>5, StepsOfBegun DEF HasStep
  <2>7. NewProjectFits'
    BY <2>2, <2>3, <2>4 DEF NewProjectFits, info
  <2>8. ArgFits'
    <3> HIDE DEF HasStep
    <3> QED BY <2>6, <2>7 DEF ArgFits, After
  <2>9. /\ p \in ProjectBlocks \cup {None} /\ None \in Songs \cup {None}
        /\ {} \in SUBSET Clusters
    BY <2>2
  <2> QED BY <2>1, <2>3, <2>5, <2>8, <2>9, Begun
<1>5. ASSUME NEW id \in 1 .. info.count, DeleteProject(id)
      PROVE  CatInv'
  <2> DEFINE p == info.list[id]
             steps == DeleteProjectSteps
  <2>1. Begin(steps, p, id, None, {}) /\ p # None
    BY <1>5 DEF DeleteProject, info
  <2>2. p \in ProjectsOf(home) /\ p \in ProjectBlocks /\ id \in Nat
    <3>1. id \in 1 .. MaxProjects /\ id \in Nat
      BY <1>2, <1>5, BlockFacts
    <3>2. p \in ProjectBlocks
      BY <1>2, <2>1, <3>1
    <3>3. p \in ProjectsOf(home)
      BY <1>5, <2>1 DEF ProjectsOf, info
    <3> QED BY <3>1, <3>2, <3>3
  <2> HIDE DEF p
  <2>4. todo' = steps /\ home' = home /\ arg'.project = p
    BY <2>1 DEF Begin
  <2>5. StepsFit(steps) /\ steps[1] = "allsongs"
    BY BeginningsFit DEF DeleteProjectSteps
  <2> HIDE DEF steps
  <2>6. \A step : HasStep(step)' => step = "allsongs" \/ step \in After("allsongs")
    BY <2>4, <2>5, StepsOfBegun
  <2>8. ArgFits'
    <3> HIDE DEF HasStep
    <3> QED BY <2>2, <2>4, <2>6 DEF ArgFits, After
  <2>9. /\ p \in ProjectBlocks \cup {None} /\ None \in Songs \cup {None}
        /\ {} \in SUBSET Clusters
    BY <2>2
  <2> QED BY <2>1, <2>2, <2>5, <2>8, <2>9, Begun
<1>6. ASSUME NEW id \in 1 .. info.count, SelectProject(id)
      PROVE  CatInv'
  <2> DEFINE p == info.list[id]
             steps == <<"lastproject", "commit">>
  <2>1. Begin(steps, p, id, None, {}) /\ p # None
    BY <1>6 DEF SelectProject, info
  <2>2. p \in ProjectBlocks /\ id \in Nat
    <3>1. id \in 1 .. MaxProjects /\ id \in Nat
      BY <1>2, <1>6, BlockFacts
    <3> QED BY <1>2, <2>1, <3>1
  <2> HIDE DEF p
  <2>4. todo' = steps /\ home' = home /\ arg'.project = p
    BY <2>1 DEF Begin
  <2>5. StepsFit(steps) /\ steps[1] = "lastproject"
    BY BeginningsFit
  <2> HIDE DEF steps
  <2>6. \A step : HasStep(step)' => step = "lastproject" \/ step \in After("lastproject")
    BY <2>4, <2>5, StepsOfBegun
  <2>8. ArgFits'
    <3> HIDE DEF HasStep
    <3> QED BY <2>2, <2>4, <2>6 DEF ArgFits, After
  <2>9. /\ p \in ProjectBlocks \cup {None} /\ None \in Songs \cup {None}
        /\ {} \in SUBSET Clusters
    BY <2>2
  <2> QED BY <2>1, <2>2, <2>5, <2>8, <2>9, Begun
<1> QED BY <1>4, <1>5, <1>6 DEF info
------------------------------------------------------------------------------
(* The steps that write a list. *)

LEMMA DoingFacts ==
  ASSUME CatInv, NEW step, Doing(step)
  PROVE  /\ HasStep(step) /\ UncountedIsNew /\ ListsOK(home) /\ arg \in ArgContent
         /\ todo' = Tail(todo) =>
              /\ \A s : HasStep(s)' => HasStep(s) /\ s \in After(step)
              /\ \A s : HasStep(s) => s = step \/ HasStep(s)'
              /\ step = "enlist" => HasStep("count")'
<1>1. running /\ todo # <<>> /\ Head(todo) = step /\ StepsFit(todo)
  BY DEF CatInv, Doing
<1>2. UncountedIsNew /\ ListsOK(home) /\ arg \in ArgContent
  BY <1>1 DEF CatInv
<1>3. HasStep(step)
  BY <1>1, TailFits DEF HasStep
<1>4. ASSUME todo' = Tail(todo)
      PROVE  /\ \A s : HasStep(s)' => HasStep(s) /\ s \in After(step)
             /\ \A s : HasStep(s) => s = step \/ HasStep(s)'
             /\ step = "enlist" => HasStep("count")'
  BY <1>1, <1>4, StepTaken
<1> QED BY <1>2, <1>3, <1>4

LEMMA ProjectFacts ==
  ASSUME ListsOK(home), NEW p \in ProjectsOf(home)
  PROVE  /\ p \in ProjectBlocks /\ home[p] \in ProjectContent
         /\ home[p].list \in [1 .. MaxSongs -> Songs \cup {None}]
         /\ home[p].count \in 0 .. MaxSongs /\ home[p].last \in Songs \cup {None}
         /\ home[p] = [list |-> home[p].list, count |-> home[p].count, last |-> home[p].last]
         /\ \A i \in 1 .. home[p].count : i \in 1 .. MaxSongs /\ home[p].list[i] # None
<1>1. p \in ProjectBlocks
  BY ProjectsFacts
<1>2. home[p] \in ProjectContent /\ CountedAreThere(home[p])
  BY <1>1 DEF ListsOK, ListTypes
<1> QED BY <1>1, <1>2, BlockFacts DEF ProjectContent, SongList, CountedAreThere

\* createsong lists the song, and counts it or not.
LEMMA NewSongWritten ==
  ASSUME ListsOK(home), UncountedIsNew, NewSongFits, arg' = arg,
         NEW n \in {project.count, project.count + 1}, NEW l \in Songs \cup {None},
         NEW new, new = [list |-> [project.list EXCEPT ![arg.id] = arg.song],
                         count |-> n, last |-> l],
         home' = [home EXCEPT ![arg.project] = new]
  PROVE  /\ ListsOK(home)' /\ ProjectsOf(home)' = ProjectsOf(home)
         /\ home'[arg.project].count = n
         /\ \A p \in ProjectsOf(home) : p # arg.project => home'[p] = home[p]
         /\ \A p \in ProjectsOf(home) : \A i \in 1 .. MaxSongs :
              /\ home'[p].list[i] = arg.song => p = arg.project /\ i = arg.id
              /\ home'[p].list[i] # None /\ i > home[p].count => p = arg.project /\ i = arg.id
<1> DEFINE p == arg.project
           s == arg.song
<1>1. /\ p \in ProjectsOf(home) /\ s \in Songs /\ s # None
      /\ arg.id = home[p].count + 1 /\ arg.id \in 1 .. MaxSongs
  <2>1. /\ p \in ProjectsOf(home) /\ s \in Songs /\ s # None
        /\ arg.id = home[p].count + 1 /\ arg.id <= MaxSongs
    BY BlockFacts DEF NewSongFits
  <2>2. home[p].count \in 0 .. MaxSongs
    BY <2>1, ProjectFacts
  <2> HIDE DEF p, s
  <2> QED BY <2>1, <2>2, BlockFacts
<1>2. /\ p \in ProjectBlocks
      /\ home[p].list \in [1 .. MaxSongs -> Songs \cup {None}]
      /\ home[p].count \in 0 .. MaxSongs
      /\ \A i \in 1 .. home[p].count : i \in 1 .. MaxSongs /\ home[p].list[i] # None
  BY <1>1, ProjectFacts
<1>3. /\ new.list \in [1 .. MaxSongs -> Songs \cup {None}]
      /\ \A i \in 1 .. MaxSongs : new.list[i] = IF i = arg.id THEN s ELSE home[p].list[i]
      /\ new.count = n /\ n \in 0 .. MaxSongs
  <2>1. new.list = [home[p].list EXCEPT ![arg.id] = s] /\ new.count = n
    BY DEF project
  <2>2. n \in {home[p].count, home[p].count + 1}
    BY DEF project
  <2> HIDE DEF p, s
  <2>3. n \in 0 .. MaxSongs
    BY <1>1, <1>2, <2>2, BlockFacts
  <2> QED BY <1>1, <1>2, <2>1, <2>3
<1>4. new \in ProjectContent
  BY <1>3 DEF ProjectContent, SongList
<1>5. \A q \in ProjectsOf(home) : \A i \in 1 .. MaxSongs :
        /\ home[q].list[i] = s => q = p /\ i = arg.id
        /\ home[q].list[i] # None /\ i > home[q].count => q = p /\ i = arg.id
  BY DEF NewSongFits, UncountedIsNew
<1> HIDE DEF p, s
<1>6. CountedAreThere(new)
  <2> SUFFICES ASSUME NEW i \in 1 .. n PROVE new.list[i] # None
    BY <1>3 DEF CountedAreThere
  <2>1. i \in 1 .. MaxSongs /\ (i = arg.id \/ i \in 1 .. home[p].count)
    BY <1>1, <1>2, <1>3 DEF project, p
  <2> QED BY <1>1, <1>2, <1>3, <2>1
<1>7. \A i, j \in 1 .. MaxSongs : new.list[i] # None /\ new.list[i] = new.list[j] => i = j
  <2>1. \A i, j \in 1 .. MaxSongs :
          home[p].list[i] # None /\ home[p].list[i] = home[p].list[j] => i = j
    BY <1>1 DEF ListsOK, SongsDistinct
  <2> QED BY <1>1, <1>3, <1>5, <2>1
<1>8. \A q \in ProjectsOf(home) \ {p} : \A i, j \in 1 .. MaxSongs :
        new.list[i] # None => new.list[i] # home[q].list[j]
  <2>1. \A q \in ProjectsOf(home) \ {p} : \A i, j \in 1 .. MaxSongs :
          home[p].list[i] # None => home[p].list[i] # home[q].list[j]
    BY <1>1 DEF ListsOK, SongsDistinct
  <2> QED BY <1>1, <1>3, <1>5, <2>1
<1>9. ListsOK(home') /\ ProjectsOf(home') = ProjectsOf(home)
  <2>1. home' = [home EXCEPT ![p] = new]
    BY DEF p
  <2>2. ListsOK([home EXCEPT ![p] = new])
        /\ ProjectsOf([home EXCEPT ![p] = new]) = ProjectsOf(home)
    <3>1. Suits(home, p, new)
      BY <1>6, <1>7, <1>8 DEF Suits
    <3> QED BY <1>2, <1>4, <3>1, ProjectWritten
  <2> QED BY <2>1, <2>2
<1>10. home'[p] = new /\ \A q \in ProjectsOf(home) : q # p => home'[q] = home[q]
  <2>1. DOMAIN home = Blocks /\ p \in Blocks
    BY <1>2, BlockFacts DEF ListsOK, ListTypes
  <2> QED BY <2>1 DEF p
<1>11. ASSUME NEW q \in ProjectsOf(home), NEW i \in 1 .. MaxSongs
       PROVE  /\ home'[q].list[i] = s => q = p /\ i = arg.id
              /\ home'[q].list[i] # None /\ i > home[q].count => q = p /\ i = arg.id
  <2>1. CASE q = p
    BY <1>3, <1>5, <1>10, <2>1, <1>1
  <2>2. CASE q # p
    BY <1>5, <1>10, <2>2
  <2> QED BY <2>1, <2>2
<1> QED BY <1>3, <1>9, <1>10, <1>11 DEF p, s

LEMMA EnlistKeeps == CatInv /\ Enlist => CatInv'
<1> SUFFICES ASSUME CatInv, Enlist PROVE CatInv'
  OBVIOUS
<1>1. /\ Write("enlist", arg.project, [enlisted EXCEPT !.last = arg.song])
      /\ Doing("enlist") /\ todo' = Tail(todo) /\ arg' = arg
  BY DEF Enlist, Write
<1>2. /\ HasStep("count")' /\ HasStep("count") /\ UncountedIsNew /\ ListsOK(home)
      /\ \A s : HasStep(s)' => s \in After("enlist")
  BY <1>1, DoingFacts
<1>3. NewSongFits
  BY <1>2 DEF CatInv, ArgFits
<1>4. arg.project \in ProjectsOf(home) /\ arg.song \in Songs
  BY <1>3 DEF NewSongFits
<1> DEFINE new == [list |-> [project.list EXCEPT ![arg.id] = arg.song],
                   count |-> project.count, last |-> arg.song]
<1>5. [enlisted EXCEPT !.last = arg.song] = new
  <2>1. project = [list |-> project.list, count |-> project.count, last |-> project.last]
    BY <1>2, <1>4, ProjectFacts DEF project
  <2>2. enlisted = [list |-> [project.list EXCEPT ![arg.id] = arg.song],
                    count |-> project.count, last |-> project.last]
    BY <2>1 DEF enlisted
  <2> QED BY <2>2
<1>6. home' = [home EXCEPT ![arg.project] = new]
  BY <1>1, <1>5 DEF Write
<1> HIDE DEF new
<1>7. /\ ListsOK(home)' /\ ProjectsOf(home)' = ProjectsOf(home)
      /\ home'[arg.project].count = home[arg.project].count
      /\ \A p \in ProjectsOf(home) : p # arg.project => home'[p] = home[p]
      /\ \A p \in ProjectsOf(home) : \A i \in 1 .. MaxSongs :
           /\ home'[p].list[i] = arg.song => p = arg.project /\ i = arg.id
           /\ home'[p].list[i] # None /\ i > home[p].count => p = arg.project /\ i = arg.id
  BY <1>1, <1>2, <1>3, <1>4, <1>6, NewSongWritten DEF new, project
<1>8. UncountedIsNew'
  BY <1>1, <1>2, <1>7 DEF UncountedIsNew
<1>9. ArgFits'
  <2>1. NewSongFits'
    BY <1>1, <1>3, <1>7 DEF NewSongFits
  <2> HIDE DEF HasStep
  <2> QED BY <1>2, <2>1 DEF ArgFits, After
<1>10. arg.project \in ListBlocks
  BY <1>2, <1>4, ProjectFacts DEF ListBlocks
<1> QED BY <1>1, <1>7, <1>8, <1>9, <1>10, ListWritten DEF ListWriters

LEMMA CountSongKeeps == CatInv /\ CountSong => CatInv'
<1> SUFFICES ASSUME CatInv, CountSong PROVE CatInv'
  OBVIOUS
<1>1. /\ Write("count", arg.project, [enlisted EXCEPT !.count = @ + 1])
      /\ Doing("count") /\ todo' = Tail(todo) /\ arg' = arg
  BY DEF CountSong, Write
<1>2. /\ HasStep("count") /\ UncountedIsNew /\ ListsOK(home)
      /\ \A s : HasStep(s)' => s \in After("count")
  BY <1>1, DoingFacts
<1>3. NewSongFits
  BY <1>2 DEF CatInv, ArgFits
<1>4. arg.project \in ProjectsOf(home)
  BY <1>3 DEF NewSongFits
<1> DEFINE new == [list |-> [project.list EXCEPT ![arg.id] = arg.song],
                   count |-> project.count + 1, last |-> project.last]
<1>5. [enlisted EXCEPT !.count = @ + 1] = new
  <2>1. project = [list |-> project.list, count |-> project.count, last |-> project.last]
    BY <1>2, <1>4, ProjectFacts DEF project
  <2>2. enlisted = [list |-> [project.list EXCEPT ![arg.id] = arg.song],
                    count |-> project.count, last |-> project.last]
    BY <2>1 DEF enlisted
  <2> QED BY <2>2
<1>6. home' = [home EXCEPT ![arg.project] = new]
  BY <1>1, <1>5 DEF Write
<1>7. project.last \in Songs \cup {None} /\ \A p \in ProjectsOf(home) : home[p].count \in Nat
  <2>1. project.last \in Songs \cup {None}
    BY <1>2, <1>4, ProjectFacts DEF project
  <2>2. \A p \in ProjectsOf(home) : home[p].count \in 0 .. MaxSongs
    BY <1>2, ProjectFacts
  <2> QED BY <2>1, <2>2
<1> HIDE DEF new
<1>8. /\ ListsOK(home)' /\ ProjectsOf(home)' = ProjectsOf(home)
      /\ home'[arg.project].count = home[arg.project].count + 1
      /\ \A p \in ProjectsOf(home) : p # arg.project => home'[p] = home[p]
      /\ \A p \in ProjectsOf(home) : \A i \in 1 .. MaxSongs :
           home'[p].list[i] # None /\ i > home[p].count => p = arg.project /\ i = arg.id
  BY <1>1, <1>2, <1>3, <1>4, <1>6, <1>7, NewSongWritten DEF new, project
<1>9. UncountedIsNew'
  <2> SUFFICES ASSUME NEW p \in ProjectsOf(home), NEW i \in 1 .. MaxSongs,
                      home'[p].list[i] # None, i > home'[p].count
               PROVE  FALSE
    BY <1>8 DEF UncountedIsNew
  <2>1. CASE p = arg.project
    <3>1. home[p].count \in Nat /\ home'[p].count = home[p].count + 1 /\ arg.id = home[p].count + 1
      BY <1>3, <1>7, <1>8, <2>1 DEF NewSongFits
    <3> QED BY <1>8, <3>1
  <2>2. CASE p # arg.project
    BY <1>8, <2>2
  <2> QED BY <2>1, <2>2
<1>10. ArgFits'
  <2> HIDE DEF HasStep
  <2> QED BY <1>2 DEF ArgFits, After
<1>11. arg.project \in ListBlocks
  BY <1>2, <1>4, ProjectFacts DEF ListBlocks
<1> QED BY <1>1, <1>8, <1>9, <1>10, <1>11, ListWritten DEF ListWriters

\* A project's songs move up or change places.
LEMMA SongsMoved ==
  ASSUME CatInv, NEW step \in {"unlist", "sort", "lastsong"}, NEW new \in ProjectContent,
         Write(step, arg.project, new), arg.project \in ProjectsOf(home),
         CountedAreThere(new),
         \A i, j \in 1 .. MaxSongs : new.list[i] # None /\ new.list[i] = new.list[j] => i = j,
         \A i \in 1 .. MaxSongs : new.list[i] # None =>
           i <= new.count /\ \E k \in 1 .. MaxSongs : new.list[i] = home[arg.project].list[k]
  PROVE  CatInv'
<1>1. /\ Doing(step) /\ todo' = Tail(todo) /\ arg' = arg
      /\ home' = [home EXCEPT ![arg.project] = new]
  BY DEF Write
<1>2. /\ HasStep(step) /\ ListsOK(home) /\ running
      /\ \A s : HasStep(s)' => HasStep(s) /\ s \in After(step)
      /\ \A s : HasStep(s) => s = step \/ HasStep(s)'
  BY <1>1, DoingFacts DEF Doing
<1>3. ~HasStep("count")
  <2> HIDE DEF HasStep
  <2> QED BY <1>2 DEF After
<1>4. NoneUncounted(home)
  BY <1>2, <1>3, AllCounted
<1>5. arg.project \in ProjectBlocks
  BY <1>2, ProjectFacts
<1>6. Suits(home, arg.project, new)
  <2> SUFFICES ASSUME NEW q \in ProjectsOf(home) \ {arg.project},
                      NEW i \in 1 .. MaxSongs, NEW j \in 1 .. MaxSongs, new.list[i] # None
               PROVE  new.list[i] # home[q].list[j]
    BY DEF Suits
  <2>1. PICK k \in 1 .. MaxSongs : new.list[i] = home[arg.project].list[k]
    OBVIOUS
  <2> QED BY <1>2, <2>1 DEF ListsOK, SongsDistinct
<1>7. ListsOK(home)' /\ ProjectsOf(home)' = ProjectsOf(home)
  BY <1>1, <1>2, <1>5, <1>6, ProjectWritten
<1>8. home'[arg.project] = new /\ \A q \in ProjectsOf(home) : q # arg.project => home'[q] = home[q]
  <2>1. DOMAIN home = Blocks /\ arg.project \in Blocks
    BY <1>2, <1>5, BlockFacts DEF ListsOK, ListTypes
  <2> QED BY <1>1, <2>1
<1>9. UncountedIsNew'
  <2> SUFFICES ASSUME NEW p \in ProjectsOf(home), NEW i \in 1 .. MaxSongs,
                      home'[p].list[i] # None
               PROVE  i <= home'[p].count /\ home'[p].count \in Nat
    BY <1>7 DEF UncountedIsNew
  <2>1. CASE p = arg.project
    BY <1>8, <2>1 DEF ProjectContent
  <2>2. CASE p # arg.project
    <3>1. home'[p] = home[p] /\ home[p].count \in 0 .. MaxSongs
      BY <1>2, <1>8, <2>2, ProjectFacts
    <3> QED BY <1>4, <3>1 DEF NoneUncounted
  <2> QED BY <2>1, <2>2
<1>10. ArgFits'
  <2> HIDE DEF HasStep
  <2> QED BY <1>2, <1>1, <1>7 DEF ArgFits, After
<1>11. step \in ListWriters /\ arg.project \in ListBlocks
  BY <1>5 DEF ListWriters, ListBlocks
<1> QED BY <1>7, <1>9, <1>10, <1>11, ListWritten

LEMMA UnlistKeeps == CatInv /\ Unlist => CatInv'
<1> SUFFICES ASSUME CatInv, Unlist PROVE CatInv'
  OBVIOUS
<1> DEFINE list == Without(project.list, arg.id)
           new == [list |-> list, count |-> project.count - 1, last |-> list[1]]
<1>1. Write("unlist", arg.project, new) /\ Doing("unlist")
  BY DEF Unlist, Write
<1>2. /\ HasStep("unlist") /\ ListsOK(home) /\ todo' = Tail(todo)
      /\ \A s : HasStep(s)' => s \in After("unlist")
      /\ \A s : HasStep(s) => s = "unlist" \/ HasStep(s)'
      /\ running
  BY <1>1, DoingFacts DEF Write, Doing
<1>3. arg.project \in ProjectsOf(home) /\ arg.id \in 1 .. project.count
  BY <1>2 DEF CatInv, ArgFits, project
<1>4. /\ project.list \in [1 .. MaxSongs -> Songs \cup {None}]
      /\ project.count \in 1 .. MaxSongs /\ arg.id \in 1 .. MaxSongs
      /\ \A i \in 1 .. project.count : i \in 1 .. MaxSongs /\ project.list[i] # None
  <2>1. /\ project.list \in [1 .. MaxSongs -> Songs \cup {None}]
        /\ project.count \in 0 .. MaxSongs
        /\ \A i \in 1 .. project.count : i \in 1 .. MaxSongs /\ project.list[i] # None
    BY <1>2, <1>3, ProjectFacts DEF project
  <2> QED BY <1>3, <2>1, BlockFacts
<1>5. \A i \in 1 .. MaxSongs : project.list[i] # None => i <= project.count
  <2>1. ~HasStep("count")
    <3> HIDE DEF HasStep
    <3> QED BY <1>2 DEF After
  <2> QED BY <1>2, <1>3, <2>1, AllCounted DEF NoneUncounted, project
<1>6. \A i, j \in 1 .. MaxSongs :
        project.list[i] # None /\ project.list[i] = project.list[j] => i = j
  BY <1>2, <1>3 DEF ListsOK, SongsDistinct, project
<1>7. /\ DOMAIN list = 1 .. MaxSongs
      /\ \A i \in 1 .. MaxSongs :
           list[i] = IF i < arg.id THEN project.list[i]
                     ELSE IF i + 1 \in 1 .. MaxSongs THEN project.list[i + 1] ELSE None
  BY <1>4 DEF Without
<1> HIDE DEF list
<1>8. list \in [1 .. MaxSongs -> Songs \cup {None}]
  <2>1. \A i \in 1 .. MaxSongs : list[i] \in Songs \cup {None}
    BY <1>4, <1>7
  <2>2. list = [i \in 1 .. MaxSongs |-> list[i]]
    BY <1>7 DEF list, Without
  <2> QED BY <2>1, <2>2
<1>9. /\ new \in ProjectContent /\ new.list = list /\ new.count = project.count - 1
      /\ new.count \in 0 .. MaxSongs
  BY <1>4, <1>8, BlockFacts DEF ProjectContent, SongList
<1> HIDE DEF new
\* Each entry is one of the old list, at its place or one further.
<1>13. ASSUME NEW i \in 1 .. MaxSongs
       PROVE  \/ i < arg.id /\ list[i] = project.list[i]
              \/ arg.id <= i /\ i + 1 \in 1 .. MaxSongs /\ list[i] = project.list[i + 1]
              \/ i = MaxSongs /\ list[i] = None
  BY <1>4, <1>7, BlockFacts
<1>10. CountedAreThere(new)
  <2> SUFFICES ASSUME NEW i \in 1 .. project.count - 1 PROVE list[i] # None
    BY <1>9 DEF CountedAreThere
  <2>1. /\ i \in 1 .. MaxSongs /\ i # MaxSongs
        /\ i \in 1 .. project.count /\ i + 1 \in 1 .. project.count
    BY <1>4, BlockFacts
  <2> QED BY <1>4, <1>13, <2>1
<1>11. \A i, j \in 1 .. MaxSongs : new.list[i] # None /\ new.list[i] = new.list[j] => i = j
  BY <1>4, <1>6, <1>7, <1>9
<1>12. ASSUME NEW i \in 1 .. MaxSongs, new.list[i] # None
       PROVE  i <= new.count /\ \E k \in 1 .. MaxSongs : new.list[i] = home[arg.project].list[k]
  <2>1. CASE i < arg.id /\ list[i] = project.list[i]
    <3>1. i <= project.count - 1
      BY <1>3, <1>4, <2>1
    <3> QED BY <1>9, <2>1, <3>1 DEF project
  <2>2. CASE i + 1 \in 1 .. MaxSongs /\ list[i] = project.list[i + 1]
    <3>1. i + 1 <= project.count
      BY <1>5, <1>9, <1>12, <2>2
    <3>2. i <= project.count - 1
      BY <1>4, <3>1
    <3> QED BY <1>9, <2>2, <3>2 DEF project
  <2> QED BY <1>9, <1>12, <1>13, <2>1, <2>2
<1> QED BY <1>1, <1>3, <1>9, <1>10, <1>11, <1>12, SongsMoved

LEMMA SortKeeps == CatInv /\ Sort => CatInv'
<1> SUFFICES ASSUME CatInv, Sort PROVE CatInv'
  OBVIOUS
<1>1. PICK order \in [1 .. project.count -> 1 .. project.count] :
        /\ \A i, j \in DOMAIN order : order[i] = order[j] => i = j
        /\ Write("sort", arg.project,
             [project EXCEPT !.list =
                [i \in 1 .. MaxSongs |->
                   IF i \in DOMAIN order THEN project.list[order[i]] ELSE project.list[i]]])
  BY DEF Sort
<1> DEFINE list == [i \in 1 .. MaxSongs |->
                      IF i \in DOMAIN order THEN project.list[order[i]] ELSE project.list[i]]
           new == [list |-> list, count |-> project.count, last |-> project.last]
<1>2. /\ HasStep("sort") /\ ListsOK(home) /\ todo' = Tail(todo) /\ running
      /\ \A s : HasStep(s)' => s \in After("sort")
      /\ \A s : HasStep(s) => s = "sort" \/ HasStep(s)'
  BY <1>1, DoingFacts DEF Write, Doing
<1>3. arg.project \in ProjectsOf(home)
  BY <1>2 DEF CatInv, ArgFits
<1>4. /\ project.list \in [1 .. MaxSongs -> Songs \cup {None}]
      /\ project.count \in 0 .. MaxSongs /\ project.last \in Songs \cup {None}
      /\ project = [list |-> project.list, count |-> project.count, last |-> project.last]
      /\ \A i \in 1 .. project.count : i \in 1 .. MaxSongs /\ project.list[i] # None
  BY <1>2, <1>3, ProjectFacts DEF project
<1>5. \A i \in 1 .. MaxSongs : project.list[i] # None => i <= project.count
  <2>1. ~HasStep("count")
    <3> HIDE DEF HasStep
    <3> QED BY <1>2 DEF After
  <2> QED BY <1>2, <1>3, <2>1, AllCounted DEF NoneUncounted, project
<1>6. \A i, j \in 1 .. MaxSongs :
        project.list[i] # None /\ project.list[i] = project.list[j] => i = j
  BY <1>2, <1>3 DEF ListsOK, SongsDistinct, project
<1>7. Write("sort", arg.project, new)
  <2>1. [project EXCEPT !.list = list] = new
    <3> HIDE DEF list
    <3> QED BY <1>4
  <2> QED BY <1>1, <2>1
<1>8. /\ list \in [1 .. MaxSongs -> Songs \cup {None}]
      /\ \A i \in 1 .. project.count : list[i] = project.list[order[i]] /\ order[i] \in 1 .. project.count
      /\ \A i \in 1 .. MaxSongs : i > project.count => list[i] = project.list[i]
  <2>1. DOMAIN order = 1 .. project.count
        /\ \A i \in 1 .. project.count : order[i] \in 1 .. project.count
    BY <1>1
  <2>2. \A i \in 1 .. MaxSongs :
          list[i] = IF i \in 1 .. project.count THEN project.list[order[i]] ELSE project.list[i]
    BY <2>1
  <2>3. \A i \in 1 .. MaxSongs : list[i] \in Songs \cup {None}
    BY <1>4, <2>1, <2>2
  <2>4. list \in [1 .. MaxSongs -> Songs \cup {None}]
    BY <2>3
  <2> HIDE DEF list
  <2> QED BY <1>4, <2>1, <2>2, <2>4
<1> HIDE DEF list
<1>9. new \in ProjectContent /\ new.list = list /\ new.count = project.count
  BY <1>4, <1>8 DEF ProjectContent, SongList
<1> HIDE DEF new
<1>10. CountedAreThere(new)
  BY <1>4, <1>8, <1>9 DEF CountedAreThere
<1>11. ASSUME NEW i \in 1 .. MaxSongs, new.list[i] # None
       PROVE  i <= new.count /\ \E k \in 1 .. MaxSongs : new.list[i] = home[arg.project].list[k]
  BY <1>4, <1>5, <1>8, <1>9, <1>11 DEF project
<1>12. \A i, j \in 1 .. MaxSongs : new.list[i] # None /\ new.list[i] = new.list[j] => i = j
  <2> SUFFICES ASSUME NEW i \in 1 .. MaxSongs, NEW j \in 1 .. MaxSongs,
                      new.list[i] # None, new.list[i] = new.list[j]
               PROVE  i = j
    OBVIOUS
  <2>1. i \in 1 .. project.count /\ j \in 1 .. project.count
    BY <1>4, <1>9, <1>11
  <2>2. order[i] = order[j]
    BY <1>4, <1>6, <1>8, <1>9, <2>1
  <2> QED BY <1>1, <2>1, <2>2
<1> QED BY <1>3, <1>7, <1>9, <1>10, <1>11, <1>12, SongsMoved

LEMMA SaveLastSongKeeps == CatInv /\ SaveLastSong => CatInv'
<1> SUFFICES ASSUME CatInv, SaveLastSong PROVE CatInv'
  OBVIOUS
<1> DEFINE new == [list |-> project.list, count |-> project.count, last |-> project.list[arg.id]]
<1>1. /\ Write("lastsong", arg.project, [project EXCEPT !.last = project.list[arg.id]])
      /\ Doing("lastsong")
  BY DEF SaveLastSong, Write
<1>2. /\ HasStep("lastsong") /\ ListsOK(home) /\ todo' = Tail(todo) /\ running
      /\ \A s : HasStep(s)' => s \in After("lastsong")
      /\ \A s : HasStep(s) => s = "lastsong" \/ HasStep(s)'
  BY <1>1, DoingFacts DEF Write, Doing
<1>3. arg.project \in ProjectsOf(home) /\ arg.id \in 1 .. MaxSongs
  BY <1>2 DEF CatInv, ArgFits
<1>4. /\ project.list \in [1 .. MaxSongs -> Songs \cup {None}]
      /\ project.count \in 0 .. MaxSongs
      /\ project = [list |-> project.list, count |-> project.count, last |-> project.last]
      /\ \A i \in 1 .. project.count : project.list[i] # None
  BY <1>2, <1>3, ProjectFacts DEF project
<1>5. \A i \in 1 .. MaxSongs : project.list[i] # None => i <= project.count
  <2>1. ~HasStep("count")
    <3> HIDE DEF HasStep
    <3> QED BY <1>2 DEF After
  <2> QED BY <1>2, <1>3, <2>1, AllCounted DEF NoneUncounted, project
<1>6. \A i, j \in 1 .. MaxSongs :
        project.list[i] # None /\ project.list[i] = project.list[j] => i = j
  BY <1>2, <1>3 DEF ListsOK, SongsDistinct, project
<1>7. [project EXCEPT !.last = project.list[arg.id]] = new
  BY <1>4
<1>8. /\ new \in ProjectContent /\ new.list = project.list /\ new.count = project.count
      /\ Write("lastsong", arg.project, new)
  BY <1>1, <1>3, <1>4, <1>7 DEF ProjectContent, SongList
<1> HIDE DEF new
<1>9. CountedAreThere(new)
  BY <1>4, <1>8 DEF CountedAreThere
<1>10. \A i, j \in 1 .. MaxSongs : new.list[i] # None /\ new.list[i] = new.list[j] => i = j
  BY <1>6, <1>8
<1>11. ASSUME NEW i \in 1 .. MaxSongs, new.list[i] # None
       PROVE  i <= new.count /\ \E k \in 1 .. MaxSongs : new.list[i] = home[arg.project].list[k]
  BY <1>5, <1>8, <1>11 DEF project
<1> QED BY <1>3, <1>8, <1>9, <1>10, <1>11, SongsMoved

\* createproject fills the sector of a project that is not listed.
LEMMA WriteProjectKeeps == CatInv /\ WriteProject => CatInv'
<1> SUFFICES ASSUME CatInv, WriteProject PROVE CatInv'
  OBVIOUS
<1> DEFINE p == arg.project
<1>1. /\ Write("project", p, NewProject) /\ Doing("project") /\ todo' = Tail(todo) /\ arg' = arg
      /\ home' = [home EXCEPT ![p] = NewProject]
  BY DEF WriteProject, Write
<1>2. /\ HasStep("project") /\ ListsOK(home) /\ running /\ UncountedIsNew
      /\ \A s : HasStep(s)' => HasStep(s) /\ s \in After("project")
      /\ \A s : HasStep(s) => s = "project" \/ HasStep(s)'
  BY <1>1, DoingFacts DEF Doing
<1>3. NewProjectFits
  BY <1>2 DEF CatInv, ArgFits
<1>4. p \in ProjectBlocks /\ p \notin ProjectsOf(home)
  BY <1>3 DEF NewProjectFits
<1>5. NewProject \in ProjectContent
  BY BlockFacts DEF NewProject, ProjectContent, EmptyList, SongList
<1>6. ListsOK([home EXCEPT ![p] = NewProject])
      /\ ProjectsOf([home EXCEPT ![p] = NewProject]) = ProjectsOf(home)
  <2> HIDE DEF p
  <2> QED BY <1>2, <1>4, <1>5, ProjectWritten
<1>7. ListsOK(home)' /\ ProjectsOf(home)' = ProjectsOf(home)
  BY <1>1, <1>6
<1>8. /\ home'[p] = NewProject /\ home'[DriveInfo] = home[DriveInfo]
      /\ \A q \in ProjectsOf(home) : home'[q] = home[q]
  <2>1. DOMAIN home = Blocks /\ p \in Blocks /\ p # DriveInfo
    BY <1>2, <1>4, BlockFacts DEF ListsOK, ListTypes
  <2> HIDE DEF p
  <2> QED BY <1>1, <1>4, <2>1
<1>9. UncountedIsNew'
  <2>1. HasStep("count") => HasStep("count")'
    BY <1>2
  <2> HIDE DEF HasStep
  <2> QED BY <1>1, <1>2, <1>7, <1>8, <2>1 DEF UncountedIsNew
<1>10. ArgFits'
  <2>1. NewProjectFits'
    BY <1>1, <1>3, <1>7, <1>8 DEF NewProjectFits
  <2> HIDE DEF HasStep
  <2> QED BY <1>1, <1>2, <1>8, <2>1 DEF ArgFits, After
<1>11. p \in ListBlocks
  BY <1>4 DEF ListBlocks
<1> QED BY <1>1, <1>7, <1>9, <1>10, <1>11, ListWritten DEF ListWriters

\* The list of projects is written.
LEMMA ProjectsWritten ==
  ASSUME CatInv, NEW step \in {"addproject", "dropproject", "lastproject"},
         NEW new \in InfoContent, Write(step, DriveInfo, new), InfoPacked(new),
         NewOnesEmpty(home, new)
  PROVE  CatInv'
<1>1. /\ Doing(step) /\ todo' = Tail(todo) /\ arg' = arg
      /\ home' = [home EXCEPT ![DriveInfo] = new]
  BY DEF Write
<1>2. /\ HasStep(step) /\ ListsOK(home) /\ running
      /\ \A s : HasStep(s)' => s \in After(step)
      /\ \A s : HasStep(s) => s = step \/ HasStep(s)'
  BY <1>1, DoingFacts DEF Doing
<1>3. ~HasStep("count")
  <2> HIDE DEF HasStep
  <2> QED BY <1>2 DEF After
<1>4. NoneUncounted(home)
  BY <1>2, <1>3, AllCounted
<1>5. /\ ListsOK(home)'
      /\ \A p : p \in ProjectsOf(home)' <=> p # None /\ \E i \in 1 .. MaxProjects : new.list[i] = p
  <2>1. /\ ListsOK([home EXCEPT ![DriveInfo] = new])
        /\ \A p : p \in ProjectsOf([home EXCEPT ![DriveInfo] = new]) <=>
             p # None /\ \E i \in 1 .. MaxProjects : new.list[i] = p
    BY <1>2, InfoWritten
  <2> QED BY <1>1, <2>1
<1>6. \A p \in ProjectsOf(home)' : p \in ProjectBlocks
  <2>1. ASSUME NEW i \in 1 .. MaxProjects
        PROVE  new.list[i] \in ProjectBlocks \cup {None}
    BY DEF InfoContent
  <2> QED BY <1>5, <2>1
<1>7. \A p \in ProjectBlocks : home'[p] = home[p]
  BY <1>1, <1>2, BlockFacts DEF ListsOK, ListTypes
<1>8. UncountedIsNew'
  <2> SUFFICES ASSUME NEW p \in ProjectsOf(home)', NEW i \in 1 .. MaxSongs,
                      home'[p].list[i] # None
               PROVE  i <= home'[p].count /\ home'[p].count \in Nat
    BY DEF UncountedIsNew
  <2>1. home'[p] = home[p] /\ p \in ProjectBlocks
    BY <1>6, <1>7
  <2>2. CASE p \in ProjectsOf(home)
    <3>1. home[p].count \in 0 .. MaxSongs
      BY <1>2, <2>2, ProjectFacts
    <3> QED BY <1>4, <2>1, <2>2, <3>1 DEF NoneUncounted
  <2>3. CASE p \notin ProjectsOf(home)
    <3>1. home[p] = NewProject
      BY <1>5, <2>3 DEF NewOnesEmpty
    <3> QED BY <2>1, <3>1 DEF NewProject, EmptyList
  <2> QED BY <2>2, <2>3
<1>9. ArgFits'
  <2> HIDE DEF HasStep
  <2> QED BY <1>2 DEF ArgFits, After
<1>10. step \in ListWriters /\ DriveInfo \in ListBlocks
  BY DEF ListWriters, ListBlocks
<1> QED BY <1>5, <1>8, <1>9, <1>10, ListWritten

LEMMA InfoFacts ==
  ASSUME ListsOK(home)
  PROVE  /\ home[DriveInfo].list \in [1 .. MaxProjects -> ProjectBlocks \cup {None}]
         /\ home[DriveInfo].count \in 0 .. MaxProjects
         /\ home[DriveInfo].last \in ProjectBlocks \cup {None}
         /\ home[DriveInfo] = [list |-> home[DriveInfo].list, count |-> home[DriveInfo].count,
                               last |-> home[DriveInfo].last]
         /\ \A i \in 1 .. MaxProjects :
              home[DriveInfo].list[i] # None <=> i <= home[DriveInfo].count
         /\ \A i, j \in 1 .. MaxProjects :
              /\ home[DriveInfo].list[i] # None
              /\ home[DriveInfo].list[i] = home[DriveInfo].list[j]
              => i = j
         /\ \A i \in 1 .. MaxProjects : home[DriveInfo].list[i] # None
              => home[DriveInfo].list[i] \in ProjectsOf(home)
BY ProjectsFacts DEF ListsOK, ListTypes, InfoContent, InfoPacked

LEMMA AddProjectKeeps == CatInv /\ AddProject => CatInv'
<1> SUFFICES ASSUME CatInv, AddProject PROVE CatInv'
  OBVIOUS
<1> DEFINE info == home[DriveInfo]
           list == [info.list EXCEPT ![arg.id] = arg.project]
           new == [list |-> list, count |-> info.count + 1, last |-> arg.project]
<1>1. Write("addproject", DriveInfo, new) /\ Doing("addproject") /\ todo' = Tail(todo)
  BY DEF AddProject, Write
<1>2. /\ HasStep("addproject") /\ ListsOK(home)
      /\ \A s : HasStep(s)' => s \in After("addproject")
      /\ \A s : HasStep(s) => s = "addproject" \/ HasStep(s)'
  BY <1>1, DoingFacts
<1>3. ~HasStep("project")
  <2> HIDE DEF HasStep
  <2> QED BY <1>2 DEF After
<1>4. /\ arg.project \in ProjectBlocks /\ arg.project \notin ProjectsOf(home)
      /\ arg.id = info.count + 1 /\ arg.id <= MaxProjects /\ home[arg.project] = NewProject
  BY <1>2, <1>3 DEF CatInv, ArgFits, NewProjectFits
<1>5. /\ info.list \in [1 .. MaxProjects -> ProjectBlocks \cup {None}]
      /\ info.count \in 0 .. MaxProjects
      /\ \A i \in 1 .. MaxProjects : info.list[i] # None <=> i <= info.count
      /\ \A i, j \in 1 .. MaxProjects : info.list[i] # None /\ info.list[i] = info.list[j] => i = j
      /\ \A i \in 1 .. MaxProjects : info.list[i] # None => info.list[i] \in ProjectsOf(home)
  BY <1>2, InfoFacts
<1> HIDE DEF info
<1>6. arg.id \in 1 .. MaxProjects /\ arg.project # None
  BY <1>4, <1>5, BlockFacts
<1>7. /\ list \in [1 .. MaxProjects -> ProjectBlocks \cup {None}]
      /\ \A i \in 1 .. MaxProjects : list[i] = IF i = arg.id THEN arg.project ELSE info.list[i]
  BY <1>4, <1>5, <1>6
<1> HIDE DEF list
<1>8. new \in InfoContent /\ new.list = list /\ new.count = info.count + 1
  BY <1>4, <1>5, <1>6, <1>7 DEF InfoContent
<1> HIDE DEF new
<1>9. InfoPacked(new)
  <2>1. \A i \in 1 .. MaxProjects : new.list[i] # None <=> i <= new.count
    BY <1>4, <1>5, <1>6, <1>7, <1>8
  <2>2. \A i, j \in 1 .. MaxProjects : new.list[i] # None /\ new.list[i] = new.list[j] => i = j
    BY <1>4, <1>5, <1>6, <1>7, <1>8
  <2> QED BY <2>1, <2>2 DEF InfoPacked
<1>10. NewOnesEmpty(home, new)
  BY <1>4, <1>5, <1>7, <1>8 DEF NewOnesEmpty
<1> QED BY <1>1, <1>8, <1>9, <1>10, ProjectsWritten

LEMMA DropProjectKeeps == CatInv /\ DropProject => CatInv'
<1> SUFFICES ASSUME CatInv, DropProject PROVE CatInv'
  OBVIOUS
<1> DEFINE info == home[DriveInfo]
           projid == CHOOSE i \in 1 .. MaxProjects : info.list[i] = arg.project
           list == Without(info.list, projid)
           new == [list |-> list, count |-> info.count - 1, last |-> list[1]]
<1>1. Write("dropproject", DriveInfo, new) /\ Doing("dropproject")
  BY DEF DropProject, Write
<1>2. HasStep("dropproject") /\ ListsOK(home)
  BY <1>1, DoingFacts
<1>3. arg.project \in ProjectsOf(home)
  BY <1>2 DEF CatInv, ArgFits
<1>4. /\ info.list \in [1 .. MaxProjects -> ProjectBlocks \cup {None}]
      /\ info.count \in 0 .. MaxProjects
      /\ \A i \in 1 .. MaxProjects : info.list[i] # None <=> i <= info.count
      /\ \A i, j \in 1 .. MaxProjects : info.list[i] # None /\ info.list[i] = info.list[j] => i = j
      /\ \A i \in 1 .. MaxProjects : info.list[i] # None => info.list[i] \in ProjectsOf(home)
  BY <1>2, InfoFacts
<1>5. \E i \in 1 .. MaxProjects : arg.project # None /\ info.list[i] = arg.project
  BY <1>2, <1>3, ProjectsFacts
<1>6. projid \in 1 .. MaxProjects /\ info.list[projid] # None
  BY <1>5
<1> HIDE DEF info, projid
<1>7. projid <= info.count /\ info.count \in 1 .. MaxProjects
  BY <1>4, <1>6, BlockFacts
<1>8. /\ DOMAIN list = 1 .. MaxProjects
      /\ \A i \in 1 .. MaxProjects :
           \/ i < projid /\ list[i] = info.list[i]
           \/ projid <= i /\ i + 1 \in 1 .. MaxProjects /\ list[i] = info.list[i + 1]
           \/ i = MaxProjects /\ list[i] = None
  BY <1>4, <1>6, BlockFacts DEF Without
<1>9. list \in [1 .. MaxProjects -> ProjectBlocks \cup {None}]
  <2> HIDE DEF list
  <2>1. \A i \in 1 .. MaxProjects : list[i] \in ProjectBlocks \cup {None}
    BY <1>4, <1>8
  <2>2. list = [i \in 1 .. MaxProjects |-> list[i]]
    BY <1>8 DEF list, Without
  <2> QED BY <2>1, <2>2
<1> HIDE DEF list
<1>10. new \in InfoContent /\ new.list = list /\ new.count = info.count - 1
  BY <1>7, <1>9, BlockFacts DEF InfoContent
<1> HIDE DEF new
<1>11. ASSUME NEW i \in 1 .. MaxProjects
       PROVE  new.list[i] # None <=> i <= new.count
  <2>1. CASE i < projid /\ list[i] = info.list[i]
    <3>1. i <= info.count /\ i <= info.count - 1
      BY <1>4, <1>6, <1>7, <2>1, BlockFacts
    <3> QED BY <1>4, <1>10, <2>1, <3>1
  <2>2. CASE projid <= i /\ i + 1 \in 1 .. MaxProjects /\ list[i] = info.list[i + 1]
    <3>1. list[i] # None <=> i + 1 <= info.count
      BY <1>4, <2>2
    <3> QED BY <1>4, <1>10, <3>1
  <2>3. CASE i = MaxProjects /\ list[i] = None
    BY <1>7, <1>10, <2>3, BlockFacts
  <2> QED BY <1>8, <2>1, <2>2, <2>3
<1>12. \A i, j \in 1 .. MaxProjects : new.list[i] # None /\ new.list[i] = new.list[j] => i = j
  BY <1>4, <1>6, <1>8, <1>10
<1>13. NewOnesEmpty(home, new)
  BY <1>4, <1>8, <1>10 DEF NewOnesEmpty
<1>14. InfoPacked(new)
  BY <1>11, <1>12 DEF InfoPacked
<1> QED BY <1>1, <1>10, <1>13, <1>14, ProjectsWritten

LEMMA SaveLastProjectKeeps == CatInv /\ SaveLastProject => CatInv'
<1> SUFFICES ASSUME CatInv, SaveLastProject PROVE CatInv'
  OBVIOUS
<1> DEFINE info == home[DriveInfo]
           new == [list |-> info.list, count |-> info.count, last |-> arg.project]
<1>1. Write("lastproject", DriveInfo, [info EXCEPT !.last = arg.project]) /\ Doing("lastproject")
  BY DEF SaveLastProject, Write
<1>2. HasStep("lastproject") /\ ListsOK(home)
  BY <1>1, DoingFacts
<1>3. arg.project \in ProjectBlocks
  BY <1>2 DEF CatInv, ArgFits
<1>4. /\ info.list \in [1 .. MaxProjects -> ProjectBlocks \cup {None}]
      /\ info.count \in 0 .. MaxProjects
      /\ info = [list |-> info.list, count |-> info.count, last |-> info.last]
      /\ \A i \in 1 .. MaxProjects : info.list[i] # None => info.list[i] \in ProjectsOf(home)
  BY <1>2, InfoFacts
<1>5. InfoPacked(info)
  BY <1>2 DEF ListsOK
<1> HIDE DEF info
<1>6. [info EXCEPT !.last = arg.project] = new
  BY <1>4
<1>7. new \in InfoContent /\ new.list = info.list /\ new.count = info.count
  BY <1>3, <1>4 DEF InfoContent
<1>8. Write("lastproject", DriveInfo, new)
  BY <1>1, <1>6
<1> HIDE DEF new
<1>9. InfoPacked(new)
  BY <1>5, <1>7 DEF InfoPacked
<1>10. NewOnesEmpty(home, new)
  BY <1>4, <1>7 DEF NewOnesEmpty
<1> QED BY <1>7, <1>8, <1>9, <1>10, ProjectsWritten

------------------------------------------------------------------------------
(* The other steps. *)

LEMMA OtherWritten ==
  ASSUME CatInv, NEW step \in {"record", "usage", "songs", "unmark", "grow", "mark"},
         NEW b \in {SongUsage, Superblock, DriveUsage, arg.song}, NEW content,
         Write(step, b, content)
  PROVE  CatInv'
<1>1. /\ running /\ todo # <<>> /\ Head(todo) = step /\ todo' = Tail(todo)
      /\ home' = [home EXCEPT ![b] = content] /\ UNCHANGED <<backup, arg, running>>
  BY DEF Write, Doing
<1>2. b \notin ListBlocks
  <2>1. arg.song \in Songs \cup {None}
    BY DEF CatInv, ArgContent
  <2> QED BY <2>1, BlockFacts
<1>3. DOMAIN home' = Blocks /\ \A c \in ListBlocks : home'[c] = home[c]
  BY <1>1, <1>2, BlockFacts DEF CatInv, ListsOK, ListTypes
<1>4. Head(todo) # "commit" /\ Head(todo) \notin ListWriters
  BY <1>1 DEF ListWriters
<1>5. CopiesAgree'
  <2>1. InStep => InStep'
    BY <1>1, <1>3 DEF InStep
  <2> QED BY <1>1, <1>4, <2>1, GatesKept DEF CatInv, CopiesAgree
<1> QED BY <1>1, <1>3, <1>4, <1>5, ListsUntouched

LEMMA OtherKeeps ==
  ASSUME CatInv,
         \/ WriteRecord \/ RewriteSongUsage \/ CountSongs \/ Unmark \/ Grow \/ Mark
  PROVE  CatInv'
<1>1. CASE WriteRecord
  BY <1>1, OtherWritten DEF WriteRecord
<1>2. CASE RewriteSongUsage
  BY <1>2, OtherWritten DEF RewriteSongUsage
<1>3. CASE CountSongs
  BY <1>3, OtherWritten DEF CountSongs
<1>4. CASE Unmark
  BY <1>4, OtherWritten DEF Unmark
<1>5. CASE Grow
  BY <1>5, OtherWritten DEF Grow
<1>6. CASE Mark
  BY <1>6, OtherWritten DEF Mark
<1> QED BY <1>1, <1>2, <1>3, <1>4, <1>5, <1>6

\* deleteproject deletes another song.
LEMMA OneMoreSong ==
  ASSUME StepsFit(todo), todo # <<>>, Head(todo) = "allsongs", todo' = DeleteSongSteps \o todo
  PROVE  /\ StepsFit(todo)' /\ ~HasStep("count")
         /\ \A step : HasStep(step)' =>
              step \in {"unlist", "usage", "songs", "unmark", "commit", "allsongs", "dropproject"}
<1> DEFINE both == DeleteSongSteps \o todo
<1>1. /\ todo \in Seq(Steps) /\ Len(todo) \in Nat \ {0} /\ todo[1] = "allsongs"
  BY TailFits DEF StepsFit
<1>2. \A i \in 1 .. Len(todo) : todo[i] \in {"allsongs", "dropproject", "commit"}
  <2> SUFFICES ASSUME NEW i \in 1 .. Len(todo), i # 1
               PROVE  todo[i] \in {"allsongs", "dropproject", "commit"}
    BY <1>1
  <2>1. 1 \in 1 .. Len(todo) /\ 1 < i
    BY <1>1
  <2>2. todo[i] \in After("allsongs")
    BY <1>1, <2>1 DEF StepsFit
  <2> QED BY <2>2 DEF After
<1>3. /\ both \in Seq(Steps) /\ Len(both) = Len(todo) + 7
      /\ both[1] = "unlist" /\ both[2] = "commit" /\ both[3] = "usage" /\ both[4] = "songs"
      /\ both[5] = "unmark" /\ both[6] = "commit" /\ both[7] = "commit"
      /\ \A i \in 1 .. Len(todo) : both[i + 7] = todo[i]
  <2>1. DeleteSongSteps \in Seq(Steps)
    BY DEF DeleteSongSteps, Steps
  <2>2. both \in Seq(Steps)
    BY <1>1, <2>1
  <2>3. Len(both) = Len(todo) + 7 /\ \A i \in 1 .. Len(todo) : both[i + 7] = todo[i]
    BY <1>1 DEF DeleteSongSteps
  <2>4. /\ both[1] = "unlist" /\ both[2] = "commit" /\ both[3] = "usage" /\ both[4] = "songs"
        /\ both[5] = "unmark" /\ both[6] = "commit" /\ both[7] = "commit"
    BY <1>1 DEF DeleteSongSteps
  <2> QED BY <2>2, <2>3, <2>4
<1> HIDE DEF both
\* A place is one of the seven or one of those that were there.
<1>4. ASSUME NEW i \in 1 .. Len(both)
      PROVE  \/ i \in 1 .. 7
             \/ i > 7 /\ i - 7 \in 1 .. Len(todo) /\ both[i] = todo[i - 7]
  <2>1. CASE i > 7
    <3>1. i - 7 \in 1 .. Len(todo) /\ (i - 7) + 7 = i
      BY <1>1, <1>3, <2>1
    <3> QED BY <1>3, <2>1, <3>1
  <2> QED BY <2>1
<1>5. \A i \in 1 .. 7 : both[i] \in {"unlist", "usage", "songs", "unmark", "commit"}
                        /\ (i # 1 => both[i] # "unlist")
  BY <1>3
<1>6. \A i \in 1 .. Len(both) :
        both[i] \in {"unlist", "usage", "songs", "unmark", "commit", "allsongs", "dropproject"}
  BY <1>2, <1>4, <1>5
<1>7. ASSUME NEW i \in 1 .. Len(both), NEW j \in 1 .. Len(both), i < j
      PROVE  both[j] \in After(both[i])
  <2>1. CASE i \in 1 .. 7
    <3>1. both[j] \in {"usage", "songs", "unmark", "commit", "allsongs", "dropproject"}
      <4>1. j # 1
        BY <1>7, <2>1
      <4> QED BY <1>2, <1>4, <1>5, <4>1
    <3> QED BY <1>5, <2>1, <3>1 DEF After
  <2>2. CASE i > 7
    <3>1. j > 7 /\ i - 7 < j - 7
      BY <1>7, <2>2
    <3>2. /\ i - 7 \in 1 .. Len(todo) /\ both[i] = todo[i - 7]
          /\ j - 7 \in 1 .. Len(todo) /\ both[j] = todo[j - 7]
      BY <1>4, <2>2, <3>1
    <3> QED BY <3>1, <3>2 DEF StepsFit
  <2> QED BY <2>1, <2>2
<1>8. ASSUME NEW k \in 1 .. Len(both), NEW i \in 1 .. Len(both) + 1, k < i,
             both[k] \in ListWriters, Gate(both, i)
      PROVE  CommitIn(both, k, i)
  <2>1. i > 7
    <3> SUFFICES ASSUME i <= 7 PROVE FALSE
      BY <1>1, <1>3
    <3>1. i \in 1 .. 7 /\ i # 1 /\ i # Len(both) + 1
      BY <1>1, <1>3, <1>8
    <3>2. both[i] \in {"usage", "songs", "unmark", "commit"}
      BY <1>5, <3>1
    <3> QED BY <1>8, <3>1, <3>2 DEF Gate, ListWriters
  <2>2. CASE k \in 1 .. 7
    <3>1. k = 1
      BY <1>5, <1>8, <2>2 DEF ListWriters
    <3>2. 2 \in 1 .. Len(both) /\ both[2] = "commit" /\ 2 < i
      BY <1>1, <1>3, <2>1
    <3> QED BY <3>1, <3>2 DEF CommitIn
  <2>3. CASE k > 7
    <3>1. k - 7 \in 1 .. Len(todo) /\ both[k] = todo[k - 7]
      BY <1>4, <2>3
    <3>2. i - 7 \in 1 .. Len(todo) + 1 /\ k - 7 < i - 7
      BY <1>1, <1>3, <1>8, <2>1
    <3>3. Gate(todo, i - 7)
      <4>1. CASE i = Len(both) + 1
        BY <1>1, <1>3, <4>1 DEF Gate
      <4>2. CASE i \in 1 .. Len(both) /\ both[i] \in ListWriters \cup {"allsongs"}
        BY <1>4, <2>1, <4>2 DEF Gate
      <4> QED BY <1>8, <4>1, <4>2 DEF Gate
    <3>4. CommitIn(todo, k - 7, i - 7)
      BY <1>8, <3>1, <3>2, <3>3 DEF StepsFit
    <3>5. PICK j \in 1 .. Len(todo) : k - 7 < j /\ j < i - 7 /\ todo[j] = "commit"
      BY <3>4 DEF CommitIn
    <3>6. j + 7 \in 1 .. Len(both) /\ both[j + 7] = "commit" /\ k < j + 7 /\ j + 7 < i
      BY <1>1, <1>3, <3>5
    <3> QED BY <3>6 DEF CommitIn
  <2> QED BY <2>2, <2>3
<1>9. StepsFit(both)
  BY <1>3, <1>6, <1>7, <1>8 DEF StepsFit
<1>10. ~HasStep("count")
  BY <1>2 DEF HasStep
<1> QED BY <1>6, <1>9, <1>10 DEF both, HasStep

LEMMA DeleteSongsKeeps == CatInv /\ DeleteSongs => CatInv'
<1> SUFFICES ASSUME CatInv, DeleteSongs PROVE CatInv'
  OBVIOUS
<1>1. /\ Doing("allsongs") /\ running /\ todo # <<>> /\ Head(todo) = "allsongs"
      /\ UNCHANGED <<home, backup, running>>
  BY DEF DeleteSongs, Doing
<1>2. HasStep("allsongs") /\ UncountedIsNew /\ ListsOK(home) /\ arg \in ArgContent
  BY <1>1, DoingFacts
<1>3. InStep
  <2>1. Gate(todo, 1) /\ 1 \in 1 .. Len(todo) + 1 /\ ~CommitIn(todo, 0, 1)
    BY <1>1, TailFits DEF CatInv, Gate, CommitIn
  <2> QED BY <1>1, <2>1 DEF CatInv, CopiesAgree
<1>4. CopiesAgree'
  BY <1>1, <1>3 DEF CopiesAgree, InStep
<1>5. arg.project \in ProjectsOf(home)
  BY <1>2 DEF CatInv, ArgFits
<1>6. CASE project.count > 0 /\ todo' = DeleteSongSteps \o todo
           /\ arg' = [arg EXCEPT !.id = 1, !.song = project.list[1]]
  <2>1. /\ StepsFit(todo)' /\ ~HasStep("count")
        /\ \A step : HasStep(step)' =>
             step \in {"unlist", "usage", "songs", "unmark", "commit", "allsongs", "dropproject"}
    BY <1>1, <1>6, OneMoreSong DEF CatInv
  <2>2. /\ project.list \in [1 .. MaxSongs -> Songs \cup {None}]
        /\ project.count \in 0 .. MaxSongs
    BY <1>2, <1>5, ProjectFacts DEF project
  <2>3. arg' \in ArgContent /\ arg'.project = arg.project /\ arg'.id = 1
    <3>1. project.list[1] \in Songs \cup {None}
      BY <2>2, BlockFacts
    <3> HIDE DEF project
    <3> QED BY <1>2, <1>6, <3>1 DEF ArgContent
  <2>4. UncountedIsNew'
    <3> HIDE DEF HasStep
    <3> QED BY <1>1, <1>2, <2>1 DEF UncountedIsNew
  <2>5. 1 \in 1 .. home[arg.project].count
    BY <1>6, <2>2 DEF project
  <2>6. ArgFits'
    <3> HIDE DEF HasStep
    <3> QED BY <1>1, <1>5, <2>1, <2>3, <2>5 DEF ArgFits
  <2> QED BY <1>1, <1>4, <2>1, <2>3, <2>4, <2>6 DEF CatInv
<1>7. CASE todo' = Tail(todo) /\ UNCHANGED arg
  <2>1. Head(todo) \notin ListWriters /\ DOMAIN home' = Blocks
    BY <1>1, <1>2 DEF ListWriters, ListsOK, ListTypes
  <2> QED BY <1>1, <1>4, <1>7, <2>1, ListsUntouched
<1> QED BY <1>6, <1>7 DEF DeleteSongs

LEMMA CommitKeeps == CatInv /\ (CommitBlock \/ EndCommit) => CatInv'
<1> SUFFICES ASSUME CatInv, CommitBlock \/ EndCommit PROVE CatInv'
  OBVIOUS
<1>1. /\ Doing("commit") /\ running /\ todo # <<>> /\ Head(todo) = "commit"
      /\ UNCHANGED <<home, arg, running>> /\ ListsOK(home) /\ ListsOK(backup)
      /\ CopiesAgree /\ UncountedIsNew /\ ArgFits
  BY DEF CommitBlock, EndCommit, Doing, CatInv
<1>2. CASE CommitBlock
  <2>1. backup' = [backup EXCEPT ![NextBlock] = home[NextBlock]] /\ UNCHANGED <<home, todo, arg>>
    BY <1>2 DEF CommitBlock
  <2>2. NextBlock \in Blocks /\ home[NextBlock] # backup[NextBlock]
    <3>1. OutOfStep \in SUBSET Nat /\ OutOfStep # {}
      BY <1>2, BlockFacts DEF CommitBlock, OutOfStep
    <3>2. NextBlock \in OutOfStep
      BY <3>1, LeastIsLeast DEF NextBlock
    <3> QED BY <3>2 DEF OutOfStep
  <2> DEFINE b == NextBlock
  <2>3. /\ DOMAIN backup' = Blocks
        /\ \A c \in ListBlocks : backup'[c] = IF c = b THEN home[c] ELSE backup[c]
    <3>1. DOMAIN backup = Blocks
      BY <1>1 DEF ListsOK, ListTypes
    <3> HIDE DEF b
    <3> QED BY <2>1, <3>1, BlockFacts DEF b
  <2> HIDE DEF b
  <2>4. CASE b \in ListBlocks
    <3>1. \A c \in ListBlocks : c # b => home[c] = backup[c]
      BY <2>2, <2>4 DEF CatInv, b
    <3>2. \A c \in ListBlocks : backup'[c] = home[c]
      BY <2>3, <3>1
    <3>3. ListsOK(backup)'
      BY <1>1, <2>3, <3>2, SameLists
    <3>4. InStep'
      BY <2>1, <3>2 DEF InStep
    <3> QED BY <1>1, <2>1, <3>2, <3>3, <3>4
            DEF CatInv, CopiesAgree, UncountedIsNew, ArgFits, NewSongFits, NewProjectFits, HasStep
  <2>5. CASE b \notin ListBlocks
    <3>1. \A c \in ListBlocks : backup'[c] = backup[c]
      BY <2>3, <2>5
    <3>2. ListsOK(backup)'
      BY <1>1, <2>3, <3>1, SameLists
    <3>3. InStep => InStep'
      BY <2>1, <3>1 DEF InStep
    <3> QED BY <1>1, <2>1, <3>1, <3>2, <3>3
            DEF CatInv, CopiesAgree, UncountedIsNew, ArgFits, NewSongFits, NewProjectFits, HasStep
  <2> QED BY <2>4, <2>5
<1>3. CASE EndCommit
  <2>1. todo' = Tail(todo) /\ UNCHANGED <<home, backup, arg, running>>
    BY <1>3 DEF EndCommit
  <2>2. InStep'
    BY <1>3, <2>1, BlockFacts DEF EndCommit, OutOfStep, InStep
  <2>3. CopiesAgree'
    BY <2>2 DEF CopiesAgree
  <2>4. Head(todo) \notin ListWriters /\ DOMAIN home' = Blocks
    BY <1>1, <2>1 DEF ListWriters, ListsOK, ListTypes
  <2> QED BY <1>1, <2>1, <2>3, <2>4, ListsUntouched
<1> QED BY <1>2, <1>3

LEMMA StopKeeps == ASSUME ~StopInCreate, CatInv, Stop PROVE CatInv'
<1>1. /\ running' = FALSE /\ todo' = <<>> /\ arg' = NoArg /\ UNCHANGED <<home, backup>>
      /\ ~HalfListed(backup) /\ ListsOK(backup)
  BY DEF Stop, CatInv
<1>2. NoneUncounted(backup)
  <2> SUFFICES ASSUME NEW p \in ProjectsOf(backup), NEW i \in 1 .. MaxSongs,
                      backup[p].list[i] # None
               PROVE  i <= backup[p].count
    BY DEF NoneUncounted
  <2>1. /\ backup[p].list \in [1 .. MaxSongs -> Songs \cup {None}]
        /\ backup[p].count \in 0 .. MaxSongs
    <3>1. p \in ProjectBlocks
      BY <1>1, ProjectsFacts
    <3> QED BY <1>1, <3>1 DEF ListsOK, ListTypes, ProjectContent, SongList
  <2>2. backup[p].list[i] \in SongsOf(backup, p)
    BY <1>1, <2>1 DEF HalfListed, Values
  <2>3. PICK j \in 1 .. backup[p].count : backup[p].list[i] = backup[p].list[j]
    BY <2>2 DEF SongsOf
  <2>4. j \in 1 .. MaxSongs
    BY <2>1, BlockFacts
  <2>5. i = j
    BY <1>1, <2>3, <2>4 DEF ListsOK, SongsDistinct
  <2> QED BY <2>1, <2>5
<1>3. \A step : ~HasStep(step)'
  BY <1>1 DEF HasStep
<1>4. ArgFits'
  <2> HIDE DEF HasStep
  <2> QED BY <1>3 DEF ArgFits
<1>5. NoArg \in ArgContent
  BY DEF NoArg, ArgContent
<1> QED BY <1>1, <1>2, <1>4, <1>5, BeginningsFit DEF CatInv

LEMMA RepairKeeps == CatInv /\ Repair => CatInv'
<1> SUFFICES ASSUME CatInv, Repair PROVE CatInv'
  OBVIOUS
<1>1. /\ ~running /\ home' = backup /\ UNCHANGED <<backup, todo, arg, running>>
      /\ todo = <<>> /\ NoneUncounted(backup)
  BY DEF Repair, CatInv
<1>2. ArgFits'
  BY <1>1 DEF ArgFits, HasStep
<1> QED BY <1>1, <1>2 DEF CatInv

LEMMA OpenKeeps == ASSUME ~DirtyReopen, CatInv, Open PROVE CatInv'
<1>1. /\ OutOfStep = {} /\ todo = <<>> /\ NoneUncounted(backup) /\ running' = TRUE
      /\ UNCHANGED <<home, backup, todo, arg>> /\ ListsOK(home) /\ ListsOK(backup)
  BY DEF Open, CatInv
<1>2. InStep
  BY <1>1, BlockFacts DEF OutOfStep, InStep
<1>3. ProjectsOf(home) = ProjectsOf(backup) /\ ProjectsOf(home) \subseteq ProjectBlocks
  <2>1. DOMAIN home = Blocks
    BY <1>1 DEF ListsOK, ListTypes
  <2> QED BY <1>1, <1>2, <2>1, SameLists, ProjectsFacts DEF InStep
<1>4. CopiesAgree'
  BY <1>1, <1>2 DEF CopiesAgree, InStep
<1>5. UncountedIsNew'
  <2> SUFFICES ASSUME NEW p \in ProjectsOf(home), NEW i \in 1 .. MaxSongs,
                      home[p].list[i] # None
               PROVE  i <= home[p].count /\ home[p].count \in Nat
    BY <1>1 DEF UncountedIsNew
  <2>1. home[p] = backup[p]
    BY <1>2, <1>3 DEF InStep, ListBlocks
  <2>2. home[p].count \in 0 .. MaxSongs
    BY <1>1, ProjectFacts
  <2> QED BY <1>1, <1>3, <2>1, <2>2 DEF NoneUncounted
<1>6. ArgFits'
  BY <1>1 DEF ArgFits, HasStep
<1> QED BY <1>1, <1>4, <1>5, <1>6 DEF CatInv

LEMMA Unchanged == CatInv /\ UNCHANGED vars => CatInv'
BY DEF vars, CatInv, CopiesAgree, InStep, UncountedIsNew, ArgFits, NewSongFits,
       NewProjectFits, HasStep

LEMMA InitFits == Init => CatInv
<1> SUFFICES ASSUME Init PROVE CatInv
  OBVIOUS
<1> DEFINE list == [EmptyList(MaxProjects) EXCEPT ![1] = FirstProject]
           info == [list |-> list, count |-> 1, last |-> FirstProject]
<1>1. /\ DOMAIN home = Blocks /\ home[DriveInfo] = info
      /\ \A p \in ProjectBlocks : home[p] = NewProject
      /\ backup = home /\ todo = <<>> /\ arg = NoArg /\ running = TRUE
  <2>1. \A p \in ProjectBlocks : p \notin {Superblock, DriveInfo, SongUsage, DriveUsage} \cup Songs
    BY CatalogAssumption DEF ProjectBlocks, Songs, FirstSong, FirstProject, Superblock,
                             DriveInfo, SongUsage, DriveUsage
  <2>2. DriveInfo \notin {Superblock, SongUsage, DriveUsage} \cup Songs \cup ProjectBlocks
    BY CatalogAssumption DEF ProjectBlocks, Songs, FirstSong, FirstProject, Superblock,
                             DriveInfo, SongUsage, DriveUsage
  <2>3. /\ DOMAIN home = Blocks /\ backup = home /\ todo = <<>> /\ arg = NoArg
        /\ running = TRUE
    BY DEF Init
  <2>4. home[DriveInfo] = info
    BY <2>2, BlockFacts DEF Init
  <2>5. \A p \in ProjectBlocks : home[p] = NewProject
    BY <2>1, BlockFacts DEF Init
  <2> QED BY <2>3, <2>4, <2>5
<1>2. /\ list \in [1 .. MaxProjects -> ProjectBlocks \cup {None}]
      /\ \A i \in 1 .. MaxProjects : list[i] = IF i = 1 THEN FirstProject ELSE None
      /\ FirstProject \in ProjectBlocks /\ FirstProject # None
  <2>1. FirstProject \in ProjectBlocks /\ FirstProject # None
    BY BlockFacts DEF ProjectBlocks, FirstProject, None
  <2> QED BY <2>1, BlockFacts DEF EmptyList
<1> HIDE DEF list
<1>3. info \in InfoContent /\ InfoPacked(info)
  BY <1>2, BlockFacts DEF InfoContent, InfoPacked
<1>4. NewProject \in ProjectContent /\ NewProject.count = 0
      /\ \A i \in 1 .. MaxSongs : NewProject.list[i] = None
  BY BlockFacts DEF NewProject, ProjectContent, EmptyList, SongList
<1> HIDE DEF info
<1>5. ListTypes(home)
  BY <1>1, <1>3, <1>4 DEF ListTypes
<1>6. ProjectsOf(home) \subseteq ProjectBlocks
  <2>1. info.count \in 0 .. MaxProjects /\ info.list \in [1 .. MaxProjects -> ProjectBlocks \cup {None}]
    BY <1>3 DEF InfoContent
  <2> QED BY <1>1, <2>1, BlockFacts DEF ProjectsOf
<1>7. \A p \in ProjectsOf(home) : home[p] = NewProject
  BY <1>1, <1>6
<1>8. ListsOK(home)
  BY <1>1, <1>3, <1>4, <1>5, <1>7 DEF ListsOK, CountedAreThere, SongsDistinct
<1>9. UncountedIsNew /\ CopiesAgree
  BY <1>1, <1>4, <1>7 DEF UncountedIsNew, CopiesAgree, InStep
<1>10. ArgFits /\ arg \in ArgContent
  BY <1>1 DEF ArgFits, HasStep, NoArg, ArgContent
<1> QED BY <1>1, <1>8, <1>9, <1>10, BeginningsFit DEF CatInv

\* Whatever runs, and wherever a stop comes, the lists stay in order.
LEMMA ListsKept ==
  ASSUME ~StopInCreate, ~DirtyReopen, CatInv, [Next]_vars
  PROVE  CatInv'
<1>1. CASE Operate
  BY <1>1, CreateSongBegins, SongOpBegins, ProjectOpBegins DEF Operate
<1>2. CASE WriteRecord \/ RewriteSongUsage \/ CountSongs \/ Unmark \/ Grow \/ Mark
  BY <1>2, OtherKeeps
<1>3. CASE Enlist \/ CountSong \/ Unlist \/ Sort \/ SaveLastSong
  BY <1>3, EnlistKeeps, CountSongKeeps, UnlistKeeps, SortKeeps, SaveLastSongKeeps
<1>4. CASE WriteProject \/ AddProject \/ DeleteSongs \/ DropProject \/ SaveLastProject
  BY <1>4, WriteProjectKeeps, AddProjectKeeps, DeleteSongsKeeps, DropProjectKeeps,
     SaveLastProjectKeeps
<1>5. CASE CommitBlock \/ EndCommit
  BY <1>5, CommitKeeps
<1>6. CASE Stop \/ Repair \/ Open
  BY <1>6, StopKeeps, RepairKeeps, OpenKeeps
<1>7. CASE UNCHANGED vars
  BY <1>7, Unchanged
<1> QED BY <1>1, <1>2, <1>3, <1>4, <1>5, <1>6, <1>7 DEF Next

------------------------------------------------------------------------------
\* No song is in two places of the lists of the drive's projects (calcsongusage
\* and getunusedsongslot, createsong, deletesong, sort and the rest), wherever
\* the program is or stopped, if the recorder restores the drive after a stop
\* and no stop comes between the two saves of createsong.
THEOREM NoSongShared ==
  ASSUME ~StopInCreate, ~DirtyReopen
  PROVE  Spec => []NoSharedSong
<1>1. Init => CatInv
  BY InitFits
<1>2. CatInv /\ [Next]_vars => CatInv'
  BY ListsKept
<1>3. CatInv => NoSharedSong
  BY DEF CatInv, ListsOK, SongsDistinct, NoSharedSong
<1> QED BY <1>1, <1>2, <1>3, PTL DEF Spec

------------------------------------------------------------------------------
(* The clusters. *)

\* The last thing an operation does is a commit, and there is one right after
\* a song is listed or taken from the list.
Paired(steps) ==
  /\ steps # <<>> => steps[Len(steps)] = "commit"
  /\ \A i \in 1 .. Len(steps) : steps[i] \in {"enlist", "unlist"} =>
       i + 1 \in 1 .. Len(steps) /\ steps[i + 1] = "commit"

\* The tables, which say nothing about a song.
Tables == {Superblock, SongUsage, DriveUsage}

\* But for some blocks the copies agree, or a commit is about to see to it.
Settled(step, blocks) ==
  HasStep(step) \/ (todo # <<>> /\ Head(todo) = "commit") \/ OutOfStep \subseteq blocks

Settles ==
  /\ todo = <<>> => OutOfStep = {}
  /\ HasStep("count") => Settled("enlist", {})
  /\ HasStep("unmark") => Settled("unlist", Tables)

\* What a stop leaves if a commit has come to block k.
Mix(k) == [b \in Blocks |-> IF b < k THEN home[b] ELSE backup[b]]

\* The songs that are listed own their clusters.
SpaceOK(img) ==
  /\ \A s \in Listed(img) : img[s] \subseteq img[DriveUsage]
  /\ \A s, t \in Listed(img) : s # t => img[s] \cap img[t] = {}

\* The song last used is one of the project's.
LastListed(img) ==
  \A p \in ProjectsOf(img) :
    img[p].last = None \/ \E i \in 1 .. MaxSongs : img[p].list[i] = img[p].last

\* What is to be done can be done to the clusters of the song.
SongFits ==
  /\ HasStep("record") => HasStep("enlist")
  /\ HasStep("count") =>
       /\ ~HasStep("record") => home[arg.song] = {}
       /\ ~HasStep("enlist") => project.list[arg.id] = arg.song
  /\ HasStep("grow") => HasStep("mark") /\ OutOfStep = {}
  /\ HasStep("mark") =>
       /\ arg.song \in Songs /\ arg.space \cap home[DriveUsage] = {}
       /\ ~HasStep("grow") =>
            /\ OutOfStep \subseteq {arg.song}
            /\ home[arg.song] = backup[arg.song] \cup arg.space
  /\ HasStep("unlist") => arg.song = project.list[arg.id]
  /\ HasStep("unmark") /\ ~HasStep("unlist") =>
       /\ arg.song \in Songs \ Listed(home)
       /\ \A t \in Listed(home) : home[arg.song] \cap home[t] = {}

SpaceInv ==
  /\ Paired(todo)
  /\ running => Settles /\ (~HasStep("mark") => \A k \in Nat : SpaceOK(Mix(k)))
  /\ SpaceOK(backup)
  /\ LastListed(home) /\ LastListed(backup)
  /\ SongFits

LEMMA PairsKept ==
  ASSUME StepsFit(todo), Paired(todo), todo # <<>>, todo' = Tail(todo)
  PROVE  /\ Paired(todo)'
         /\ Head(todo) # "commit" => todo' # <<>>
         /\ Head(todo) \in {"enlist", "unlist"} => todo' # <<>> /\ Head(todo') = "commit"
<1>1. /\ todo' \in Seq(Steps) /\ Len(todo') = Len(todo) - 1 /\ Len(todo) \in Nat \ {0}
      /\ Head(todo) = todo[1] /\ \A i \in 1 .. Len(todo') : todo'[i] = todo[i + 1]
  BY TailFits DEF StepsFit
<1>2. todo' # <<>> => Len(todo') \in 1 .. Len(todo') /\ Head(todo') = todo'[1]
  BY <1>1
<1>3. todo' # <<>> => todo'[Len(todo')] = "commit"
  BY <1>1, <1>2 DEF Paired
<1>4. ASSUME NEW i \in 1 .. Len(todo'), todo'[i] \in {"enlist", "unlist"}
      PROVE  i + 1 \in 1 .. Len(todo') /\ todo'[i + 1] = "commit"
  <2>1. i + 1 \in 1 .. Len(todo) /\ todo[i + 1] = todo'[i]
    BY <1>1
  <2>2. i + 1 + 1 \in 1 .. Len(todo) /\ todo[i + 1 + 1] = "commit"
    BY <1>4, <2>1 DEF Paired
  <2>3. i + 1 \in 1 .. Len(todo')
    BY <1>1, <2>2
  <2> QED BY <1>1, <2>2, <2>3
<1>5. ASSUME Head(todo) # "commit"
      PROVE  todo' # <<>>
  <2>1. Len(todo) # 1
    BY <1>1, <1>5 DEF Paired
  <2>2. Len(todo') # 0 /\ Len(<<>>) = 0
    BY <1>1, <2>1
  <2> QED BY <2>2
<1>6. ASSUME Head(todo) \in {"enlist", "unlist"}
      PROVE  todo' # <<>> /\ Head(todo') = "commit"
  <2>1. todo' # <<>> /\ 1 \in 1 .. Len(todo')
    BY <1>1, <1>2, <1>5, <1>6
  <2>2. todo[1 + 1] = "commit"
    BY <1>1, <1>6 DEF Paired
  <2> QED BY <1>1, <1>2, <2>1, <2>2
<1> QED BY <1>3, <1>4, <1>5, <1>6 DEF Paired

LEMMA BeginningsPaired ==
  /\ Paired(<<>>) /\ Paired(CreateSongSteps(TRUE)) /\ Paired(DeleteSongSteps)
  /\ Paired(LengthenSteps) /\ Paired(CreateProjectSteps) /\ Paired(DeleteProjectSteps)
  /\ Paired(<<"lastsong", "commit">>) /\ Paired(<<"sort", "commit">>)
  /\ Paired(<<"lastproject", "commit">>)
  /\ \E i \in 1 .. Len(CreateSongSteps(TRUE)) : CreateSongSteps(TRUE)[i] = "enlist"
  /\ \E i \in 1 .. Len(LengthenSteps) : LengthenSteps[i] = "mark"
<1>1. Paired(CreateSongSteps(TRUE))
      /\ 2 \in 1 .. Len(CreateSongSteps(TRUE)) /\ CreateSongSteps(TRUE)[2] = "enlist"
  BY DEF CreateSongSteps, Paired
<1>2. Paired(LengthenSteps) /\ 2 \in 1 .. Len(LengthenSteps) /\ LengthenSteps[2] = "mark"
  BY DEF LengthenSteps, Paired
<1>3. Paired(DeleteSongSteps) /\ Paired(CreateProjectSteps) /\ Paired(DeleteProjectSteps)
  BY DEF DeleteSongSteps, CreateProjectSteps, DeleteProjectSteps, Paired
<1>4. /\ Paired(<<"lastsong", "commit">>) /\ Paired(<<"sort", "commit">>)
      /\ Paired(<<"lastproject", "commit">>) /\ Paired(<<>>)
  BY DEF Paired
<1> QED BY <1>1, <1>2, <1>3, <1>4

LEMMA MoreSongsPaired ==
  ASSUME StepsFit(todo), Paired(todo), todo # <<>>, todo' = DeleteSongSteps \o todo
  PROVE  Paired(todo)'
<1> DEFINE both == DeleteSongSteps \o todo
<1>1. todo \in Seq(Steps) /\ Len(todo) \in Nat \ {0}
  BY TailFits DEF StepsFit
<1>2. /\ Len(both) = Len(todo) + 7 /\ both # <<>>
      /\ both[1] = "unlist" /\ both[2] = "commit" /\ both[3] = "usage" /\ both[4] = "songs"
      /\ both[5] = "unmark" /\ both[6] = "commit" /\ both[7] = "commit"
      /\ \A i \in 1 .. Len(todo) : both[i + 7] = todo[i]
  BY <1>1 DEF DeleteSongSteps
<1> HIDE DEF both
<1>3. both[Len(both)] = "commit"
  BY <1>1, <1>2 DEF Paired
<1>4. ASSUME NEW i \in 1 .. Len(both), both[i] \in {"enlist", "unlist"}
      PROVE  i + 1 \in 1 .. Len(both) /\ both[i + 1] = "commit"
  <2>1. CASE i \in 1 .. 7
    BY <1>1, <1>2, <1>4, <2>1
  <2>2. CASE i > 7
    <3>1. i - 7 \in 1 .. Len(todo) /\ (i - 7) + 7 = i
      BY <1>1, <1>2, <2>2
    <3>2. i - 7 + 1 \in 1 .. Len(todo) /\ todo[i - 7 + 1] = "commit"
      BY <1>2, <1>4, <3>1 DEF Paired
    <3>3. (i - 7 + 1) + 7 = i + 1 /\ i + 1 \in 1 .. Len(both)
      BY <1>1, <1>2, <3>1, <3>2
    <3> QED BY <1>2, <3>2, <3>3
  <2> QED BY <2>1, <2>2
<1> QED BY <1>2, <1>3, <1>4 DEF Paired, both

\* Neither is to be done once another step has begun.
LEMMA NothingGrows ==
  ASSUME CatInv, NEW step, Doing(step), step \notin {"grow", "mark"}
  PROVE  ~HasStep("mark") /\ ~HasStep("grow")
<1>1. todo # <<>> /\ Head(todo) = todo[1] /\ todo[1] = step /\ Len(todo) \in Nat \ {0}
  BY TailFits DEF CatInv, Doing
<1>2. ASSUME NEW i \in 1 .. Len(todo), todo[i] \in {"mark", "grow"}
      PROVE  FALSE
  <2>1. i # 1 /\ 1 < i /\ 1 \in 1 .. Len(todo)
    BY <1>1, <1>2
  <2>2. todo[i] \in After(step)
    BY <1>1, <2>1 DEF CatInv, StepsFit
  <2> QED BY <1>2, <2>2 DEF After
<1> QED BY <1>2 DEF HasStep

\* What was to be settled stays so while other blocks are written.
LEMMA SettlesKept ==
  ASSUME CatInv, Paired(todo), Settles, SongFits, NEW step \in Steps \ {"commit", "allsongs"},
         NEW b, NEW content, Write(step, b, content),
         step \in {"usage", "songs", "unmark"} => b \in Tables
  PROVE  Paired(todo)' /\ Settles'
<1>1. /\ todo # <<>> /\ Head(todo) = step /\ todo' = Tail(todo) /\ Doing(step)
      /\ home' = [home EXCEPT ![b] = content] /\ UNCHANGED <<backup, arg>>
      /\ StepsFit(todo) /\ DOMAIN home = Blocks
  BY DEF Write, Doing, CatInv, ListsOK, ListTypes
<1>2. /\ \A s : HasStep(s)' => HasStep(s) /\ s \in After(step)
      /\ \A s : HasStep(s) => s = step \/ HasStep(s)'
  BY <1>1, DoingFacts
<1>3. /\ Paired(todo)' /\ todo' # <<>>
      /\ step \in {"enlist", "unlist"} => Head(todo') = "commit"
  BY <1>1, PairsKept
<1>4. OutOfStep' \subseteq OutOfStep \cup {b}
  BY <1>1 DEF OutOfStep
<1>5. ASSUME HasStep("count")'
      PROVE  Settled("enlist", {})'
  <2>1. step \in {"record", "enlist"}
    <3> HIDE DEF HasStep
    <3> QED BY <1>2, <1>5 DEF After
  <2>2. CASE step = "record"
    <3>1. HasStep("enlist")
      BY <1>2, <2>2, <1>1, DoingFacts DEF SongFits
    <3>2. HasStep("enlist")'
      <4> HIDE DEF HasStep
      <4> QED BY <1>2, <2>2, <3>1
    <3> QED BY <3>2 DEF Settled
  <2>3. CASE step = "enlist"
    BY <1>3, <2>3 DEF Settled
  <2> QED BY <2>1, <2>2, <2>3
<1>6. ASSUME HasStep("unmark")'
      PROVE  Settled("unlist", Tables)'
  <2>1. step \in {"unlist", "usage", "songs", "unmark"}
    <3> HIDE DEF HasStep
    <3> QED BY <1>2, <1>6 DEF After
  <2>2. CASE step = "unlist"
    BY <1>3, <2>2 DEF Settled
  <2>3. CASE step # "unlist"
    <3>1. Settled("unlist", Tables)
      <4>1. HasStep("unmark")
        BY <1>2, <1>6
      <4> QED BY <4>1 DEF Settles
    <3>2. HasStep("unlist") => HasStep("unlist")'
      <4> HIDE DEF HasStep
      <4> QED BY <1>2, <2>3
    <3>3. OutOfStep \subseteq Tables => OutOfStep' \subseteq Tables
      BY <1>4, <2>1, <2>3
    <3> HIDE DEF HasStep
    <3> QED BY <1>1, <2>1, <3>1, <3>2, <3>3 DEF Settled
  <2> QED BY <2>2, <2>3
<1> QED BY <1>3, <1>5, <1>6 DEF Settles

------------------------------------------------------------------------------
(* What a stop leaves. *)

LEMMA ListedSame ==
  ASSUME NEW img, NEW other, ListsOK(img), \A b \in ListBlocks : other[b] = img[b]
  PROVE  Listed(other) = Listed(img) /\ (LastListed(img) => LastListed(other))
<1>1. other[DriveInfo] = img[DriveInfo] /\ \A p \in ProjectBlocks : other[p] = img[p]
  BY DEF ListBlocks
<1>2. ProjectsOf(other) = ProjectsOf(img) /\ ProjectsOf(img) \subseteq ProjectBlocks
  BY <1>1, ProjectsFacts DEF ProjectsOf
<1>3. \A p \in ProjectsOf(img) : SongsOf(other, p) = SongsOf(img, p)
  BY <1>1, <1>2 DEF SongsOf
<1> QED BY <1>1, <1>2, <1>3 DEF Listed, LastListed

LEMMA ListedAre ==
  ASSUME NEW img, ListsOK(img)
  PROVE  /\ Listed(img) \subseteq Songs
         /\ \A s : s \in Listed(img) <=>
              /\ s # None
              /\ \E p \in ProjectsOf(img) : \E i \in 1 .. MaxSongs :
                   i <= img[p].count /\ img[p].list[i] = s
<1>1. ASSUME NEW p \in ProjectsOf(img)
      PROVE  img[p].list \in [1 .. MaxSongs -> Songs \cup {None}] /\ img[p].count \in 0 .. MaxSongs
  BY ProjectsFacts DEF ListsOK, ListTypes, ProjectContent, SongList
<1>2. ASSUME NEW p \in ProjectsOf(img), NEW s
      PROVE  s \in SongsOf(img, p) <=>
               s # None /\ \E i \in 1 .. MaxSongs : i <= img[p].count /\ img[p].list[i] = s
  BY <1>1, BlockFacts DEF SongsOf
<1>3. \A s : s \in Listed(img) <=> \E p \in ProjectsOf(img) : s \in SongsOf(img, p)
  BY DEF Listed
<1>4. \A s : s \in Listed(img) <=>
              /\ s # None
              /\ \E p \in ProjectsOf(img) : \E i \in 1 .. MaxSongs :
                   i <= img[p].count /\ img[p].list[i] = s
  BY <1>2, <1>3
<1>5. Listed(img) \subseteq Songs
  <2> SUFFICES ASSUME NEW s \in Listed(img) PROVE s \in Songs
    OBVIOUS
  <2>1. PICK p \in ProjectsOf(img) : \E i \in 1 .. MaxSongs : img[p].list[i] = s
    BY <1>4
  <2>2. PICK i \in 1 .. MaxSongs : img[p].list[i] = s
    BY <2>1
  <2>3. s \in Songs \cup {None}
    BY <1>1, <2>2
  <2> QED BY <1>4, <2>3
<1> QED BY <1>4, <1>5

\* It is no less safe that fewer songs are listed, that songs have fewer
\* clusters, and that more are in use.
LEMMA AsSafe ==
  ASSUME NEW img, NEW other, SpaceOK(img), img[DriveUsage] \subseteq other[DriveUsage],
         \A s \in Listed(other) : other[s] = {} \/ (s \in Listed(img) /\ other[s] \subseteq img[s])
  PROVE  SpaceOK(other)
<1>1. ASSUME NEW s \in Listed(other)
      PROVE  other[s] \subseteq other[DriveUsage]
  BY DEF SpaceOK
<1>2. ASSUME NEW s \in Listed(other), NEW t \in Listed(other), s # t
      PROVE  other[s] \cap other[t] = {}
  <2>1. s \in Listed(img) /\ t \in Listed(img) => img[s] \cap img[t] = {}
    BY <1>2 DEF SpaceOK
  <2> QED BY <2>1
<1> QED BY <1>1, <1>2 DEF SpaceOK

LEMMA SpaceBlocks ==
  DriveUsage \in Blocks \ ListBlocks /\ Songs \subseteq Blocks \ ListBlocks
  /\ DriveUsage \notin Songs /\ Tables \cap Songs = {} /\ Tables \subseteq Blocks \ ListBlocks
BY BlockFacts, CatalogAssumption
   DEF Tables, Songs, FirstSong, FirstProject, Superblock, SongUsage, DriveUsage, Blocks

\* Two that say the same.
LEMMA SameSafe ==
  ASSUME NEW img, NEW other, ListsOK(img), SpaceOK(img), \A b \in Blocks : other[b] = img[b]
  PROVE  SpaceOK(other)
<1>1. Listed(other) = Listed(img) /\ Listed(img) \subseteq Songs
  <2>1. \A b \in ListBlocks : other[b] = img[b]
    BY BlockFacts
  <2> QED BY <2>1, ListedSame, ListedAre
<1>2. \A b \in Songs \cup {DriveUsage} : other[b] = img[b]
  BY SpaceBlocks
<1>3. \A s \in Listed(other) : s \in Listed(img) /\ other[s] \subseteq img[s]
  BY <1>1, <1>2
<1>4. img[DriveUsage] \subseteq other[DriveUsage]
  BY <1>2
<1> QED BY <1>3, <1>4, AsSafe

LEMMA MixFacts ==
  ASSUME CatInv, NEW k \in Nat
  PROVE  /\ DOMAIN Mix(k) = Blocks /\ ListsOK(Mix(k))
         /\ \A b \in Blocks : Mix(k)[b] = IF b < k THEN home[b] ELSE backup[b]
<1>1. /\ DOMAIN Mix(k) = Blocks
      /\ \A b \in Blocks : Mix(k)[b] = IF b < k THEN home[b] ELSE backup[b]
  BY DEF Mix
<1>2. \/ \A b \in ListBlocks : Mix(k)[b] = home[b]
      \/ \A b \in ListBlocks : Mix(k)[b] = backup[b]
  BY <1>1, BlockFacts DEF CatInv
<1> QED BY <1>1, <1>2, SameLists DEF CatInv

\* Nothing or all of it has come through.
LEMMA MixEnds ==
  ASSUME CatInv, \A k \in Nat : SpaceOK(Mix(k))
  PROVE  SpaceOK(home) /\ SpaceOK(backup)
<1> DEFINE n == FirstSong + MaxEntries
<1>1. n \in Nat /\ 0 \in Nat /\ \A b \in Blocks : b < n /\ ~(b < 0)
  <2>1. MaxProjects \in Nat /\ MaxEntries \in Nat
    BY BlockFacts
  <2> QED BY <2>1 DEF FirstSong, FirstProject, Blocks
<1> HIDE DEF n
<1>2. \A b \in Blocks : home[b] = Mix(n)[b] /\ backup[b] = Mix(0)[b]
  BY <1>1, MixFacts
<1> QED BY <1>1, <1>2, MixFacts, SameSafe

\* A block is written.
LEMMA MixWritten ==
  ASSUME CatInv, NEW b \in Blocks, NEW content, home' = [home EXCEPT ![b] = content],
         backup' = backup, NEW k \in Nat
  PROVE  \A c \in Blocks : Mix(k)'[c] = IF c = b /\ b < k THEN content ELSE Mix(k)[c]
<1>1. DOMAIN home = Blocks
  BY DEF CatInv, ListsOK, ListTypes
<1>2. \A c \in Blocks : Mix(k)'[c] = IF c < k THEN home'[c] ELSE backup'[c]
  BY DEF Mix
<1>3. \A c \in Blocks : home'[c] = IF c = b THEN content ELSE home[c]
  BY <1>1
<1> QED BY <1>2, <1>3, MixFacts

\* A block is written that is no list.
LEMMA MixListed ==
  ASSUME CatInv, NEW b \in Blocks \ ListBlocks, NEW content,
         home' = [home EXCEPT ![b] = content], backup' = backup, NEW k \in Nat
  PROVE  /\ Listed(Mix(k))' = Listed(Mix(k)) /\ Listed(Mix(k)) \subseteq Songs
         /\ \A c \in Blocks : Mix(k)'[c] = IF c = b /\ b < k THEN content ELSE Mix(k)[c]
<1>1. \A c \in Blocks : Mix(k)'[c] = IF c = b /\ b < k THEN content ELSE Mix(k)[c]
  BY MixWritten
<1>2. \A c \in ListBlocks : Mix(k)'[c] = Mix(k)[c]
  BY <1>1, BlockFacts
<1>3. ListsOK(Mix(k))
  BY MixFacts
<1> QED BY <1>1, <1>2, <1>3, ListedSame, ListedAre

------------------------------------------------------------------------------
(* The steps that write no list. *)

\* What is left of a step.
LEMMA StepSafe ==
  ASSUME CatInv, SpaceInv, NEW step \in Steps \ {"commit", "allsongs"}, NEW b, NEW content,
         Write(step, b, content), step \in {"usage", "songs", "unmark"} => b \in Tables,
         ~HasStep("mark")' => \A k \in Nat : SpaceOK(Mix(k))', LastListed(home)', SongFits'
  PROVE  SpaceInv'
<1>1. running /\ running' = running /\ backup' = backup
  BY DEF Write, Doing
<1>2. Paired(todo)' /\ Settles'
  BY <1>1, SettlesKept DEF SpaceInv
<1>3. SpaceOK(backup)' /\ LastListed(backup)'
  BY <1>1 DEF SpaceInv
<1> HIDE DEF HasStep
<1> QED BY <1>1, <1>2, <1>3 DEF SpaceInv

\* What such a step leaves as it was.
LEMMA StepFacts ==
  ASSUME CatInv, SpaceInv, NEW step, NEW b \in Blocks \ ListBlocks, NEW content,
         Write(step, b, content)
  PROVE  /\ running /\ arg' = arg /\ Listed(home)' = Listed(home) /\ Listed(home) \subseteq Songs
         /\ LastListed(home)'
         /\ \A c \in Blocks : home'[c] = IF c = b THEN content ELSE home[c]
         /\ HasStep(step)
         /\ \A s : HasStep(s)' => HasStep(s) /\ s \in After(step)
         /\ \A s : HasStep(s) => s = step \/ HasStep(s)'
<1>1. /\ Doing(step) /\ running /\ todo' = Tail(todo) /\ arg' = arg
      /\ home' = [home EXCEPT ![b] = content] /\ DOMAIN home = Blocks
  BY DEF Write, Doing, CatInv, ListsOK, ListTypes
<1>2. \A c \in Blocks : home'[c] = IF c = b THEN content ELSE home[c]
  BY <1>1
<1>3. \A c \in ListBlocks : home'[c] = home[c]
  BY <1>2, BlockFacts
<1>4. ListsOK(home) /\ LastListed(home)
  BY DEF CatInv, SpaceInv
<1>5. Listed(home)' = Listed(home) /\ Listed(home) \subseteq Songs /\ LastListed(home)'
  BY <1>3, <1>4, ListedSame, ListedAre
<1>6. /\ HasStep(step)
      /\ \A s : HasStep(s)' => HasStep(s) /\ s \in After(step)
      /\ \A s : HasStep(s) => s = step \/ HasStep(s)'
  BY <1>1, DoingFacts
<1> QED BY <1>1, <1>2, <1>5, <1>6

LEMMA RecordSafe == CatInv /\ SpaceInv /\ WriteRecord => SpaceInv'
<1> SUFFICES ASSUME CatInv, SpaceInv, NEW step \in {"record"}, NEW s \in {arg.song}, NEW content \in {{}},
                    Write(step, s, content)
             PROVE  SpaceInv'
  BY DEF WriteRecord
<1>1. /\ Doing(step) /\ StepsFit(todo)
      /\ home' = [home EXCEPT ![s] = content] /\ backup' = backup
  BY DEF Write, CatInv
<1>2. s \in Songs
  <2>1. HasStep("enlist")
    BY <1>1, DoingFacts DEF SpaceInv, SongFits
  <2>2. HasStep("count")
    BY <1>1, <2>1 DEF StepsFit, HasStep
  <2> QED BY <2>2 DEF CatInv, ArgFits, NewSongFits
<1>3. s \in Blocks \ ListBlocks /\ s # DriveUsage
  BY <1>2, SpaceBlocks
<1>4. /\ running /\ arg' = arg /\ LastListed(home)'
      /\ Listed(home)' = Listed(home) /\ Listed(home) \subseteq Songs
      /\ \A c \in Blocks : home'[c] = IF c = s THEN content ELSE home[c]
      /\ HasStep(step)
      /\ \A x : HasStep(x)' => HasStep(x) /\ x \in After(step)
      /\ \A x : HasStep(x) => x = step \/ HasStep(x)'
  <2>1. s \in Blocks \ ListBlocks
    BY <1>3
  <2> QED BY <2>1, StepFacts, Zenon
<1>5. ~HasStep("mark")
  BY <1>1, NothingGrows
<1>6. ASSUME NEW k \in Nat
      PROVE  SpaceOK(Mix(k))'
  <2>1. /\ Listed(Mix(k))' = Listed(Mix(k)) /\ Listed(Mix(k)) \subseteq Songs
        /\ \A c \in Blocks : Mix(k)'[c] = IF c = s /\ s < k THEN content ELSE Mix(k)[c]
    BY <1>1, <1>3, MixListed
  <2>2. SpaceOK(Mix(k))
    BY <1>4, <1>5 DEF SpaceInv
  <2>3. Mix(k)'[DriveUsage] = Mix(k)[DriveUsage]
    BY <1>3, <2>1, SpaceBlocks
  <2>4. \A x \in Listed(Mix(k)') : Mix(k)'[x] = {} \/ Mix(k)'[x] = Mix(k)[x]
    BY <2>1, SpaceBlocks
  <2> QED BY <2>1, <2>2, <2>3, <2>4, AsSafe
<1>7. SongFits'
  <2>1. home'[arg'.song] = {}
    BY <1>3, <1>4
  <2>2. HasStep("enlist")'
    <3>1. HasStep("enlist")
      BY <1>4 DEF SpaceInv, SongFits
    <3> HIDE DEF HasStep
    <3> QED BY <1>4, <3>1
  <2> HIDE DEF HasStep
  <2> QED BY <1>4, <2>1, <2>2 DEF SongFits, After
<1> QED BY <1>1, <1>4, <1>6, <1>7, StepSafe DEF Steps

\* The tables of used song places and the number of songs.
LEMMA UsageSafe == CatInv /\ SpaceInv /\ (RewriteSongUsage \/ CountSongs) => SpaceInv'
<1> SUFFICES ASSUME CatInv, SpaceInv, NEW step \in {"usage", "songs"},
                    NEW b \in {SongUsage, Superblock}, NEW content, Write(step, b, content)
             PROVE  SpaceInv'
  BY DEF RewriteSongUsage, CountSongs
<1>1. /\ b \in Tables /\ b \in Blocks \ ListBlocks /\ b \notin Songs /\ b # DriveUsage
  BY SpaceBlocks DEF Tables, SongUsage, Superblock, DriveUsage
<1>2. Doing(step) /\ home' = [home EXCEPT ![b] = content] /\ backup' = backup
  BY DEF Write
<1>3. /\ running /\ arg' = arg /\ LastListed(home)'
      /\ Listed(home)' = Listed(home) /\ Listed(home) \subseteq Songs
      /\ \A c \in Blocks : home'[c] = IF c = b THEN content ELSE home[c]
      /\ HasStep(step)
      /\ \A x : HasStep(x)' => HasStep(x) /\ x \in After(step)
      /\ \A x : HasStep(x) => x = step \/ HasStep(x)'
  BY <1>1, StepFacts, Zenon
<1>4. ~HasStep("mark")
  BY <1>2, NothingGrows
<1>5. ASSUME NEW k \in Nat
      PROVE  SpaceOK(Mix(k))'
  <2>1. /\ Listed(Mix(k))' = Listed(Mix(k)) /\ Listed(Mix(k)) \subseteq Songs
        /\ \A c \in Blocks : Mix(k)'[c] = IF c = b /\ b < k THEN content ELSE Mix(k)[c]
    BY <1>1, <1>2, MixListed
  <2>2. SpaceOK(Mix(k))
    BY <1>3, <1>4 DEF SpaceInv
  <2>3. Mix(k)'[DriveUsage] = Mix(k)[DriveUsage]
    BY <1>1, <2>1, SpaceBlocks
  <2>4. \A x \in Listed(Mix(k)') : Mix(k)'[x] = Mix(k)[x]
    BY <1>1, <2>1, SpaceBlocks
  <2> QED BY <2>1, <2>2, <2>3, <2>4, AsSafe
<1>6. \A x \in Songs : home'[x] = home[x]
  BY <1>1, <1>3, SpaceBlocks
<1>7. SongFits'
  <2> HIDE DEF HasStep
  <2>1. HasStep("unlist") => FALSE
    BY <1>3 DEF After
  <2>2. HasStep("unmark")' => /\ arg.song \in Songs \ Listed(home)
                              /\ \A t \in Listed(home) : home[arg.song] \cap home[t] = {}
    BY <1>3, <2>1 DEF SpaceInv, SongFits
  <2>3. HasStep("unmark")' => /\ arg'.song \in Songs \ Listed(home)'
                              /\ \A t \in Listed(home)' : home'[arg'.song] \cap home'[t] = {}
    BY <1>3, <1>6, <2>2
  <2> QED BY <1>3, <2>3 DEF SongFits, After
<1> QED BY <1>1, <1>3, <1>5, <1>7, StepSafe DEF Steps

LEMMA UnmarkSafe == CatInv /\ SpaceInv /\ Unmark => SpaceInv'
<1> SUFFICES ASSUME CatInv, SpaceInv, NEW step \in {"unmark"},
                    NEW content \in {home[DriveUsage] \ home[arg.song]},
                    Write(step, DriveUsage, content)
             PROVE  SpaceInv'
  BY DEF Unmark
<1>1. DriveUsage \in Blocks \ ListBlocks /\ DriveUsage \notin Songs
  BY SpaceBlocks
<1>2. /\ Doing(step) /\ home' = [home EXCEPT ![DriveUsage] = content] /\ backup' = backup
      /\ Head(todo) = step
  BY DEF Write, Doing
<1>3. /\ running /\ arg' = arg /\ LastListed(home)'
      /\ Listed(home)' = Listed(home) /\ Listed(home) \subseteq Songs
      /\ \A c \in Blocks : home'[c] = IF c = DriveUsage THEN content ELSE home[c]
      /\ HasStep(step)
      /\ \A x : HasStep(x)' => HasStep(x) /\ x \in After(step)
      /\ \A x : HasStep(x) => x = step \/ HasStep(x)'
  BY <1>1, StepFacts, Zenon
<1>4. ~HasStep("mark")
  BY <1>2, NothingGrows
<1>5. ~HasStep("unlist")
  <2> HIDE DEF HasStep
  <2> QED BY <1>3 DEF After
<1>6. /\ arg.song \in Songs \ Listed(home)
      /\ \A t \in Listed(home) : home[arg.song] \cap home[t] = {}
  <2> HIDE DEF HasStep
  <2> QED BY <1>3, <1>5 DEF SpaceInv, SongFits
<1>7. \A c \in Blocks \ Tables : home[c] = backup[c]
  <2>1. OutOfStep \subseteq Tables
    <3> HIDE DEF HasStep
    <3> QED BY <1>2, <1>3, <1>5 DEF SpaceInv, Settles, Settled
  <2> QED BY <2>1 DEF OutOfStep
<1>8. ASSUME NEW k \in Nat
      PROVE  SpaceOK(Mix(k))'
  <2>1. /\ Listed(Mix(k))' = Listed(Mix(k))
        /\ \A c \in Blocks :
             Mix(k)'[c] = IF c = DriveUsage /\ DriveUsage < k THEN content ELSE Mix(k)[c]
        /\ \A c \in Blocks : Mix(k)[c] = IF c < k THEN home[c] ELSE backup[c]
    <3>1. home' = [home EXCEPT ![DriveUsage] = content] /\ backup' = backup
      BY <1>2
    <3>2. \A c \in Blocks : Mix(k)[c] = IF c < k THEN home[c] ELSE backup[c]
      BY MixFacts, Zenon
    <3> QED BY <1>1, <3>1, <3>2, MixListed, Zenon
  <2>2. \A c \in Blocks \ Tables : Mix(k)[c] = home[c]
    BY <1>7, <2>1
  <2>3. Listed(Mix(k)) = Listed(home)
    <3>1. \A c \in ListBlocks : Mix(k)[c] = home[c]
      BY <2>2, SpaceBlocks, BlockFacts
    <3>2. ListsOK(home)
      BY DEF CatInv
    <3> QED BY <3>1, <3>2, ListedSame
  <2>4. SpaceOK(Mix(k))
    BY <1>3, <1>4 DEF SpaceInv
  <2>5. \A t \in Listed(home) : Mix(k)'[t] = home[t] /\ Mix(k)[t] = home[t]
    BY <1>1, <1>3, <2>1, <2>2, SpaceBlocks
  <2>6. ASSUME NEW t \in Listed(home)
        PROVE  home[t] \subseteq Mix(k)'[DriveUsage]
    <3>1. home[t] \subseteq Mix(k)[DriveUsage]
      BY <2>3, <2>4, <2>5 DEF SpaceOK
    <3>2. CASE DriveUsage < k
      BY <1>1, <1>6, <2>1, <3>1, <3>2
    <3>3. CASE ~(DriveUsage < k)
      BY <1>1, <2>1, <3>1, <3>3
    <3> QED BY <3>2, <3>3
  <2> QED BY <2>1, <2>3, <2>4, <2>5, <2>6 DEF SpaceOK
<1>9. \A x \in Songs : home'[x] = home[x]
  BY <1>1, <1>3, SpaceBlocks
<1>10. SongFits'
  <2>1. /\ arg'.song \in Songs \ Listed(home)'
        /\ \A t \in Listed(home)' : home'[arg'.song] \cap home'[t] = {}
    BY <1>3, <1>6, <1>9
  <2> HIDE DEF HasStep
  <2> QED BY <1>3, <2>1 DEF SongFits, After
<1> QED BY <1>1, <1>3, <1>8, <1>10, StepSafe DEF Steps, Tables

LEMMA GrowSafe == CatInv /\ SpaceInv /\ Grow => SpaceInv'
<1> SUFFICES ASSUME CatInv, SpaceInv, NEW step \in {"grow"}, NEW s \in {arg.song},
                    NEW content \in {home[s] \cup arg.space}, Write(step, s, content)
             PROVE  SpaceInv'
  BY DEF Grow
<1>1. /\ Doing(step) /\ home' = [home EXCEPT ![s] = content] /\ UNCHANGED <<backup, arg>>
      /\ DOMAIN home = Blocks
  BY DEF Write, CatInv, ListsOK, ListTypes
<1>2. /\ s \in Songs /\ arg.space \cap home[DriveUsage] = {} /\ OutOfStep = {}
      /\ HasStep("mark")
  BY <1>1, DoingFacts DEF SpaceInv, SongFits
<1>3. s \in Blocks \ ListBlocks /\ s # DriveUsage
  BY <1>2, SpaceBlocks
<1>4. /\ LastListed(home)'
      /\ \A c \in Blocks : home'[c] = IF c = s THEN content ELSE home[c]
      /\ \A x : HasStep(x)' => HasStep(x) /\ x \in After(step)
      /\ \A x : HasStep(x) => x = step \/ HasStep(x)'
  BY <1>3, StepFacts, Zenon
<1>5. HasStep("mark")'
  <2> HIDE DEF HasStep
  <2> QED BY <1>2, <1>4
<1>6. SongFits'
  <2>1. home'[DriveUsage] = home[DriveUsage] /\ home'[s] = content
    BY <1>3, <1>4, SpaceBlocks
  <2>2. home[s] = backup[s]
    BY <1>2, <1>3 DEF OutOfStep
  <2>3. OutOfStep' \subseteq {s}
    BY <1>1, <1>2, <1>4 DEF OutOfStep
  <2> HIDE DEF HasStep
  <2> QED BY <1>1, <1>2, <1>4, <2>1, <2>2, <2>3 DEF SongFits, After
<1> QED BY <1>4, <1>5, <1>6, StepSafe DEF Steps

LEMMA MarkSafe == CatInv /\ SpaceInv /\ Mark => SpaceInv'
<1> SUFFICES ASSUME CatInv, SpaceInv, NEW step \in {"mark"},
                    NEW content \in {home[DriveUsage] \cup arg.space},
                    Write(step, DriveUsage, content)
             PROVE  SpaceInv'
  BY DEF Mark
<1> DEFINE s == arg.song
<1>1. DriveUsage \in Blocks \ ListBlocks /\ DriveUsage \notin Songs
  BY SpaceBlocks
<1>2. Doing(step) /\ home' = [home EXCEPT ![DriveUsage] = content] /\ backup' = backup
  BY DEF Write
<1>3. /\ LastListed(home)'
      /\ \A c \in Blocks : home'[c] = IF c = DriveUsage THEN content ELSE home[c]
      /\ HasStep(step)
      /\ \A x : HasStep(x)' => HasStep(x) /\ x \in After(step)
      /\ \A x : HasStep(x) => x = step \/ HasStep(x)'
  BY <1>1, StepFacts, Zenon
<1>4. /\ s \in Songs /\ arg.space \cap home[DriveUsage] = {}
      /\ OutOfStep \subseteq {s} /\ home[s] = backup[s] \cup arg.space
  <2> HIDE DEF HasStep
  <2>1. ~HasStep("grow")
    BY <1>3 DEF After
  <2> QED BY <1>3, <2>1 DEF SpaceInv, SongFits
<1> HIDE DEF s
<1>5. \A c \in Blocks : c # s => home[c] = backup[c]
  BY <1>4 DEF OutOfStep
<1>6. SpaceOK(backup) /\ ListsOK(backup) /\ Listed(backup) \subseteq Songs
  BY ListedAre DEF SpaceInv, CatInv
<1>7. ASSUME NEW k \in Nat
      PROVE  SpaceOK(Mix(k))'
  <2>1. /\ Listed(Mix(k))' = Listed(Mix(k))
        /\ \A c \in Blocks :
             Mix(k)'[c] = IF c = DriveUsage /\ DriveUsage < k THEN content ELSE Mix(k)[c]
        /\ \A c \in Blocks : Mix(k)[c] = IF c < k THEN home[c] ELSE backup[c]
    <3>1. home' = [home EXCEPT ![DriveUsage] = content] /\ backup' = backup
      BY <1>2
    <3>2. \A c \in Blocks : Mix(k)[c] = IF c < k THEN home[c] ELSE backup[c]
      BY MixFacts, Zenon
    <3> QED BY <1>1, <3>1, <3>2, MixListed, Zenon
  <2>2. \A c \in Blocks : c # s => Mix(k)[c] = backup[c]
    BY <1>5, <2>1
  <2>3. Listed(Mix(k)) = Listed(backup)
    <3>1. \A c \in ListBlocks : Mix(k)[c] = backup[c]
      BY <1>4, <2>2, SpaceBlocks, BlockFacts
    <3> QED BY <1>6, <3>1, ListedSame
  <2>4. \A t \in Songs : t # s => Mix(k)'[t] = backup[t]
    BY <1>1, <2>1, <2>2, SpaceBlocks
  <2>5. \/ Mix(k)'[s] = backup[s] /\ backup[DriveUsage] \subseteq Mix(k)'[DriveUsage]
        \/ /\ Mix(k)'[s] = backup[s] \cup arg.space
           /\ Mix(k)'[DriveUsage] = backup[DriveUsage] \cup arg.space
    <3>1. home[DriveUsage] = backup[DriveUsage] /\ DriveUsage # s /\ s \in Blocks
      BY <1>1, <1>4, <1>5, SpaceBlocks
    <3>2. s < k => DriveUsage < k
      BY <1>4, BlockFacts DEF Songs, FirstSong, FirstProject, DriveUsage
    <3>3. Mix(k)'[s] = IF s < k THEN backup[s] \cup arg.space ELSE backup[s]
      BY <1>4, <2>1, <3>1
    <3>4. Mix(k)'[DriveUsage] = IF DriveUsage < k THEN backup[DriveUsage] \cup arg.space
                                ELSE backup[DriveUsage]
      BY <1>1, <2>1, <3>1
    <3> QED BY <3>2, <3>3, <3>4
  <2>6. \A t \in Songs \cap Listed(backup) : backup[t] \cap arg.space = {}
    <3>1. home[DriveUsage] = backup[DriveUsage]
      BY <1>1, <1>4, <1>5
    <3> QED BY <1>4, <1>6, <3>1 DEF SpaceOK
  <2>7. ASSUME NEW t \in Listed(backup)
        PROVE  Mix(k)'[t] \subseteq Mix(k)'[DriveUsage]
    <3>1. backup[t] \subseteq backup[DriveUsage] /\ t \in Songs
      BY <1>6 DEF SpaceOK
    <3> QED BY <2>4, <2>5, <3>1
  <2>8. ASSUME NEW t \in Listed(backup), NEW u \in Listed(backup), t # u
        PROVE  Mix(k)'[t] \cap Mix(k)'[u] = {}
    <3>1. backup[t] \cap backup[u] = {} /\ t \in Songs /\ u \in Songs
      BY <1>6, <2>8 DEF SpaceOK
    <3>2. /\ Mix(k)'[s] \subseteq backup[s] \cup arg.space
          /\ backup[t] \cap arg.space = {} /\ backup[u] \cap arg.space = {}
      BY <2>5, <2>6, <3>1
    <3> QED BY <2>4, <2>8, <3>1, <3>2
  <2> QED BY <2>1, <2>3, <2>7, <2>8 DEF SpaceOK
<1>8. SongFits'
  <2> HIDE DEF HasStep
  <2> QED BY <1>3 DEF SongFits, After
<1> QED BY <1>3, <1>7, <1>8, StepSafe DEF Steps

------------------------------------------------------------------------------
(* The steps that write a list. *)

LEMMA ListSafe ==
  ASSUME CatInv, SpaceInv, NEW step \in ListWriters, NEW b \in ListBlocks, NEW content,
         Write(step, b, content), ListsOK(home)',
         \A s \in Listed(home)' : s \in Listed(home) \/ (home[s] = {} /\ backup[s] = {}),
         LastListed(home)', SongFits'
  PROVE  SpaceInv'
<1>1. /\ running /\ todo # <<>> /\ Head(todo) = step /\ todo' = Tail(todo) /\ Doing(step)
      /\ home' = [home EXCEPT ![b] = content] /\ backup' = backup
      /\ StepsFit(todo) /\ ListsOK(home) /\ CopiesAgree
      /\ step \in Steps \ {"commit", "allsongs"} /\ step \notin {"grow", "mark"}
      /\ step \notin {"usage", "songs", "unmark"}
  BY DEF Write, Doing, CatInv, ListWriters, Steps
<1>2. InStep
  BY <1>1, GatesKept
<1>3. ~HasStep("mark")
  BY <1>1, NothingGrows
<1>4. /\ Listed(home) \subseteq Songs /\ Listed(home') \subseteq Songs
      /\ b \in Blocks /\ \A c \in Blocks : home'[c] = IF c = b THEN content ELSE home[c]
  BY <1>1, ListedAre, BlockFacts DEF ListsOK, ListTypes
<1>5. ASSUME NEW k \in Nat
      PROVE  SpaceOK(Mix(k))'
  <2>1. /\ \A c \in Blocks : Mix(k)'[c] = IF c = b /\ b < k THEN content ELSE Mix(k)[c]
        /\ \A c \in Blocks : Mix(k)[c] = IF c < k THEN home[c] ELSE backup[c]
    <3>1. home' = [home EXCEPT ![b] = content] /\ backup' = backup /\ b \in Blocks
      BY <1>1, <1>4
    <3>2. \A c \in Blocks : Mix(k)'[c] = IF c = b /\ b < k THEN content ELSE Mix(k)[c]
      BY <3>1, MixWritten, Zenon
    <3> QED BY <3>2, MixFacts
  <2>2. \A c \in ListBlocks : c \in Blocks /\ Mix(k)[c] = home[c]
    BY <1>2, <2>1, BlockFacts DEF InStep
  <2>3. Listed(Mix(k)) = Listed(home)
    BY <1>1, <2>2, ListedSame
  <2>4. Listed(Mix(k)') \in {Listed(home), Listed(home')}
    <3>1. CASE b < k
      <4>1. \A c \in ListBlocks : Mix(k)'[c] = home'[c]
        BY <1>4, <2>1, <2>2, <3>1
      <4> QED BY <4>1, ListedSame
    <3>2. CASE ~(b < k)
      <4>1. \A c \in ListBlocks : Mix(k)'[c] = home[c]
        BY <2>1, <2>2, <3>2
      <4> QED BY <1>1, <4>1, ListedSame
    <3> QED BY <3>1, <3>2
  <2>5. SpaceOK(Mix(k))
    BY <1>1, <1>3 DEF SpaceInv
  <2>6. /\ Mix(k)'[DriveUsage] = Mix(k)[DriveUsage]
        /\ \A s \in Songs : /\ Mix(k)'[s] = Mix(k)[s]
                            /\ home[s] = {} /\ backup[s] = {} => Mix(k)'[s] = {}
    BY <2>1, SpaceBlocks
  <2>7. ASSUME NEW s \in Listed(Mix(k)')
        PROVE  Mix(k)'[s] = {} \/ (s \in Listed(Mix(k)) /\ Mix(k)'[s] \subseteq Mix(k)[s])
    <3>1. s \in Songs /\ (s \in Listed(home) \/ (home[s] = {} /\ backup[s] = {}))
      BY <1>4, <2>4
    <3> QED BY <2>3, <2>6, <3>1
  <2> QED BY <2>5, <2>6, <2>7, AsSafe
<1> QED BY <1>1, <1>5, StepSafe

\* One project is written.
LEMMA OneProject ==
  ASSUME ListsOK(home), ListsOK(home)', LastListed(home), NEW p \in ProjectBlocks, NEW new,
         home' = [home EXCEPT ![p] = new], NEW more,
         p \in ProjectsOf(home) =>
           /\ \A i \in 1 .. MaxSongs : i <= new.count /\ new.list[i] # None =>
                new.list[i] \in Listed(home) \cup more
           /\ new.last = None \/ \E i \in 1 .. MaxSongs : new.list[i] = new.last
  PROVE  /\ ProjectsOf(home)' = ProjectsOf(home) /\ LastListed(home)'
         /\ Listed(home') \subseteq Listed(home) \cup more
         /\ home'[p] = new /\ p \in ListBlocks
         /\ \A b \in Blocks : b # p => home'[b] = home[b]
         /\ \A s \in Songs : home'[s] = home[s]
<1>1. /\ home'[p] = new /\ p \in ListBlocks /\ p \in Blocks
      /\ \A b \in Blocks : b # p => home'[b] = home[b]
  BY BlockFacts DEF ListsOK, ListTypes, ListBlocks
<1>2. home'[DriveInfo] = home[DriveInfo] /\ ProjectsOf(home) \subseteq Blocks
  BY <1>1, BlockFacts, ProjectsFacts
<1>3. ProjectsOf(home)' = ProjectsOf(home)
  BY <1>2 DEF ProjectsOf
<1>4. \A s \in Songs : home'[s] = home[s]
  BY <1>1, SpaceBlocks
<1>5. ASSUME NEW s \in Listed(home')
      PROVE  s \in Listed(home) \cup more
  <2>1. PICK q \in ProjectsOf(home) :
          s # None /\ \E i \in 1 .. MaxSongs : i <= home'[q].count /\ home'[q].list[i] = s
    <3>1. \A img : ListsOK(img) /\ s \in Listed(img) =>
            s # None /\ \E q \in ProjectsOf(img) : \E i \in 1 .. MaxSongs :
                          i <= img[q].count /\ img[q].list[i] = s
      BY ListedAre
    <3> QED BY <1>3, <3>1
  <2>2. PICK i \in 1 .. MaxSongs : i <= home'[q].count /\ home'[q].list[i] = s
    BY <2>1
  <2>3. CASE q = p
    BY <1>1, <2>1, <2>2, <2>3
  <2>4. CASE q # p
    <3>1. home'[q] = home[q]
      BY <1>1, <1>2, <2>4
    <3> QED BY <2>1, <2>2, <3>1, ListedAre
  <2> QED BY <2>3, <2>4
<1>6. LastListed(home)'
  <2> SUFFICES ASSUME NEW q \in ProjectsOf(home)
               PROVE  home'[q].last = None
                      \/ \E i \in 1 .. MaxSongs : home'[q].list[i] = home'[q].last
    BY <1>3 DEF LastListed
  <2>1. CASE q = p
    BY <1>1, <2>1
  <2>2. CASE q # p
    BY <1>1, <1>2, <2>2 DEF LastListed
  <2> QED BY <2>1, <2>2
<1> QED BY <1>1, <1>3, <1>4, <1>5, <1>6

\* What a project counts is listed.
LEMMA CountedAreListed ==
  ASSUME ListsOK(home), NEW p \in ProjectsOf(home), NEW i \in 1 .. MaxSongs,
         i <= home[p].count, home[p].list[i] # None
  PROVE  home[p].list[i] \in Listed(home)
BY ListedAre

LEMMA EnlistSafe == CatInv /\ SpaceInv /\ Enlist => SpaceInv'
<1> SUFFICES ASSUME CatInv, SpaceInv, Enlist PROVE SpaceInv'
  OBVIOUS
<1> DEFINE new == [list |-> [project.list EXCEPT ![arg.id] = arg.song],
                   count |-> project.count, last |-> arg.song]
<1>1. /\ Write("enlist", arg.project, [enlisted EXCEPT !.last = arg.song])
      /\ Doing("enlist") /\ todo' = Tail(todo) /\ arg' = arg /\ ListsOK(home)'
  BY EnlistKeeps DEF Enlist, Write, CatInv
<1>2. /\ HasStep("count")' /\ HasStep("count") /\ ListsOK(home)
      /\ \A s : HasStep(s)' => HasStep(s) /\ s \in After("enlist")
      /\ \A s : HasStep(s) => s = "enlist" \/ HasStep(s)'
  BY <1>1, DoingFacts
<1>3. /\ arg.project \in ProjectsOf(home) /\ arg.song \in Songs
      /\ arg.id = project.count + 1 /\ arg.id <= MaxSongs
  BY <1>2 DEF CatInv, ArgFits, NewSongFits, project
<1>4. /\ arg.project \in ProjectBlocks
      /\ project.list \in [1 .. MaxSongs -> Songs \cup {None}] /\ project.count \in 0 .. MaxSongs
      /\ project = [list |-> project.list, count |-> project.count, last |-> project.last]
  BY <1>2, <1>3, ProjectFacts DEF project
<1>5. [enlisted EXCEPT !.last = arg.song] = new
  <2>1. enlisted = [list |-> [project.list EXCEPT ![arg.id] = arg.song],
                    count |-> project.count, last |-> project.last]
    BY <1>4 DEF enlisted
  <2> QED BY <2>1
<1>6. /\ arg.id \in 1 .. MaxSongs /\ new.count = project.count /\ new.last = arg.song
      /\ new.list[arg.id] = arg.song
      /\ \A i \in 1 .. MaxSongs : i <= project.count => new.list[i] = project.list[i]
  BY <1>3, <1>4, BlockFacts
<1>7. home' = [home EXCEPT ![arg.project] = new] /\ Write("enlist", arg.project, new)
  BY <1>1, <1>5 DEF Write
<1> HIDE DEF new
<1>8. \A i \in 1 .. MaxSongs : i <= new.count /\ new.list[i] # None => new.list[i] \in Listed(home)
  BY <1>2, <1>3, <1>6, CountedAreListed DEF project
<1>9. /\ LastListed(home)' /\ Listed(home') \subseteq Listed(home)
      /\ home'[arg.project] = new /\ arg.project \in ListBlocks
      /\ \A s \in Songs : home'[s] = home[s]
  <2>1. LastListed(home)
    BY DEF SpaceInv
  <2>2. \E i \in 1 .. MaxSongs : new.list[i] = new.last
    BY <1>6
  <2>3. \A i \in 1 .. MaxSongs : i <= new.count /\ new.list[i] # None
                                 => new.list[i] \in Listed(home) \cup {}
    BY <1>8
  <2> QED BY <1>1, <1>2, <1>4, <1>7, <2>1, <2>2, <2>3, OneProject
<1>10. SongFits'
  <2> HIDE DEF HasStep
  <2>1. ~HasStep("record")
    BY <1>2 DEF After
  <2>2. home'[arg'.song] = {} /\ project'.list[arg'.id] = arg'.song
    BY <1>1, <1>2, <1>3, <1>6, <1>9, <2>1 DEF SpaceInv, SongFits, project
  <2> QED BY <1>2, <2>2 DEF SongFits, After
<1> QED BY <1>1, <1>7, <1>9, <1>10, ListSafe DEF ListWriters

LEMMA CountSafe == CatInv /\ SpaceInv /\ CountSong => SpaceInv'
<1> SUFFICES ASSUME CatInv, SpaceInv, CountSong PROVE SpaceInv'
  OBVIOUS
<1> DEFINE s == arg.song
           new == [list |-> [project.list EXCEPT ![arg.id] = s],
                   count |-> project.count + 1, last |-> project.last]
<1>1. /\ Write("count", arg.project, [enlisted EXCEPT !.count = @ + 1])
      /\ Doing("count") /\ todo' = Tail(todo) /\ running /\ Head(todo) = "count"
      /\ ListsOK(home)'
  BY CountSongKeeps DEF CountSong, Write, CatInv, Doing
<1>2. /\ HasStep("count") /\ ListsOK(home)
      /\ \A x : HasStep(x)' => x \in After("count")
      /\ \A x : HasStep(x) => x = "count" \/ HasStep(x)'
  BY <1>1, DoingFacts
<1>3. arg.project \in ProjectsOf(home) /\ s \in Songs /\ arg.id = project.count + 1
  BY <1>2 DEF CatInv, ArgFits, NewSongFits, project
<1>4. /\ arg.project \in ProjectBlocks /\ project.count \in 0 .. MaxSongs
      /\ project.list \in [1 .. MaxSongs -> Songs \cup {None}]
      /\ project = [list |-> project.list, count |-> project.count, last |-> project.last]
  BY <1>2, <1>3, ProjectFacts DEF project
<1>5. ~HasStep("record") /\ ~HasStep("enlist")
  <2> HIDE DEF HasStep
  <2> QED BY <1>2 DEF After
<1>6. home[s] = {} /\ project.list[arg.id] = s /\ OutOfStep = {}
  <2> HIDE DEF HasStep
  <2> QED BY <1>1, <1>2, <1>5 DEF SpaceInv, SongFits, Settles, Settled
<1>7. backup[s] = {}
  BY <1>3, <1>6, SpaceBlocks DEF OutOfStep
<1>8. [enlisted EXCEPT !.count = @ + 1] = new
  <2>1. enlisted = [list |-> [project.list EXCEPT ![arg.id] = s],
                    count |-> project.count, last |-> project.last]
    BY <1>4 DEF enlisted
  <2> QED BY <2>1
<1>9. /\ new.count = project.count + 1 /\ new.last = project.last
      /\ \A i \in 1 .. MaxSongs : new.list[i] = project.list[i]
  BY <1>4, <1>6
<1>10. home' = [home EXCEPT ![arg.project] = new] /\ Write("count", arg.project, new)
  BY <1>1, <1>8 DEF Write
<1> HIDE DEF new, s
<1>11. \A i \in 1 .. MaxSongs : i <= new.count /\ new.list[i] # None
                                => new.list[i] \in Listed(home) \cup {s}
  <2> SUFFICES ASSUME NEW i \in 1 .. MaxSongs, i <= new.count, new.list[i] # None,
                      new.list[i] # s
               PROVE  new.list[i] \in Listed(home)
    OBVIOUS
  <2>1. i # arg.id /\ i <= project.count
    BY <1>3, <1>4, <1>6, <1>9
  <2> QED BY <1>2, <1>3, <1>9, <2>1, CountedAreListed DEF project
<1>12. /\ LastListed(home)' /\ Listed(home') \subseteq Listed(home) \cup {s}
       /\ arg.project \in ListBlocks
  <2>1. LastListed(home)
    BY DEF SpaceInv
  <2>2. new.last = None \/ \E i \in 1 .. MaxSongs : new.list[i] = new.last
    BY <1>3, <1>9, <2>1 DEF LastListed, project
  <2> QED BY <1>1, <1>2, <1>4, <1>10, <1>11, <2>1, <2>2, OneProject
<1>13. SongFits'
  <2> HIDE DEF HasStep
  <2> QED BY <1>2 DEF SongFits, After
<1>14. \A x \in Listed(home)' : x \in Listed(home) \/ (home[x] = {} /\ backup[x] = {})
  BY <1>6, <1>7, <1>12
<1> QED BY <1>1, <1>10, <1>12, <1>13, <1>14, ListSafe DEF ListWriters

LEMMA UnlistSafe == CatInv /\ SpaceInv /\ Unlist => SpaceInv'
<1> SUFFICES ASSUME CatInv, SpaceInv, Unlist PROVE SpaceInv'
  OBVIOUS
<1> DEFINE s == arg.song
           p == arg.project
           list == Without(project.list, arg.id)
           new == [list |-> list, count |-> project.count - 1, last |-> list[1]]
<1>1. /\ Write("unlist", p, new) /\ Doing("unlist") /\ todo' = Tail(todo) /\ running
      /\ arg' = arg /\ home' = [home EXCEPT ![p] = new] /\ ListsOK(home)'
  BY UnlistKeeps DEF Unlist, Write, CatInv, Doing
<1>2. /\ HasStep("unlist") /\ ListsOK(home)
      /\ \A x : HasStep(x)' => x \in After("unlist")
      /\ \A x : HasStep(x) => x = "unlist" \/ HasStep(x)'
  BY <1>1, DoingFacts
<1>3. /\ p \in ProjectsOf(home) /\ arg.id \in 1 .. project.count
      /\ s = project.list[arg.id] /\ LastListed(home)
  BY <1>2 DEF CatInv, ArgFits, SpaceInv, SongFits, project
<1>4. /\ p \in ProjectBlocks
      /\ project.list \in [1 .. MaxSongs -> Songs \cup {None}]
      /\ project.count \in 0 .. MaxSongs
      /\ \A i \in 1 .. project.count : i \in 1 .. MaxSongs /\ project.list[i] # None
  BY <1>2, <1>3, ProjectFacts DEF project
<1>5. arg.id \in 1 .. MaxSongs /\ s \in Songs /\ s # None
  BY <1>3, <1>4
<1>6. \A i \in 1 .. MaxSongs : project.list[i] = s => i = arg.id
  BY <1>2, <1>3, <1>5 DEF ListsOK, SongsDistinct, project
\* Each entry is one of the old list, at its place or one further.
<1>7. ASSUME NEW i \in 1 .. MaxSongs
      PROVE  \/ i < arg.id /\ list[i] = project.list[i]
             \/ arg.id <= i /\ i + 1 \in 1 .. MaxSongs /\ list[i] = project.list[i + 1]
             \/ i = MaxSongs /\ list[i] = None
  BY <1>4, <1>5, BlockFacts DEF Without
<1>8. new.list = list /\ new.count = project.count - 1 /\ new.last = list[1]
  OBVIOUS
<1> HIDE DEF new, list, s, p
<1>9. ASSUME NEW i \in 1 .. MaxSongs, i <= new.count, new.list[i] # None
      PROVE  new.list[i] # s /\ new.list[i] \in Listed(home)
  <2>1. CASE i < arg.id /\ list[i] = project.list[i]
    <3>1. i <= project.count /\ i # arg.id
      BY <1>3, <1>4, <1>5, <2>1
    <3>2. new.list[i] = home[p].list[i] /\ i <= home[p].count
      BY <1>8, <2>1, <3>1 DEF project, p
    <3>3. home[p].list[i] \in Listed(home)
      BY <1>2, <1>3, <1>9, <3>2, CountedAreListed
    <3> QED BY <1>6, <1>8, <2>1, <3>1, <3>2, <3>3
  <2>2. CASE arg.id <= i /\ i + 1 \in 1 .. MaxSongs /\ list[i] = project.list[i + 1]
    <3>1. i + 1 <= project.count /\ i + 1 # arg.id
      BY <1>4, <1>5, <1>8, <1>9, <2>2
    <3>2. new.list[i] = home[p].list[i + 1] /\ i + 1 <= home[p].count
      BY <1>8, <2>2, <3>1 DEF project, p
    <3>3. home[p].list[i + 1] \in Listed(home)
      BY <1>2, <1>3, <1>9, <2>2, <3>2, CountedAreListed
    <3> QED BY <1>6, <1>8, <2>2, <3>1, <3>2, <3>3
  <2> QED BY <1>7, <1>8, <1>9, <2>1, <2>2
<1>10. new.last = None \/ \E i \in 1 .. MaxSongs : new.list[i] = new.last
  BY <1>8, BlockFacts
<1>11. /\ LastListed(home)' /\ Listed(home') \subseteq Listed(home) /\ p \in ListBlocks
       /\ ProjectsOf(home)' = ProjectsOf(home) /\ home'[p] = new
       /\ \A b \in Blocks : b # p => home'[b] = home[b]
       /\ \A x \in Songs : home'[x] = home[x]
  <2>1. \A i \in 1 .. MaxSongs : i <= new.count /\ new.list[i] # None
                                 => new.list[i] \in Listed(home) \cup {}
    BY <1>9
  <2> QED BY <1>1, <1>2, <1>3, <1>4, <1>10, <2>1, OneProject
<1>12. s \notin Listed(home')
  <2> SUFFICES ASSUME s \in Listed(home') PROVE FALSE
    OBVIOUS
  <2>1. PICK q \in ProjectsOf(home) :
          \E i \in 1 .. MaxSongs : i <= home'[q].count /\ home'[q].list[i] = s
    <3>1. \A img : ListsOK(img) /\ s \in Listed(img) =>
            \E q \in ProjectsOf(img) : \E i \in 1 .. MaxSongs :
              i <= img[q].count /\ img[q].list[i] = s
      BY ListedAre
    <3>2. ListsOK(home') /\ s \in Listed(home') /\ ProjectsOf(home') = ProjectsOf(home)
      BY <1>1, <1>11
    <3> QED BY <3>1, <3>2, Zenon
  <2>2. PICK i \in 1 .. MaxSongs : i <= home'[q].count /\ home'[q].list[i] = s
    BY <2>1
  <2>3. CASE q = p
    BY <1>5, <1>9, <1>11, <2>2, <2>3
  <2>4. CASE q # p
    <3>1. home'[q] = home[q]
      BY <1>2, <1>11, <2>4, ProjectsFacts, BlockFacts
    <3>2. home[q].list[i] = home[p].list[arg.id] /\ home[q].list[i] # None
      BY <1>3, <1>5, <2>2, <3>1 DEF project, p
    <3> QED BY <1>2, <1>3, <1>5, <2>4, <3>2 DEF ListsOK, SongsDistinct
  <2> QED BY <2>3, <2>4
<1>13. s \in Listed(home)
  <2>1. home[p].list[arg.id] = s /\ arg.id <= home[p].count
    BY <1>3, <1>4 DEF project, p
  <2> QED BY <1>2, <1>3, <1>5, <2>1, CountedAreListed
<1>14. SpaceOK(home)
  <2>1. ~HasStep("mark")
    BY <1>1, NothingGrows
  <2> QED BY <1>1, <2>1, MixEnds DEF SpaceInv
<1>15. SongFits'
  <2>1. \A t \in Listed(home') : home[s] \cap home[t] = {}
    BY <1>11, <1>12, <1>13, <1>14 DEF SpaceOK
  <2>2. Listed(home') \subseteq Songs
    BY <1>1, ListedAre
  <2>3. /\ arg'.song \in Songs \ Listed(home')
        /\ \A t \in Listed(home') : home'[arg'.song] \cap home'[t] = {}
    BY <1>1, <1>5, <1>11, <1>12, <2>1, <2>2 DEF s
  <2> HIDE DEF HasStep
  <2> QED BY <1>2, <2>3 DEF SongFits, After
<1> QED BY <1>1, <1>11, <1>15, ListSafe DEF ListWriters

\* A list in another order has the same songs.
LEMMA OrderIsOnto ==
  ASSUME NEW n \in Nat, NEW order \in [1 .. n -> 1 .. n],
         \A i, j \in 1 .. n : order[i] = order[j] => i = j, NEW v \in 1 .. n
  PROVE  \E i \in 1 .. n : order[i] = v
<1> SUFFICES ASSUME \A i \in 1 .. n : order[i] # v PROVE FALSE
  OBVIOUS
<1>1. IsFiniteSet(1 .. n) /\ Cardinality(1 .. n) = n
  <2>1. Cardinality(1 .. n) = (IF 1 > n THEN 0 ELSE n - 1 + 1) /\ IsFiniteSet(1 .. n)
    BY FS_Interval
  <2> QED BY <2>1
<1>2. IsFiniteSet((1 .. n) \ {v}) /\ Cardinality((1 .. n) \ {v}) = n - 1
  BY <1>1, FS_RemoveElement
<1>3. order \in [1 .. n -> (1 .. n) \ {v}]
  OBVIOUS
<1>4. Cardinality((1 .. n) \ {v}) < Cardinality(1 .. n)
  BY <1>1, <1>2
<1>5. \E i, j \in 1 .. n : i # j /\ order[i] = order[j]
  <2> DEFINE S == 1 .. n
             T == (1 .. n) \ {v}
  <2>1. IsFiniteSet(S) /\ IsFiniteSet(T) /\ Cardinality(T) < Cardinality(S) /\ order \in [S -> T]
    BY <1>1, <1>2, <1>3, <1>4
  <2> HIDE DEF S, T
  <2>2. \E i, j \in S : i # j /\ order[i] = order[j]
    BY <2>1, FS_PigeonHole
  <2> QED BY <2>2 DEF S
<1> QED BY <1>5

\* Each song of a list that counts n of them is in the other, as one that is
\* counted or one that is not.
Reordered(list, other, n) ==
  \A i \in 1 .. MaxSongs : \E j \in 1 .. MaxSongs :
    other[j] = list[i] /\ (j <= n <=> i <= n)

LEMMA SortWrites ==
  ASSUME CatInv, Sort
  PROVE  \E list :
           /\ Write("sort", arg.project,
                    [list |-> list, count |-> project.count, last |-> project.last])
           /\ Reordered(list, project.list, project.count)
           /\ Reordered(project.list, list, project.count)
<1>1. PICK order \in [1 .. project.count -> 1 .. project.count] :
        /\ \A i, j \in DOMAIN order : order[i] = order[j] => i = j
        /\ Write("sort", arg.project,
             [project EXCEPT !.list =
                [i \in 1 .. MaxSongs |->
                   IF i \in DOMAIN order THEN project.list[order[i]] ELSE project.list[i]]])
  BY DEF Sort
<1> DEFINE list == [i \in 1 .. MaxSongs |->
                      IF i \in DOMAIN order THEN project.list[order[i]] ELSE project.list[i]]
<1>2. HasStep("sort") /\ ListsOK(home)
  BY <1>1, DoingFacts DEF Write, CatInv
<1>3. arg.project \in ProjectsOf(home)
  BY <1>2 DEF CatInv, ArgFits
<1>4. /\ project.count \in 0 .. MaxSongs
      /\ project = [list |-> project.list, count |-> project.count, last |-> project.last]
      /\ \A i \in 1 .. project.count : i \in 1 .. MaxSongs
      /\ \A i \in 1 .. MaxSongs : i \in 1 .. project.count <=> i <= project.count
  BY <1>2, <1>3, ProjectFacts, BlockFacts DEF project
<1>5. Write("sort", arg.project, [list |-> list, count |-> project.count, last |-> project.last])
  <2>1. [project EXCEPT !.list = list]
          = [list |-> list, count |-> project.count, last |-> project.last]
    <3> HIDE DEF list
    <3> QED BY <1>4
  <2> QED BY <1>1, <2>1
<1>6. /\ \A i \in 1 .. project.count :
           list[i] = project.list[order[i]] /\ order[i] \in 1 .. project.count
      /\ \A i \in 1 .. MaxSongs : i \notin 1 .. project.count => list[i] = project.list[i]
  <2>1. DOMAIN order = 1 .. project.count
        /\ \A i \in 1 .. project.count : order[i] \in 1 .. project.count
    BY <1>1
  <2>2. \A i \in 1 .. MaxSongs :
          list[i] = IF i \in 1 .. project.count THEN project.list[order[i]] ELSE project.list[i]
    BY <2>1
  <2> HIDE DEF list
  <2> QED BY <1>4, <2>1, <2>2
<1>7. \A v \in 1 .. project.count : \E i \in 1 .. project.count : order[i] = v
  <2>1. project.count \in Nat /\ \A i, j \in 1 .. project.count : order[i] = order[j] => i = j
    BY <1>1, <1>4
  <2> HIDE DEF project
  <2> QED BY <1>1, <2>1, OrderIsOnto
<1> HIDE DEF list
<1>8. Reordered(list, project.list, project.count)
  <2> SUFFICES ASSUME NEW i \in 1 .. MaxSongs
               PROVE  \E j \in 1 .. MaxSongs :
                        project.list[j] = list[i] /\ (j <= project.count <=> i <= project.count)
    BY DEF Reordered
  <2>1. CASE i \in 1 .. project.count
    BY <1>4, <1>6, <2>1
  <2>2. CASE i \notin 1 .. project.count
    BY <1>6, <2>2
  <2> QED BY <2>1, <2>2
<1>9. Reordered(project.list, list, project.count)
  <2> SUFFICES ASSUME NEW i \in 1 .. MaxSongs
               PROVE  \E j \in 1 .. MaxSongs :
                        list[j] = project.list[i] /\ (j <= project.count <=> i <= project.count)
    BY DEF Reordered
  <2>1. CASE i \in 1 .. project.count
    <3>1. PICK j \in 1 .. project.count : order[j] = i
      BY <1>7, <2>1
    <3> QED BY <1>4, <1>6, <2>1, <3>1
  <2>2. CASE i \notin 1 .. project.count
    BY <1>6, <2>2
  <2> QED BY <2>1, <2>2
<1> QED BY <1>5, <1>8, <1>9

\* Nothing more is to be done about a song.
LEMMA NoSongLeft ==
  ASSUME CatInv, NEW step, Doing(step), todo' = Tail(todo),
         step \in {"mark", "sort", "lastsong", "project", "addproject", "dropproject",
                   "lastproject", "allsongs"}
  PROVE  SongFits'
<1>1. \A s : HasStep(s)' => s \in After(step)
  BY DoingFacts
<1>2. \A s : HasStep(s)' => s \in {"addproject", "dropproject", "commit"}
  <2> HIDE DEF HasStep
  <2> QED BY <1>1 DEF After
<1> HIDE DEF HasStep
<1> QED BY <1>2 DEF SongFits

\* A project gets another order or song last used, or is filled anew.
LEMMA ProjectSafe ==
  ASSUME CatInv, SpaceInv, NEW step \in {"sort", "lastsong", "project"}, NEW new,
         Write(step, arg.project, new), arg.project \in ProjectBlocks, ListsOK(home)',
         arg.project \in ProjectsOf(home) =>
           /\ \A i \in 1 .. MaxSongs : i <= new.count /\ new.list[i] # None =>
                new.list[i] \in Listed(home)
           /\ new.last = None \/ \E i \in 1 .. MaxSongs : new.list[i] = new.last
  PROVE  SpaceInv'
<1>1. /\ Doing(step) /\ todo' = Tail(todo) /\ home' = [home EXCEPT ![arg.project] = new]
      /\ ListsOK(home) /\ LastListed(home) /\ step \in ListWriters
  BY DEF Write, CatInv, SpaceInv, ListWriters
<1>2. SongFits'
  BY <1>1, NoSongLeft
<1>3. /\ LastListed(home)' /\ Listed(home') \subseteq Listed(home) /\ arg.project \in ListBlocks
  <2>1. arg.project \in ProjectsOf(home) =>
          \A i \in 1 .. MaxSongs : i <= new.count /\ new.list[i] # None
                                   => new.list[i] \in Listed(home) \cup {}
    OBVIOUS
  <2> QED BY <1>1, <2>1, OneProject
<1> QED BY <1>1, <1>2, <1>3, ListSafe

LEMMA SortSafe == CatInv /\ SpaceInv /\ Sort => SpaceInv'
<1> SUFFICES ASSUME CatInv, SpaceInv, Sort PROVE SpaceInv'
  OBVIOUS
<1>1. PICK list :
        /\ Write("sort", arg.project,
                 [list |-> list, count |-> project.count, last |-> project.last])
        /\ Reordered(list, project.list, project.count)
        /\ Reordered(project.list, list, project.count)
  BY SortWrites
<1> DEFINE new == [list |-> list, count |-> project.count, last |-> project.last]
<1>2. HasStep("sort") /\ ListsOK(home) /\ ListsOK(home)' /\ LastListed(home)
  BY <1>1, DoingFacts, SortKeeps DEF Write, CatInv, SpaceInv
<1>3. arg.project \in ProjectsOf(home) /\ arg.project \in ProjectBlocks
  BY <1>2, ProjectsFacts DEF CatInv, ArgFits
<1>4. /\ Write("sort", arg.project, new)
      /\ new.list = list /\ new.count = project.count /\ new.last = project.last
  BY <1>1
<1> HIDE DEF new
<1>5. ASSUME NEW i \in 1 .. MaxSongs, i <= new.count, new.list[i] # None
      PROVE  new.list[i] \in Listed(home)
  <2>1. PICK j \in 1 .. MaxSongs : project.list[j] = list[i] /\ j <= project.count
    BY <1>1, <1>4, <1>5 DEF Reordered
  <2> QED BY <1>2, <1>3, <1>4, <1>5, <2>1, CountedAreListed DEF project
<1>6. ASSUME new.last # None
      PROVE  \E i \in 1 .. MaxSongs : new.list[i] = new.last
  <2>1. PICK v \in 1 .. MaxSongs : project.list[v] = project.last
    BY <1>2, <1>3, <1>4, <1>6 DEF LastListed, project
  <2> QED BY <1>1, <1>4, <2>1 DEF Reordered
<1> QED BY <1>2, <1>3, <1>4, <1>5, <1>6, ProjectSafe

LEMMA SaveLastSongSafe == CatInv /\ SpaceInv /\ SaveLastSong => SpaceInv'
<1> SUFFICES ASSUME CatInv, SpaceInv, SaveLastSong PROVE SpaceInv'
  OBVIOUS
<1> DEFINE new == [list |-> project.list, count |-> project.count, last |-> project.list[arg.id]]
<1>1. Write("lastsong", arg.project, [project EXCEPT !.last = project.list[arg.id]])
  BY DEF SaveLastSong
<1>2. HasStep("lastsong") /\ ListsOK(home) /\ ListsOK(home)'
  BY <1>1, DoingFacts, SaveLastSongKeeps DEF Write, CatInv
<1>3. arg.project \in ProjectsOf(home) /\ arg.id \in 1 .. MaxSongs
  BY <1>2 DEF CatInv, ArgFits
<1>4. /\ arg.project \in ProjectBlocks
      /\ project = [list |-> project.list, count |-> project.count, last |-> project.last]
  BY <1>2, <1>3, ProjectFacts DEF project
<1>5. Write("lastsong", arg.project, new)
  <2>1. [project EXCEPT !.last = project.list[arg.id]] = new
    BY <1>4
  <2> QED BY <1>1, <2>1
<1>6. new.list = project.list /\ new.count = project.count /\ new.last = project.list[arg.id]
  OBVIOUS
<1> HIDE DEF new
<1>7. \A i \in 1 .. MaxSongs : i <= new.count /\ new.list[i] # None => new.list[i] \in Listed(home)
  BY <1>2, <1>3, <1>6, CountedAreListed DEF project
<1>8. \E i \in 1 .. MaxSongs : new.list[i] = new.last
  BY <1>3, <1>6
<1> QED BY <1>2, <1>4, <1>5, <1>7, <1>8, ProjectSafe

LEMMA WriteProjectSafe == CatInv /\ SpaceInv /\ WriteProject => SpaceInv'
<1> SUFFICES ASSUME CatInv, SpaceInv, WriteProject PROVE SpaceInv'
  OBVIOUS
<1>1. Write("project", arg.project, NewProject) /\ ListsOK(home)'
  BY WriteProjectKeeps DEF WriteProject, CatInv
<1>2. HasStep("project")
  BY <1>1, DoingFacts DEF Write
<1>3. arg.project \in ProjectBlocks /\ arg.project \notin ProjectsOf(home)
  BY <1>2 DEF CatInv, ArgFits, NewProjectFits
<1> QED BY <1>1, <1>3, ProjectSafe

\* The list of projects is written.
LEMMA InfoSafe ==
  ASSUME CatInv, SpaceInv, NEW step \in {"addproject", "dropproject", "lastproject"}, NEW new,
         Write(step, DriveInfo, new), ListsOK(home)',
         \A i \in 1 .. MaxProjects : new.list[i] = None \/ new.list[i] \in ProjectsOf(home)
                                     \/ home[new.list[i]] = NewProject
  PROVE  SpaceInv'
<1>1. /\ Doing(step) /\ todo' = Tail(todo) /\ home' = [home EXCEPT ![DriveInfo] = new]
      /\ ListsOK(home) /\ LastListed(home) /\ step \in ListWriters /\ DriveInfo \in ListBlocks
  BY DEF Write, CatInv, SpaceInv, ListWriters, ListBlocks
<1>2. SongFits'
  BY <1>1, NoSongLeft
<1>3. home'[DriveInfo] = new /\ \A p \in ProjectBlocks : home'[p] = home[p]
  BY <1>1, BlockFacts DEF ListsOK, ListTypes
<1>4. ASSUME NEW p \in ProjectsOf(home')
      PROVE  /\ \/ p \in ProjectsOf(home)
                \/ home[p].last = None /\ \A i \in 1 .. MaxSongs : home[p].list[i] = None
             /\ home'[p] = home[p]
  <2>1. p # None /\ (\E i \in 1 .. MaxProjects : home'[DriveInfo].list[i] = p) /\ p \in ProjectBlocks
    BY <1>4, ProjectsFacts
  <2>2. p \in ProjectsOf(home) \/ home[p] = NewProject
    BY <1>3, <2>1
  <2>3. NewProject.last = None /\ \A i \in 1 .. MaxSongs : NewProject.list[i] = None
    BY DEF NewProject, EmptyList
  <2> QED BY <1>3, <2>1, <2>2, <2>3
<1>5. LastListed(home)'
  <2> SUFFICES ASSUME NEW p \in ProjectsOf(home')
               PROVE  \/ home'[p].last = None
                      \/ \E i \in 1 .. MaxSongs : home'[p].list[i] = home'[p].last
    BY DEF LastListed
  <2> QED BY <1>1, <1>4 DEF LastListed
<1>6. ASSUME NEW s \in Listed(home')
      PROVE  s \in Listed(home)
  <2>1. s # None /\ \E p \in ProjectsOf(home') : \E i \in 1 .. MaxSongs :
                      i <= home'[p].count /\ home'[p].list[i] = s
    BY <1>6, ListedAre
  <2>2. PICK p \in ProjectsOf(home') : \E i \in 1 .. MaxSongs :
                      i <= home'[p].count /\ home'[p].list[i] = s
    BY <2>1
  <2>3. PICK i \in 1 .. MaxSongs : i <= home'[p].count /\ home'[p].list[i] = s
    BY <2>2
  <2>4. p \in ProjectsOf(home) /\ home'[p] = home[p]
    BY <1>4, <2>1, <2>3
  <2> QED BY <1>1, <2>1, <2>3, <2>4, ListedAre
<1> QED BY <1>1, <1>2, <1>5, <1>6, ListSafe

LEMMA AddProjectSafe == CatInv /\ SpaceInv /\ AddProject => SpaceInv'
<1> SUFFICES ASSUME CatInv, SpaceInv, AddProject PROVE SpaceInv'
  OBVIOUS
<1> DEFINE info == home[DriveInfo]
           list == [info.list EXCEPT ![arg.id] = arg.project]
           new == [list |-> list, count |-> info.count + 1, last |-> arg.project]
<1>1. /\ Write("addproject", DriveInfo, new) /\ Doing("addproject") /\ todo' = Tail(todo)
      /\ ListsOK(home) /\ ListsOK(home)'
  BY AddProjectKeeps DEF AddProject, Write, CatInv
<1>2. /\ HasStep("addproject") /\ \A s : HasStep(s)' => s \in After("addproject")
      /\ \A s : HasStep(s) => s = "addproject" \/ HasStep(s)'
  BY <1>1, DoingFacts
<1>3. home[arg.project] = NewProject
  <2>1. ~HasStep("project")
    <3> HIDE DEF HasStep
    <3> QED BY <1>2 DEF After
  <2> QED BY <1>2, <2>1 DEF CatInv, ArgFits
<1>4. /\ DOMAIN info.list = 1 .. MaxProjects
      /\ \A i \in 1 .. MaxProjects : info.list[i] # None => info.list[i] \in ProjectsOf(home)
  BY <1>1, InfoFacts
<1> HIDE DEF info
<1>5. \A i \in 1 .. MaxProjects : new.list[i] \in {arg.project, info.list[i]}
  BY <1>4
<1> HIDE DEF new
<1> QED BY <1>1, <1>3, <1>4, <1>5, InfoSafe

LEMMA DropProjectSafe == CatInv /\ SpaceInv /\ DropProject => SpaceInv'
<1> SUFFICES ASSUME CatInv, SpaceInv, DropProject PROVE SpaceInv'
  OBVIOUS
<1> DEFINE info == home[DriveInfo]
           projid == CHOOSE i \in 1 .. MaxProjects : info.list[i] = arg.project
           list == Without(info.list, projid)
           new == [list |-> list, count |-> info.count - 1, last |-> list[1]]
<1>1. Write("dropproject", DriveInfo, new) /\ ListsOK(home) /\ ListsOK(home)'
  BY DropProjectKeeps DEF DropProject, CatInv
<1>2. /\ DOMAIN info.list = 1 .. MaxProjects
      /\ \A i \in 1 .. MaxProjects : info.list[i] # None => info.list[i] \in ProjectsOf(home)
  BY <1>1, InfoFacts
<1> HIDE DEF info, projid
<1>3. \A i \in 1 .. MaxProjects : list[i] = None \/ \E j \in 1 .. MaxProjects : list[i] = info.list[j]
  BY <1>2 DEF Without
<1>4. new.list = list
  OBVIOUS
<1> HIDE DEF list, new
<1> QED BY <1>1, <1>2, <1>3, <1>4, InfoSafe

LEMMA SaveLastProjectSafe == CatInv /\ SpaceInv /\ SaveLastProject => SpaceInv'
<1> SUFFICES ASSUME CatInv, SpaceInv, SaveLastProject PROVE SpaceInv'
  OBVIOUS
<1> DEFINE info == home[DriveInfo]
           new == [list |-> info.list, count |-> info.count, last |-> arg.project]
<1>1. /\ Write("lastproject", DriveInfo, [info EXCEPT !.last = arg.project])
      /\ ListsOK(home) /\ ListsOK(home)'
  BY SaveLastProjectKeeps DEF SaveLastProject, CatInv
<1>2. /\ info = [list |-> info.list, count |-> info.count, last |-> info.last]
      /\ \A i \in 1 .. MaxProjects : info.list[i] # None => info.list[i] \in ProjectsOf(home)
  BY <1>1, InfoFacts
<1> HIDE DEF info
<1>3. [info EXCEPT !.last = arg.project] = new /\ new.list = info.list
  BY <1>2
<1>4. Write("lastproject", DriveInfo, new)
  BY <1>1, <1>3
<1> HIDE DEF new
<1> QED BY <1>1, <1>2, <1>3, <1>4, InfoSafe

------------------------------------------------------------------------------
(* Operations begin. *)

\* What is to be done changes, and nothing else.
LEMMA OnlySteps ==
  ASSUME CatInv, SpaceInv, running, ~HasStep("mark"), UNCHANGED <<home, backup, running>>,
         Paired(todo)', Settles', SongFits'
  PROVE  SpaceInv'
<1>1. \A k \in Nat : Mix(k)' = Mix(k)
  BY DEF Mix
<1>2. \A k \in Nat : SpaceOK(Mix(k))'
  BY <1>1 DEF SpaceInv
<1>3. SpaceOK(backup)' /\ LastListed(home)' /\ LastListed(backup)'
  BY DEF SpaceInv
<1> HIDE DEF HasStep
<1> QED BY <1>2, <1>3 DEF SpaceInv

LEMMA BegunSafe ==
  ASSUME CatInv, SpaceInv, NEW steps, Paired(steps), NEW p, NEW id, NEW s, NEW space,
         Begin(steps, p, id, s, space), SongFits'
  PROVE  SpaceInv'
<1>1. /\ running /\ todo = <<>> /\ todo' = steps /\ UNCHANGED <<home, backup, running>>
  BY DEF Begin, Idle
<1>2. OutOfStep = {} /\ OutOfStep' = {}
  BY <1>1 DEF SpaceInv, Settles, OutOfStep
<1>3. Settles'
  <2> HIDE DEF HasStep
  <2> QED BY <1>2 DEF Settles, Settled
<1>4. Paired(todo)'
  BY <1>1
<1>5. ~HasStep("mark")
  BY <1>1 DEF HasStep
<1> QED BY <1>1, <1>3, <1>4, <1>5, OnlySteps

\* An operation that does nothing to the clusters of a song.
LEMMA NoSongBegun ==
  ASSUME NEW steps, StepsFit(steps), todo' = steps, NEW first, steps[1] = first,
         first \in {"sort", "lastsong", "project", "allsongs", "lastproject"}
  PROVE  SongFits'
<1>1. \A step : HasStep(step)' => step = first \/ step \in After(first)
  BY StepsOfBegun
<1>2. \A step : HasStep(step)' => step \in {"sort", "lastsong", "project", "allsongs",
                                            "lastproject", "addproject", "dropproject", "commit"}
  <2> HIDE DEF HasStep
  <2> QED BY <1>1 DEF After
<1> HIDE DEF HasStep
<1> QED BY <1>2 DEF SongFits

\* The song last used is one of the list, so that createsong selects the new one.
LEMMA NewSongSelected ==
  ASSUME CatInv, SpaceInv, Idle, NEW p \in ProjectsOf(home), NEW slot \in 1 .. MaxSongs,
         home[p].list[slot] = None, NEW s \in Songs \ Listed(home)
  PROVE  slot # LastSongId([home[p] EXCEPT !.list[slot] = s])
<1> DEFINE listed == [home[p] EXCEPT !.list[slot] = s]
           ids == {i \in 1 .. MaxSongs : listed.list[i] = listed.last}
<1>1. /\ home[p].list \in [1 .. MaxSongs -> Songs \cup {None}] /\ ListsOK(home)
      /\ home[p] = [list |-> home[p].list, count |-> home[p].count, last |-> home[p].last]
      /\ \A i \in 1 .. MaxSongs : home[p].list[i] # None <=> i <= home[p].count
  BY IdleFacts, ProjectFacts
<1>2. /\ listed.last = home[p].last /\ listed.list[slot] = s
      /\ \A i \in 1 .. MaxSongs : i # slot => listed.list[i] = home[p].list[i]
  BY <1>1
<1>3. home[p].last = None \/ \E i \in 1 .. MaxSongs : home[p].list[i] = home[p].last
  BY DEF SpaceInv, LastListed
<1> HIDE DEF listed
<1>4. CASE home[p].last = None
  <2>1. LastSongId(listed) = -1
    BY <1>2, <1>4 DEF LastSongId
  <2> QED BY <2>1, BlockFacts DEF listed
<1>5. CASE home[p].last # None
  <2>1. PICK i \in 1 .. MaxSongs : home[p].list[i] = home[p].last
    BY <1>3, <1>5
  <2>2. i # slot /\ home[p].last \in Listed(home)
    BY <1>1, <1>5, <2>1, CountedAreListed
  <2>3. i \in ids /\ slot \notin ids
    BY <1>2, <2>1, <2>2
  <2>4. ids \in SUBSET Nat
    BY BlockFacts
  <2>5. Least(ids) \in ids
    <3> HIDE DEF ids
    <3> QED BY <2>3, <2>4, LeastIsLeast
  <2>6. LastSongId(listed) = Least(ids)
    <3>1. ids # {} /\ listed.last # None
      BY <1>2, <1>5, <2>3
    <3> QED BY <3>1, Zenon DEF LastSongId
  <2> HIDE DEF ids
  <2> QED BY <2>3, <2>5, <2>6 DEF listed
<1> QED BY <1>4, <1>5

\* Createsong always selects the new song.
LEMMA CreateSongSelects ==
  ASSUME CatInv, SpaceInv, NEW p \in ProjectsOf(home), CreateSong(p)
  PROVE  \E slot \in 1 .. MaxSongs : \E s : Begin(CreateSongSteps(TRUE), p, slot, s, {})
<1> DEFINE slot == Least(Unused(home[p].list))
           s == Least(FreeSongs)
<1>1. Idle
  BY DEF CreateSong, Begin
<1>2. PICK selected \in BOOLEAN :
        /\ selected <=> slot # LastSongId([home[p] EXCEPT !.list[slot] = s])
        /\ Unused(home[p].list) # {} /\ FreeSongs # {}
        /\ Begin(CreateSongSteps(selected), p, slot, s, {})
  BY DEF CreateSong
<1>3. slot \in 1 .. MaxSongs /\ home[p].list[slot] = None
  <2>1. home[p].list \in [1 .. MaxSongs -> Songs \cup {None}]
    BY <1>1, IdleFacts DEF SongList
  <2>2. Unused(home[p].list) = {i \in 1 .. MaxSongs : home[p].list[i] = None}
    BY <2>1 DEF Unused
  <2>3. Unused(home[p].list) \in SUBSET Nat
    BY <2>2
  <2>4. slot \in Unused(home[p].list)
    BY <1>2, <2>3, LeastIsLeast
  <2> HIDE DEF slot
  <2> QED BY <2>2, <2>4
<1>4. s \in Songs \ Listed(home)
  <2>1. FreeSongs \in SUBSET Nat
    BY BlockFacts DEF FreeSongs
  <2>2. s \in FreeSongs
    BY <1>2, <2>1, LeastIsLeast
  <2> QED BY <2>2 DEF FreeSongs
<1> HIDE DEF slot, s
<1>5. selected = TRUE
  BY <1>1, <1>2, <1>3, <1>4, NewSongSelected
<1> QED BY <1>2, <1>3, <1>5

LEMMA CreateSongSafe ==
  ASSUME CatInv, SpaceInv, NEW p \in ProjectsOf(home), CreateSong(p)
  PROVE  SpaceInv'
<1> DEFINE steps == CreateSongSteps(TRUE)
<1>1. PICK slot, s : Begin(steps, p, slot, s, {}) /\ todo' = steps
  BY CreateSongSelects DEF Begin
<1>2. /\ StepsFit(steps) /\ steps[1] = "record" /\ Paired(steps)
      /\ \E i \in 1 .. Len(steps) : steps[i] = "enlist"
  BY BeginningsFit, BeginningsPaired
<1> HIDE DEF steps
<1>3. \A step : HasStep(step)' => step = "record" \/ step \in After("record")
  BY <1>1, <1>2, StepsOfBegun
<1>4. HasStep("record")' /\ HasStep("enlist")'
  <2>1. 1 \in 1 .. Len(steps)
    BY <1>2 DEF StepsFit
  <2> QED BY <1>1, <1>2, <2>1 DEF HasStep
<1>5. SongFits'
  <2> HIDE DEF HasStep
  <2> QED BY <1>3, <1>4 DEF SongFits, After
<1> QED BY <1>1, <1>2, <1>5, BegunSafe

LEMMA DeleteSongSafe ==
  ASSUME CatInv, SpaceInv, NEW p \in ProjectsOf(home), NEW id \in 1 .. MaxSongs, DeleteSong(p, id)
  PROVE  SpaceInv'
<1> DEFINE steps == DeleteSongSteps
<1>1. /\ Begin(steps, p, id, home[p].list[id], {}) /\ todo' = steps
      /\ arg'.song = home'[arg'.project].list[arg'.id]
  BY DEF DeleteSong, Begin
<1>2. StepsFit(steps) /\ steps[1] = "unlist" /\ Paired(steps) /\ 1 \in 1 .. Len(steps)
  BY BeginningsFit, BeginningsPaired DEF DeleteSongSteps
<1> HIDE DEF steps
<1>3. /\ \A step : HasStep(step)' => step = "unlist" \/ step \in After("unlist")
      /\ HasStep("unlist")'
  BY <1>1, <1>2, StepsOfBegun DEF HasStep
<1>4. SongFits'
  <2> HIDE DEF HasStep
  <2> QED BY <1>1, <1>3 DEF SongFits, After, project
<1> QED BY <1>1, <1>2, <1>4, BegunSafe

LEMMA LengthenSongSafe ==
  ASSUME CatInv, SpaceInv, NEW p \in ProjectsOf(home), NEW id \in 1 .. MaxSongs,
         NEW space \in SUBSET Clusters, LengthenSong(p, id, space)
  PROVE  SpaceInv'
<1> DEFINE steps == LengthenSteps
<1>1. /\ Begin(steps, p, id, home[p].list[id], space) /\ todo' = steps
      /\ Idle /\ UNCHANGED <<home, backup>> /\ id \in 1 .. home[p].count
      /\ space \cap home[DriveUsage] = {}
      /\ arg'.song = home[p].list[id] /\ arg'.space = space
  BY DEF LengthenSong, Begin
<1>2. home[p].list[id] \in Songs
  <2>1. home[p].list \in [1 .. MaxSongs -> Songs \cup {None}] /\ home[p].list[id] # None
    BY <1>1, ProjectFacts DEF CatInv
  <2> QED BY <2>1
<1>3. OutOfStep' = {}
  BY <1>1 DEF SpaceInv, Settles, OutOfStep, Idle
<1>4. /\ StepsFit(steps) /\ steps[1] = "grow" /\ Paired(steps) /\ 1 \in 1 .. Len(steps)
      /\ \E i \in 1 .. Len(steps) : steps[i] = "mark"
  BY BeginningsFit, BeginningsPaired DEF LengthenSteps
<1> HIDE DEF steps
<1>5. /\ \A step : HasStep(step)' => step = "grow" \/ step \in After("grow")
      /\ HasStep("grow")' /\ HasStep("mark")'
  BY <1>1, <1>4, StepsOfBegun DEF HasStep
<1>6. SongFits'
  <2> HIDE DEF HasStep
  <2> QED BY <1>1, <1>2, <1>3, <1>5 DEF SongFits, After
<1> QED BY <1>1, <1>4, <1>6, BegunSafe

LEMMA OtherBegun ==
  ASSUME CatInv, SpaceInv,
         \/ \E p \in ProjectsOf(home) :
              SortSongs(p) \/ \E id \in 1 .. MaxSongs : SelectSong(p, id)
         \/ CreateProject
         \/ \E id \in 1 .. home[DriveInfo].count : DeleteProject(id) \/ SelectProject(id)
  PROVE  SpaceInv'
<1>1. ASSUME NEW steps, NEW p, NEW id, StepsFit(steps), Paired(steps),
             steps[1] \in {"sort", "lastsong", "project", "allsongs", "lastproject"},
             Begin(steps, p, id, None, {})
      PROVE  SpaceInv'
  <2>1. todo' = steps
    BY <1>1 DEF Begin
  <2>2. SongFits'
    BY <1>1, <2>1, NoSongBegun
  <2> QED BY <1>1, <2>2, BegunSafe
<1>2. \E steps \in {<<"sort", "commit">>, <<"lastsong", "commit">>, <<"lastproject", "commit">>,
                    CreateProjectSteps, DeleteProjectSteps} :
        \E p, id : Begin(steps, p, id, None, {})
  BY DEF SortSongs, SelectSong, CreateProject, DeleteProject, SelectProject
<1>3. PICK steps \in {<<"sort", "commit">>, <<"lastsong", "commit">>, <<"lastproject", "commit">>,
                      CreateProjectSteps, DeleteProjectSteps} :
        \E p, id : Begin(steps, p, id, None, {})
  BY <1>2
<1>4. /\ StepsFit(steps) /\ Paired(steps)
      /\ steps[1] \in {"sort", "lastsong", "project", "allsongs", "lastproject"}
  <2>1. CreateProjectSteps[1] = "project" /\ DeleteProjectSteps[1] = "allsongs"
    BY DEF CreateProjectSteps, DeleteProjectSteps
  <2> QED BY <1>3, <2>1, BeginningsFit, BeginningsPaired
<1> QED BY <1>1, <1>3, <1>4

LEMMA DeleteSongsSafe == CatInv /\ SpaceInv /\ DeleteSongs => SpaceInv'
<1> SUFFICES ASSUME CatInv, SpaceInv, DeleteSongs PROVE SpaceInv'
  OBVIOUS
<1>1. /\ Doing("allsongs") /\ running /\ todo # <<>> /\ Head(todo) = "allsongs"
      /\ UNCHANGED <<home, backup, running>> /\ Paired(todo) /\ StepsFit(todo)
      /\ arg \in ArgContent
  BY DEF DeleteSongs, Doing, CatInv, SpaceInv
<1>2. ~HasStep("mark")
  BY <1>1, NothingGrows
<1>3. CASE todo' = DeleteSongSteps \o todo /\ arg' = [arg EXCEPT !.id = 1, !.song = project.list[1]]
  <2>1. /\ HasStep("unlist")'
        /\ \A step : HasStep(step)' =>
             step \in {"unlist", "usage", "songs", "unmark", "commit", "allsongs", "dropproject"}
    <3>1. \A step : HasStep(step)' =>
             step \in {"unlist", "usage", "songs", "unmark", "commit", "allsongs", "dropproject"}
      BY <1>1, <1>3, OneMoreSong
    <3>2. todo'[1] = "unlist" /\ 1 \in 1 .. Len(todo')
      BY <1>1, <1>3 DEF StepsFit, DeleteSongSteps
    <3> QED BY <3>1, <3>2 DEF HasStep
  <2>2. arg'.song = project'.list[arg'.id]
    BY <1>1, <1>3 DEF ArgContent, project
  <2>3. Paired(todo)'
    BY <1>1, <1>3, MoreSongsPaired
  <2>4. todo' # <<>>
    BY <1>1, <1>3 DEF StepsFit, DeleteSongSteps
  <2> HIDE DEF HasStep
  <2>5. Settles'
    BY <2>1, <2>4 DEF Settles, Settled
  <2>6. SongFits'
    BY <2>1, <2>2 DEF SongFits
  <2> QED BY <1>1, <1>2, <2>3, <2>5, <2>6, OnlySteps
<1>4. CASE todo' = Tail(todo)
  <2>1. SongFits'
    BY <1>1, <1>4, NoSongLeft
  <2>2. Paired(todo)' /\ todo' # <<>>
    BY <1>1, <1>4, PairsKept
  <2>3. \A step : HasStep(step)' => step \in {"dropproject", "commit"}
    <3>1. \A s : HasStep(s)' => s \in After("allsongs")
      BY <1>1, <1>4, DoingFacts
    <3> HIDE DEF HasStep
    <3> QED BY <3>1 DEF After
  <2> HIDE DEF HasStep
  <2>4. Settles'
    BY <2>2, <2>3 DEF Settles
  <2> QED BY <1>1, <1>2, <2>1, <2>2, <2>4, OnlySteps
<1> QED BY <1>3, <1>4 DEF DeleteSongs

------------------------------------------------------------------------------
(* Commits, stops and what comes after. *)

LEMMA CommitBlockSafe == CatInv /\ SpaceInv /\ CommitBlock => SpaceInv'
<1> SUFFICES ASSUME CatInv, SpaceInv, CommitBlock PROVE SpaceInv'
  OBVIOUS
<1>1. /\ Doing("commit") /\ running /\ todo # <<>> /\ Head(todo) = "commit"
      /\ backup' = [backup EXCEPT ![NextBlock] = home[NextBlock]]
      /\ UNCHANGED <<home, todo, arg, running>> /\ OutOfStep # {}
      /\ ListsOK(home) /\ ListsOK(backup) /\ DOMAIN backup = Blocks
  BY DEF CommitBlock, Doing, CatInv, ListsOK, ListTypes
<1>2. ~HasStep("mark") /\ ~HasStep("grow") /\ \A k \in Nat : SpaceOK(Mix(k))
  <2>1. ~HasStep("mark") /\ ~HasStep("grow")
    BY <1>1, NothingGrows
  <2> QED BY <1>1, <2>1 DEF SpaceInv
<1>3. PICK b : b = NextBlock
  OBVIOUS
<1>4. /\ b \in Blocks /\ b \in Nat
      /\ \A c \in Blocks : c < b => home[c] = backup[c]
      /\ \A c \in Blocks : c \in Nat
      /\ \A c \in Blocks : backup'[c] = IF c = b THEN home[c] ELSE backup[c]
  <2>1. OutOfStep \in SUBSET Nat /\ OutOfStep \subseteq Blocks /\ Blocks \subseteq Nat
    BY BlockFacts DEF OutOfStep
  <2>2. b \in OutOfStep /\ \A c \in OutOfStep : b <= c
    BY <1>1, <1>3, <2>1, LeastIsLeast DEF NextBlock
  <2>3. \A c \in Blocks : c < b => home[c] = backup[c]
    <3> SUFFICES ASSUME NEW c \in Blocks, c < b, home[c] # backup[c] PROVE FALSE
      OBVIOUS
    <3>1. c \in OutOfStep
      BY DEF OutOfStep
    <3>2. b <= c /\ b \in Nat /\ c \in Nat
      BY <2>1, <2>2, <3>1
    <3> QED BY <3>2
  <2>4. \A c \in Blocks : backup'[c] = IF c = b THEN home[c] ELSE backup[c]
    BY <1>1, <1>3
  <2> QED BY <2>1, <2>2, <2>3, <2>4
<1>5. b + 1 \in Nat /\ \A c \in Blocks : backup'[c] = Mix(b + 1)[c]
  <2>1. b + 1 \in Nat
    BY <1>4
  <2>2. \A c \in Blocks : Mix(b + 1)[c] = IF c < b + 1 THEN home[c] ELSE backup[c]
    BY <2>1, MixFacts
  <2> QED BY <1>4, <2>1, <2>2
<1>6. SpaceOK(backup)'
  <2>1. ListsOK(Mix(b + 1)) /\ SpaceOK(Mix(b + 1))
    BY <1>2, <1>5, MixFacts
  <2> QED BY <1>5, <2>1, SameSafe
<1>7. ASSUME NEW k \in Nat
      PROVE  SpaceOK(Mix(k))'
  <2>1. \A c \in Blocks : Mix(k)'[c] = IF c < k THEN home[c] ELSE backup'[c]
    BY <1>1 DEF Mix
  <2>2. \A c \in Blocks : Mix(k)[c] = IF c < k THEN home[c] ELSE backup[c]
    BY MixFacts
  <2>3. \/ \A c \in Blocks : Mix(k)'[c] = Mix(k)[c]
        \/ \A c \in Blocks : Mix(k)'[c] = backup'[c]
    <3>1. CASE b < k
      BY <1>4, <2>1, <2>2, <3>1
    <3>2. CASE k <= b
      BY <1>4, <2>1, <3>2
    <3> QED BY <1>4, <3>1, <3>2
  <2>4. \/ \A c \in Blocks : Mix(k)'[c] = Mix(k)[c]
        \/ \A c \in Blocks : Mix(k)'[c] = Mix(b + 1)[c]
    BY <1>5, <2>3
  <2>5. /\ ListsOK(Mix(k)) /\ SpaceOK(Mix(k))
        /\ ListsOK(Mix(b + 1)) /\ SpaceOK(Mix(b + 1))
    BY <1>2, <1>5, MixFacts
  <2> QED BY <2>4, <2>5, SameSafe
<1>8. LastListed(backup)'
  <2>1. \/ \A c \in ListBlocks : backup'[c] = home[c]
        \/ \A c \in ListBlocks : backup'[c] = backup[c]
    <3>1. ListBlocks \subseteq Blocks
      BY BlockFacts
    <3>2. CASE b \in ListBlocks /\ home[b] # backup[b]
      <4>1. \A c \in ListBlocks : c # b => home[c] = backup[c]
        BY <3>2 DEF CatInv
      <4> QED BY <1>4, <3>1, <4>1
    <3>3. CASE ~(b \in ListBlocks /\ home[b] # backup[b])
      BY <1>4, <3>1, <3>3
    <3> QED BY <3>2, <3>3
  <2>2. LastListed(home) /\ LastListed(backup)
    BY DEF SpaceInv
  <2> QED BY <1>1, <2>1, <2>2, ListedSame
<1>9. \A step : HasStep(step)' <=> HasStep(step)
  BY <1>1 DEF HasStep
<1>10. SongFits'
  <2>1. SongFits
    BY DEF SpaceInv
  <2> HIDE DEF HasStep
  <2> QED BY <1>1, <1>2, <1>9, <2>1 DEF SongFits, project
<1>11. Paired(todo)' /\ Settles' /\ LastListed(home)'
  <2>1. Paired(todo) /\ LastListed(home)
    BY DEF SpaceInv
  <2> HIDE DEF HasStep
  <2> QED BY <1>1, <2>1 DEF Settles, Settled
<1> HIDE DEF HasStep
<1> QED BY <1>6, <1>7, <1>8, <1>10, <1>11 DEF SpaceInv

LEMMA EndCommitSafe == CatInv /\ SpaceInv /\ EndCommit => SpaceInv'
<1> SUFFICES ASSUME CatInv, SpaceInv, EndCommit PROVE SpaceInv'
  OBVIOUS
<1>1. /\ Doing("commit") /\ running /\ todo # <<>> /\ todo' = Tail(todo) /\ OutOfStep = {}
      /\ UNCHANGED <<home, backup, arg, running>> /\ Paired(todo) /\ StepsFit(todo) /\ SongFits
  BY DEF EndCommit, Doing, CatInv, SpaceInv
<1>2. ~HasStep("mark") /\ ~HasStep("grow")
  BY <1>1, NothingGrows
<1>3. \A s : s # "commit" => (HasStep(s)' <=> HasStep(s))
  <2>1. \A s : (HasStep(s)' => HasStep(s)) /\ (HasStep(s) => s = "commit" \/ HasStep(s)')
    BY <1>1, DoingFacts
  <2> HIDE DEF HasStep
  <2> QED BY <2>1
<1>4. Paired(todo)'
  BY <1>1, PairsKept
<1>5. OutOfStep' = {}
  BY <1>1 DEF OutOfStep
<1> HIDE DEF HasStep
<1>6. Settles'
  BY <1>5 DEF Settles, Settled
<1>7. SongFits'
  BY <1>1, <1>2, <1>3 DEF SongFits, project
<1> QED BY <1>1, <1>2, <1>4, <1>6, <1>7, OnlySteps

LEMMA NoStepsFit ==
  ASSUME todo' = <<>>
  PROVE  SongFits' /\ Paired(todo)'
<1>1. \A step : ~HasStep(step)'
  BY DEF HasStep
<1>2. Paired(todo)'
  BY BeginningsPaired
<1> HIDE DEF HasStep
<1> QED BY <1>1, <1>2 DEF SongFits

LEMMA StopSafe == CatInv /\ SpaceInv /\ (Stop \/ Repair) => SpaceInv'
<1> SUFFICES ASSUME CatInv, SpaceInv, Stop \/ Repair PROVE SpaceInv'
  OBVIOUS
<1>1. /\ todo' = <<>> /\ ~running' /\ UNCHANGED backup
      /\ home' = home \/ home' = backup
  BY DEF Stop, Repair, CatInv
<1>2. SongFits' /\ Paired(todo)'
  BY <1>1, NoStepsFit
<1>3. SpaceOK(backup)' /\ LastListed(home)' /\ LastListed(backup)'
  BY <1>1 DEF SpaceInv
<1> QED BY <1>1, <1>2, <1>3 DEF SpaceInv

LEMMA OpenSafe == ASSUME ~DirtyReopen, CatInv, SpaceInv, Open PROVE SpaceInv'
<1>1. /\ OutOfStep = {} /\ todo = <<>> /\ todo' = <<>> /\ UNCHANGED <<home, backup, arg>>
      /\ ListsOK(backup) /\ SpaceOK(backup) /\ LastListed(home) /\ LastListed(backup)
  BY DEF Open, CatInv, SpaceInv
<1>2. SongFits' /\ Paired(todo)'
  BY <1>1, NoStepsFit
<1>3. Settles'
  <2>1. OutOfStep' = {}
    BY <1>1 DEF OutOfStep
  <2> HIDE DEF HasStep
  <2> QED BY <2>1 DEF Settles, Settled
<1>4. ASSUME NEW k \in Nat
      PROVE  SpaceOK(Mix(k))'
  <2>1. \A b \in Blocks : Mix(k)'[b] = backup[b]
    BY <1>1 DEF Mix, OutOfStep
  <2> QED BY <1>1, <2>1, SameSafe
<1>5. SpaceOK(backup)' /\ LastListed(home)' /\ LastListed(backup)'
  BY <1>1
<1> HIDE DEF HasStep
<1> QED BY <1>2, <1>3, <1>4, <1>5 DEF SpaceInv

LEMMA NothingSafe == CatInv /\ SpaceInv /\ UNCHANGED vars => SpaceInv'
BY DEF vars, SpaceInv, Paired, Settles, Settled, OutOfStep, Mix, SongFits, HasStep, project

LEMMA InitListsNone ==
  ASSUME Init
  PROVE  /\ Listed(home) = {} /\ \A p \in ProjectsOf(home) : home[p].last = None
         /\ backup = home /\ todo = <<>> /\ ListsOK(home)
<1>1. /\ backup = home /\ todo = <<>> /\ ListsOK(home)
      /\ \A p \in ProjectBlocks : home[p] = NewProject
  <2>1. ListsOK(home)
    BY InitFits DEF CatInv
  <2>2. \A p \in ProjectBlocks : p \notin {Superblock, DriveInfo, SongUsage, DriveUsage} \cup Songs
    BY CatalogAssumption DEF ProjectBlocks, Songs, FirstSong, FirstProject, Superblock,
                             DriveInfo, SongUsage, DriveUsage
  <2>3. \A p \in ProjectBlocks : home[p] = NewProject
    BY <2>2, BlockFacts DEF Init
  <2> QED BY <2>1, <2>3 DEF Init
<1>2. \A p \in ProjectsOf(home) : home[p].count = 0 /\ home[p].last = None
  BY <1>1, ProjectsFacts DEF NewProject
<1>3. Listed(home) = {}
  <2>1. \A s : s \notin Listed(home)
    <3> SUFFICES ASSUME NEW s \in Listed(home) PROVE FALSE
      OBVIOUS
    <3>1. PICK p \in ProjectsOf(home) : \E i \in 1 .. MaxSongs : i <= home[p].count
      BY <1>1, ListedAre
    <3>2. PICK i \in 1 .. MaxSongs : i <= 0
      BY <1>2, <3>1
    <3> QED BY <3>2
  <2> QED BY <2>1
<1> QED BY <1>1, <1>2, <1>3

LEMMA InitSafe == Init => SpaceInv
<1> SUFFICES ASSUME Init PROVE SpaceInv
  OBVIOUS
<1>1. /\ Listed(home) = {} /\ \A p \in ProjectsOf(home) : home[p].last = None
      /\ backup = home /\ todo = <<>> /\ ListsOK(home)
  BY InitListsNone
<1>2. SpaceOK(home) /\ LastListed(home)
  BY <1>1 DEF SpaceOK, LastListed
<1>3. \A k \in Nat : SpaceOK(Mix(k))
  <2> SUFFICES ASSUME NEW k \in Nat PROVE SpaceOK(Mix(k))
    OBVIOUS
  <2>1. \A b \in Blocks : Mix(k)[b] = home[b]
    BY <1>1 DEF Mix
  <2> QED BY <1>1, <1>2, <2>1, SameSafe
<1>4. Settles
  <2>1. OutOfStep = {}
    BY <1>1 DEF OutOfStep
  <2> HIDE DEF HasStep
  <2> QED BY <2>1 DEF Settles, Settled
<1>5. SongFits /\ Paired(todo)
  <2>1. \A step : ~HasStep(step)
    BY <1>1 DEF HasStep
  <2>2. Paired(todo)
    BY <1>1, BeginningsPaired
  <2> HIDE DEF HasStep
  <2> QED BY <2>1, <2>2 DEF SongFits
<1> HIDE DEF HasStep
<1> QED BY <1>1, <1>2, <1>3, <1>4, <1>5 DEF SpaceInv

\* Whatever runs, and wherever a stop comes.
LEMMA ClustersKept ==
  ASSUME ~DirtyReopen, CatInv, SpaceInv, [Next]_vars
  PROVE  SpaceInv'
<1>1. CASE Operate
  BY <1>1, CreateSongSafe, DeleteSongSafe, LengthenSongSafe, OtherBegun DEF Operate
<1>2. CASE WriteRecord \/ RewriteSongUsage \/ CountSongs \/ Unmark \/ Grow \/ Mark
  BY <1>2, RecordSafe, UsageSafe, UnmarkSafe, GrowSafe, MarkSafe
<1>3. CASE Enlist \/ CountSong \/ Unlist \/ Sort \/ SaveLastSong
  BY <1>3, EnlistSafe, CountSafe, UnlistSafe, SortSafe, SaveLastSongSafe
<1>4. CASE WriteProject \/ AddProject \/ DeleteSongs \/ DropProject \/ SaveLastProject
  BY <1>4, WriteProjectSafe, AddProjectSafe, DeleteSongsSafe, DropProjectSafe, SaveLastProjectSafe
<1>5. CASE CommitBlock \/ EndCommit
  BY <1>5, CommitBlockSafe, EndCommitSafe
<1>6. CASE Stop \/ Repair \/ Open
  BY <1>6, StopSafe, OpenSafe
<1>7. CASE UNCHANGED vars
  BY <1>7, NothingSafe
<1> QED BY <1>1, <1>2, <1>3, <1>4, <1>5, <1>6, <1>7 DEF Next

\* The clusters of the songs that the projects list are marked as used and
\* belong to one song each whenever an operation begins (createsong, deletesong,
\* allocatenewblocks and its callers, commit), whatever was done before and
\* wherever the program stopped, also between two blocks of a commit, if the
\* recorder restores the drive after a stop and no stop comes between the two
\* saves of createsong.
THEOREM SpaceStaysSafe ==
  ASSUME ~StopInCreate, ~DirtyReopen
  PROVE  Spec => []SpaceIsSafe
<1> DEFINE Inv == CatInv /\ SpaceInv
<1>1. Init => Inv
  BY InitFits, InitSafe
<1>2. Inv /\ [Next]_vars => Inv'
  BY ListsKept, ClustersKept
<1>3. Inv => SpaceIsSafe
  <2> SUFFICES ASSUME CatInv, SpaceInv, Idle PROVE SpaceOK(home)
    BY DEF SpaceIsSafe, SpaceOK
  <2>1. ~HasStep("mark") /\ running
    BY DEF Idle, HasStep
  <2>2. \A k \in Nat : SpaceOK(Mix(k))
    BY <2>1 DEF SpaceInv
  <2> QED BY <2>2, MixEnds
<1> HIDE DEF Inv
<1> QED BY <1>1, <1>2, <1>3, PTL DEF Spec

------------------------------------------------------------------------------
(* The song usage. *)

\* After a project has counted a song more or less, the song usage is to be
\* rewritten, and then the number of songs.
Rewritten(steps) ==
  \A i \in 1 .. Len(steps) :
    /\ steps[i] \in {"count", "unlist"} =>
         \E j \in 1 .. Len(steps) : i < j /\ steps[j] = "usage"
    /\ steps[i] = "usage" => \E j \in 1 .. Len(steps) : i < j /\ steps[j] = "songs"

\* The tables are right, or are to be rewritten; a project is dropped when it
\* has no songs left.
UsageInv ==
  /\ Rewritten(todo)
  /\ ~running => disturbed
  /\ ~HasStep("usage") /\ (HasStep("songs") \/ ~disturbed) => home[SongUsage] = Listed(home)
  /\ ~HasStep("songs") /\ ~disturbed => home[Superblock] = Cardinality(home[SongUsage])
  /\ HasStep("dropproject") => HasStep("allsongs") \/ home[arg.project].count = 0

LEMMA RewritesKept ==
  ASSUME StepsFit(todo), Rewritten(todo), todo # <<>>, todo' = Tail(todo)
  PROVE  /\ Rewritten(todo)'
         /\ Head(todo) \in {"count", "unlist"} => HasStep("usage")'
         /\ Head(todo) = "usage" => HasStep("songs")'
<1>1. /\ Len(todo') = Len(todo) - 1 /\ Len(todo) \in Nat \ {0} /\ Head(todo) = todo[1]
      /\ \A i \in 1 .. Len(todo') : todo'[i] = todo[i + 1]
  BY TailFits
<1>2. ASSUME NEW i \in 0 .. Len(todo'), NEW s,
             \E j \in 1 .. Len(todo) : i + 1 < j /\ todo[j] = s
      PROVE  \E j \in 1 .. Len(todo') : i < j /\ todo'[j] = s
  <2>1. PICK j \in 1 .. Len(todo) : i + 1 < j /\ todo[j] = s
    BY <1>2
  <2>2. j - 1 \in 1 .. Len(todo') /\ i < j - 1 /\ (j - 1) + 1 = j
    BY <1>1, <2>1
  <2> QED BY <1>1, <2>1, <2>2
<1>3. ASSUME NEW i \in 1 .. Len(todo')
      PROVE  i \in 0 .. Len(todo') /\ i + 1 \in 1 .. Len(todo) /\ todo'[i] = todo[i + 1]
  BY <1>1
<1>4. Rewritten(todo)'
  <2>1. ASSUME NEW i \in 1 .. Len(todo')
        PROVE  /\ todo'[i] \in {"count", "unlist"} =>
                    \E j \in 1 .. Len(todo') : i < j /\ todo'[j] = "usage"
               /\ todo'[i] = "usage" => \E j \in 1 .. Len(todo') : i < j /\ todo'[j] = "songs"
    <3>1. /\ todo[i + 1] \in {"count", "unlist"} =>
               \E j \in 1 .. Len(todo) : i + 1 < j /\ todo[j] = "usage"
          /\ todo[i + 1] = "usage" => \E j \in 1 .. Len(todo) : i + 1 < j /\ todo[j] = "songs"
      BY <1>3 DEF Rewritten
    <3>2. i \in 0 .. Len(todo') /\ todo'[i] = todo[i + 1]
      BY <1>3
    <3>3. ASSUME todo'[i] \in {"count", "unlist"}
          PROVE  \E j \in 1 .. Len(todo') : i < j /\ todo'[j] = "usage"
      <4>1. \E j \in 1 .. Len(todo) : i + 1 < j /\ todo[j] = "usage"
        BY <3>1, <3>2, <3>3
      <4> QED BY <1>2, <3>2, <4>1
    <3>4. ASSUME todo'[i] = "usage"
          PROVE  \E j \in 1 .. Len(todo') : i < j /\ todo'[j] = "songs"
      <4>1. \E j \in 1 .. Len(todo) : i + 1 < j /\ todo[j] = "songs"
        BY <3>1, <3>2, <3>4
      <4> QED BY <1>2, <3>2, <4>1
    <3> QED BY <3>3, <3>4
  <2> QED BY <2>1 DEF Rewritten
<1>5. 0 \in 0 .. Len(todo') /\ 1 \in 1 .. Len(todo) /\ 0 + 1 = 1
  BY <1>1
<1>6. ASSUME Head(todo) \in {"count", "unlist"}
      PROVE  HasStep("usage")'
  <2>1. \E j \in 1 .. Len(todo) : 0 + 1 < j /\ todo[j] = "usage"
    BY <1>1, <1>5, <1>6 DEF Rewritten
  <2> QED BY <1>2, <1>5, <2>1 DEF HasStep
<1>7. ASSUME Head(todo) = "usage"
      PROVE  HasStep("songs")'
  <2>1. \E j \in 1 .. Len(todo) : 0 + 1 < j /\ todo[j] = "songs"
    BY <1>1, <1>5, <1>7 DEF Rewritten
  <2> QED BY <1>2, <1>5, <2>1 DEF HasStep
<1> QED BY <1>4, <1>6, <1>7

\* What an operation begins with.
Complete(steps) ==
  /\ Rewritten(steps)
  /\ (\E i \in 1 .. Len(steps) : steps[i] = "songs") =>
        \E i \in 1 .. Len(steps) : steps[i] = "usage"
  /\ (\E i \in 1 .. Len(steps) : steps[i] = "dropproject") =>
        \E i \in 1 .. Len(steps) : steps[i] = "allsongs"

LEMMA BeginningsComplete ==
  /\ Complete(<<>>) /\ Complete(CreateSongSteps(TRUE)) /\ Complete(DeleteSongSteps)
  /\ Complete(LengthenSteps) /\ Complete(CreateProjectSteps) /\ Complete(DeleteProjectSteps)
  /\ Complete(<<"lastsong", "commit">>) /\ Complete(<<"sort", "commit">>)
  /\ Complete(<<"lastproject", "commit">>)
<1>1. Complete(CreateSongSteps(TRUE))
  BY DEF CreateSongSteps, Complete, Rewritten
<1>2. Complete(DeleteSongSteps)
  BY DEF DeleteSongSteps, Complete, Rewritten
<1>3. Complete(LengthenSteps) /\ Complete(CreateProjectSteps) /\ Complete(DeleteProjectSteps)
  BY DEF LengthenSteps, CreateProjectSteps, DeleteProjectSteps, Complete, Rewritten
<1>4. /\ Complete(<<"lastsong", "commit">>) /\ Complete(<<"sort", "commit">>)
      /\ Complete(<<"lastproject", "commit">>) /\ Complete(<<>>)
  BY DEF Complete, Rewritten
<1> QED BY <1>1, <1>2, <1>3, <1>4

LEMMA MoreSongsRewritten ==
  ASSUME StepsFit(todo), Rewritten(todo), todo # <<>>, todo' = DeleteSongSteps \o todo
  PROVE  Rewritten(todo)' /\ HasStep("usage")' /\ HasStep("songs")'
         /\ \A s : HasStep(s) => HasStep(s)'
<1> DEFINE both == DeleteSongSteps \o todo
<1>1. todo \in Seq(Steps) /\ Len(todo) \in Nat \ {0}
  BY TailFits DEF StepsFit
<1>2. /\ Len(both) = Len(todo) + 7
      /\ both[1] = "unlist" /\ both[2] = "commit" /\ both[3] = "usage" /\ both[4] = "songs"
      /\ both[5] = "unmark" /\ both[6] = "commit" /\ both[7] = "commit"
      /\ \A i \in 1 .. Len(todo) : both[i + 7] = todo[i]
  BY <1>1 DEF DeleteSongSteps
<1> HIDE DEF both
<1>3. ASSUME NEW i \in 1 .. Len(todo)
      PROVE  i + 7 \in 1 .. Len(both) /\ both[i + 7] = todo[i]
  BY <1>1, <1>2
<1>4. 3 \in 1 .. Len(both) /\ 4 \in 1 .. Len(both)
  BY <1>1, <1>2
<1>5. ASSUME NEW i \in 1 .. Len(both)
      PROVE  /\ both[i] \in {"count", "unlist"} =>
                  \E j \in 1 .. Len(both) : i < j /\ both[j] = "usage"
             /\ both[i] = "usage" => \E j \in 1 .. Len(both) : i < j /\ both[j] = "songs"
  <2>1. CASE i \in 1 .. 7
    <3>1. both[i] \in {"count", "unlist"} => i < 3
      BY <1>2, <2>1
    <3>2. both[i] = "usage" => i < 4
      BY <1>2, <2>1
    <3> QED BY <1>2, <1>4, <3>1, <3>2
  <2>2. CASE i > 7
    <3>1. i - 7 \in 1 .. Len(todo) /\ (i - 7) + 7 = i
      BY <1>1, <1>2, <2>2
    <3>2. both[i] = todo[i - 7]
      BY <1>3, <3>1
    <3>3. ASSUME NEW s, \E j \in 1 .. Len(todo) : i - 7 < j /\ todo[j] = s
          PROVE  \E j \in 1 .. Len(both) : i < j /\ both[j] = s
      <4>1. PICK j \in 1 .. Len(todo) : i - 7 < j /\ todo[j] = s
        BY <3>3
      <4>2. j + 7 \in 1 .. Len(both) /\ both[j + 7] = s /\ i < j + 7
        BY <1>3, <3>1, <4>1
      <4> QED BY <4>2
    <3> QED BY <3>1, <3>2, <3>3 DEF Rewritten
  <2> QED BY <2>1, <2>2
<1>6. \A s : HasStep(s) => \E i \in 1 .. Len(both) : both[i] = s
  BY <1>3 DEF HasStep
<1>7. todo' = both
  BY DEF both
<1>8. \A s : HasStep(s)' <=> \E i \in 1 .. Len(both) : both[i] = s
  BY <1>7 DEF HasStep
<1>9. Rewritten(todo)'
  BY <1>5, <1>7 DEF Rewritten
<1> HIDE DEF HasStep
<1> QED BY <1>2, <1>4, <1>6, <1>8, <1>9

\* A project counts a song.
Owned(img, p, s) == p \in ProjectsOf(img) /\ s \in SongsOf(img, p)

\* What is owned is in the list, below the count; a song has one owner.
OwnedFits(img) ==
  /\ \A p, s : Owned(img, p, s) <=>
       /\ p \in ProjectsOf(img) /\ s # None
       /\ \E i \in 1 .. MaxSongs : i <= img[p].count /\ img[p].list[i] = s
  /\ \A p, s : Owned(img, p, s) => p \in ProjectBlocks /\ s \in Songs
  /\ \A s : s \in Listed(img) <=> \E p : Owned(img, p, s)
  /\ \A p, q, s : Owned(img, p, s) /\ Owned(img, q, s) => p = q

LEMMA OwnedFacts == \A img : ListsOK(img) => OwnedFits(img)
<1> SUFFICES ASSUME NEW img, ListsOK(img) PROVE OwnedFits(img)
  OBVIOUS
<1>1. ASSUME NEW p \in ProjectsOf(img)
      PROVE  /\ p \in ProjectBlocks /\ img[p].count \in 0 .. MaxSongs
             /\ img[p].list \in [1 .. MaxSongs -> Songs \cup {None}]
  BY ProjectsFacts DEF ListsOK, ListTypes, ProjectContent, SongList
<1>2. ASSUME NEW p, NEW s
      PROVE  Owned(img, p, s) <=>
               /\ p \in ProjectsOf(img) /\ s # None
               /\ \E i \in 1 .. MaxSongs : i <= img[p].count /\ img[p].list[i] = s
  BY <1>1, BlockFacts DEF Owned, SongsOf
<1>3. ASSUME NEW p, NEW s, Owned(img, p, s)
      PROVE  p \in ProjectBlocks /\ s \in Songs
  <2>1. p \in ProjectsOf(img) /\ s # None
    BY <1>2, <1>3
  <2>2. PICK i \in 1 .. MaxSongs : img[p].list[i] = s
    BY <1>2, <1>3
  <2> QED BY <1>1, <2>1, <2>2
<1>4. \A s : s \in Listed(img) <=> \E p : Owned(img, p, s)
  BY DEF Listed, Owned
<1>5. ASSUME NEW p, NEW q, NEW s, Owned(img, p, s), Owned(img, q, s)
      PROVE  p = q
  <2>1. p \in ProjectsOf(img) /\ q \in ProjectsOf(img) /\ s # None
    BY <1>2, <1>5
  <2>2. PICK i \in 1 .. MaxSongs : img[p].list[i] = s
    BY <1>2, <1>5
  <2>3. PICK j \in 1 .. MaxSongs : img[q].list[j] = s
    BY <1>2, <1>5
  <2> QED BY <2>1, <2>2, <2>3 DEF ListsOK, SongsDistinct
<1> QED BY <1>2, <1>3, <1>4, <1>5 DEF OwnedFits

\* Two that have the same songs in the same projects.
SameOwned(img, other) == \A p, s : Owned(other, p, s) <=> Owned(img, p, s)

LEMMA SameListed ==
  ASSUME NEW img, NEW other, SameOwned(img, other)
  PROVE  Listed(other) = Listed(img)
<1>1. \A s : s \in Listed(img) <=> \E p : Owned(img, p, s)
  BY DEF Listed, Owned
<1>2. \A s : s \in Listed(other) <=> \E p : Owned(other, p, s)
  BY DEF Listed, Owned
<1> QED BY <1>1, <1>2 DEF SameOwned

\* The songs are the same when one project is written without a change of those.
LEMMA SameSongs ==
  ASSUME ListsOK(home), ListsOK(home)', NEW p \in ProjectBlocks, NEW new,
         home' = [home EXCEPT ![p] = new],
         p \in ProjectsOf(home) =>
           /\ \A i \in 1 .. MaxSongs : i <= new.count => \E j \in 1 .. MaxSongs :
                j <= home[p].count /\ home[p].list[j] = new.list[i]
           /\ \A i \in 1 .. MaxSongs : i <= home[p].count => \E j \in 1 .. MaxSongs :
                j <= new.count /\ new.list[j] = home[p].list[i]
  PROVE  Listed(home)' = Listed(home) /\ SameOwned(home, home')
<1>1. /\ home'[p] = new /\ home'[DriveInfo] = home[DriveInfo]
      /\ \A q \in ProjectBlocks : q # p => home'[q] = home[q]
  BY BlockFacts DEF ListsOK, ListTypes
<1>2. PICK img : img = home' /\ ListsOK(img)
  OBVIOUS
<1>3. ProjectsOf(img) = ProjectsOf(home) /\ ProjectsOf(home) \subseteq ProjectBlocks
  BY <1>1, <1>2, ProjectsFacts DEF ProjectsOf
<1>4. OwnedFits(home) /\ OwnedFits(img)
  BY <1>2, OwnedFacts
<1>5. ASSUME NEW q, NEW s
      PROVE  Owned(img, q, s) <=> Owned(home, q, s)
  <2>1. CASE q \in ProjectsOf(home) /\ q # p
    <3>1. img[q] = home[q]
      BY <1>1, <1>2, <1>3, <2>1
    <3> QED BY <1>3, <1>4, <3>1 DEF OwnedFits
  <2>2. CASE q \in ProjectsOf(home) /\ q = p
    <3>1. (\E i \in 1 .. MaxSongs : i <= img[p].count /\ img[p].list[i] = s)
          <=> \E i \in 1 .. MaxSongs : i <= home[p].count /\ home[p].list[i] = s
      BY <1>1, <1>2, <2>2
    <3> QED BY <1>3, <1>4, <2>2, <3>1 DEF OwnedFits
  <2>3. CASE q \notin ProjectsOf(home)
    BY <1>3, <2>3 DEF Owned
  <2> QED BY <2>1, <2>2, <2>3
<1>6. SameOwned(home, img)
  BY <1>5 DEF SameOwned
<1> QED BY <1>2, <1>6, SameListed

\* Or when the list of projects is, and those that come or go have no songs.
LEMMA SameProjects ==
  ASSUME ListsOK(home), ListsOK(home)', NEW new, home' = [home EXCEPT ![DriveInfo] = new],
         \A q \in ProjectsOf(home') : q \in ProjectsOf(home) \/ home[q].count = 0,
         \A q \in ProjectsOf(home) : q \in ProjectsOf(home') \/ home[q].count = 0
  PROVE  Listed(home)' = Listed(home) /\ SameOwned(home, home')
<1>1. \A q \in ProjectBlocks : home'[q] = home[q]
  BY BlockFacts DEF ListsOK, ListTypes
<1>2. PICK img : img = home' /\ ListsOK(img)
  OBVIOUS
<1>3. ProjectsOf(img) \subseteq ProjectBlocks /\ ProjectsOf(home) \subseteq ProjectBlocks
  BY <1>2, ProjectsFacts
<1>4. \A i \in 1 .. MaxSongs : ~(i <= 0)
  BY BlockFacts
<1>5. OwnedFits(home) /\ OwnedFits(img)
  BY <1>2, OwnedFacts
<1>6. ASSUME NEW q, NEW s
      PROVE  Owned(img, q, s) <=> Owned(home, q, s)
  <2>1. CASE q \in ProjectsOf(home) /\ q \in ProjectsOf(img)
    <3>1. img[q] = home[q]
      BY <1>1, <1>2, <1>3, <2>1
    <3> QED BY <1>5, <2>1, <3>1 DEF OwnedFits
  <2>2. CASE ~(q \in ProjectsOf(home) /\ q \in ProjectsOf(img))
    <3>1. q \in ProjectsOf(home) \cup ProjectsOf(img) => img[q].count = 0 /\ home[q].count = 0
      BY <1>1, <1>2, <1>3, <2>2
    <3> QED BY <1>4, <1>5, <3>1 DEF OwnedFits
  <2> QED BY <2>1, <2>2
<1>7. SameOwned(home, img)
  BY <1>6 DEF SameOwned
<1> QED BY <1>2, <1>7, SameListed

\* A list is written that has the same songs.
LEMMA UsageKept ==
  ASSUME CatInv, UsageInv, NEW step \in ListWriters \ {"count", "unlist"}, NEW b \in ListBlocks,
         NEW content, Write(step, b, content), disturbed' = disturbed,
         Listed(home)' = Listed(home)
  PROVE  UsageInv'
<1>1. /\ todo # <<>> /\ Head(todo) = step /\ todo' = Tail(todo) /\ Doing(step)
      /\ home' = [home EXCEPT ![b] = content] /\ UNCHANGED <<arg, running>>
      /\ StepsFit(todo) /\ DOMAIN home = Blocks
  BY DEF Write, Doing, CatInv, ListsOK, ListTypes
<1>2. /\ \A s : HasStep(s)' => HasStep(s) /\ s \in After(step)
      /\ \A s : HasStep(s) => s = step \/ HasStep(s)'
  BY <1>1, DoingFacts
<1>3. Rewritten(todo)'
  BY <1>1, RewritesKept DEF UsageInv
<1>4. home'[SongUsage] = home[SongUsage] /\ home'[Superblock] = home[Superblock]
  BY <1>1, BlockFacts, SpaceBlocks DEF Tables
<1>5. step \notin {"usage", "songs"}
  BY DEF ListWriters
<1> HIDE DEF HasStep
<1>6. ~HasStep("dropproject")'
  BY <1>2 DEF After, ListWriters
<1> QED BY <1>1, <1>2, <1>3, <1>4, <1>5, <1>6 DEF UsageInv

\* Or when a step writes no list.
LEMMA NoListWritten ==
  ASSUME CatInv, SpaceInv, UsageInv, NEW b \in Blocks \ ListBlocks, NEW content,
         NEW step \in {"record", "usage", "songs", "unmark", "grow", "mark"},
         Write(step, b, content)
  PROVE  /\ Rewritten(todo)' /\ running /\ running' = running
         /\ Listed(home)' = Listed(home) /\ HasStep(step)
         /\ \A c \in Blocks : home'[c] = IF c = b THEN content ELSE home[c]
         /\ \A s : HasStep(s)' => HasStep(s) /\ s \in After(step)
         /\ \A s : HasStep(s) => s = step \/ HasStep(s)'
         /\ step = "usage" => HasStep("songs")'
         /\ HasStep("dropproject")' => HasStep("allsongs")' \/ home'[arg'.project].count = 0
<1>2. /\ todo # <<>> /\ Head(todo) = step /\ todo' = Tail(todo)
      /\ running /\ running' = running /\ StepsFit(todo)
  BY DEF Write, Doing, CatInv
<1>3. /\ arg' = arg /\ Listed(home)' = Listed(home) /\ HasStep(step)
      /\ \A c \in Blocks : home'[c] = IF c = b THEN content ELSE home[c]
      /\ \A s : HasStep(s)' => HasStep(s) /\ s \in After(step)
      /\ \A s : HasStep(s) => s = step \/ HasStep(s)'
  BY StepFacts, Zenon
<1>4. Rewritten(todo)' /\ (step = "usage" => HasStep("songs")')
  BY <1>2, RewritesKept DEF UsageInv
<1>5. HasStep("dropproject") => home'[arg.project] = home[arg.project]
  <2>1. HasStep("dropproject") => arg.project \in ProjectBlocks
    BY ProjectsFacts DEF CatInv, ArgFits
  <2>2. \A p \in ProjectBlocks : p \in Blocks /\ p \in ListBlocks
    BY BlockFacts DEF ListBlocks
  <2> HIDE DEF HasStep
  <2> QED BY <1>3, <2>1, <2>2
<1> HIDE DEF HasStep
<1>6. HasStep("dropproject")' => HasStep("allsongs")' \/ home'[arg'.project].count = 0
  BY <1>3, <1>5 DEF UsageInv
<1> QED BY <1>2, <1>3, <1>4, <1>6

LEMMA OtherUsage ==
  ASSUME CatInv, SpaceInv, UsageInv, NEW step \in {"record", "unmark", "grow", "mark"},
         NEW b \in Songs \cup {DriveUsage}, NEW content, Write(step, b, content),
         disturbed' = disturbed
  PROVE  UsageInv'
<1>1. /\ b \in Blocks \ ListBlocks /\ SongUsage \in Blocks \ {b} /\ Superblock \in Blocks \ {b}
      /\ step \in {"record", "usage", "songs", "unmark", "grow", "mark"}
      /\ step \notin {"usage", "songs"}
  BY SpaceBlocks DEF Tables, DriveUsage, SongUsage, Superblock
<1>2. /\ Rewritten(todo)' /\ running /\ running' = running
      /\ Listed(home)' = Listed(home) /\ HasStep(step)
      /\ \A c \in Blocks : home'[c] = IF c = b THEN content ELSE home[c]
      /\ \A s : HasStep(s)' => HasStep(s) /\ s \in After(step)
      /\ \A s : HasStep(s) => s = step \/ HasStep(s)'
      /\ step = "usage" => HasStep("songs")'
      /\ HasStep("dropproject")' => HasStep("allsongs")' \/ home'[arg'.project].count = 0
  BY <1>1, NoListWritten, Zenon
<1> HIDE DEF HasStep
<1> QED BY <1>1, <1>2 DEF UsageInv

\* The tables are rewritten.
LEMMA UsageRewritten == CatInv /\ SpaceInv /\ UsageInv /\ RewriteSongUsage => UsageInv'
<1> SUFFICES ASSUME CatInv, SpaceInv, UsageInv, NEW step \in {"usage"},
                    NEW content \in {Listed(home)}, Write(step, SongUsage, content),
                    disturbed' = disturbed
             PROVE  UsageInv'
  BY DEF RewriteSongUsage
<1>1. /\ SongUsage \in Blocks \ ListBlocks
      /\ step \in {"record", "usage", "songs", "unmark", "grow", "mark"}
  BY SpaceBlocks DEF Tables
<1>2. /\ Rewritten(todo)' /\ running /\ running' = running
      /\ Listed(home)' = Listed(home) /\ HasStep(step)
      /\ \A c \in Blocks : home'[c] = IF c = SongUsage THEN content ELSE home[c]
      /\ \A s : HasStep(s)' => HasStep(s) /\ s \in After(step)
      /\ \A s : HasStep(s) => s = step \/ HasStep(s)'
      /\ step = "usage" => HasStep("songs")'
      /\ HasStep("dropproject")' => HasStep("allsongs")' \/ home'[arg'.project].count = 0
  BY <1>1, NoListWritten, Zenon
<1> HIDE DEF HasStep
<1> QED BY <1>1, <1>2 DEF UsageInv

LEMMA SongsCounted == CatInv /\ SpaceInv /\ UsageInv /\ CountSongs => UsageInv'
<1> SUFFICES ASSUME CatInv, SpaceInv, UsageInv, NEW step \in {"songs"},
                    NEW content \in {Cardinality(home[SongUsage])},
                    Write(step, Superblock, content)
             PROVE  UsageInv'
  BY DEF CountSongs
<1>1. /\ Superblock \in Blocks \ ListBlocks /\ SongUsage \in Blocks \ {Superblock}
      /\ step \in {"record", "usage", "songs", "unmark", "grow", "mark"}
  BY SpaceBlocks DEF Tables, SongUsage, Superblock
<1>2. /\ Rewritten(todo)' /\ running /\ running' = running
      /\ Listed(home)' = Listed(home) /\ HasStep(step)
      /\ \A c \in Blocks : home'[c] = IF c = Superblock THEN content ELSE home[c]
      /\ \A s : HasStep(s)' => HasStep(s) /\ s \in After(step)
      /\ \A s : HasStep(s) => s = step \/ HasStep(s)'
      /\ step = "usage" => HasStep("songs")'
      /\ HasStep("dropproject")' => HasStep("allsongs")' \/ home'[arg'.project].count = 0
  BY <1>1, NoListWritten, Zenon
<1> HIDE DEF HasStep
<1> QED BY <1>1, <1>2 DEF UsageInv

\* A song is counted or taken from the list: the tables are rewritten later.
LEMMA RecountedLater ==
  ASSUME CatInv, UsageInv, NEW step \in {"count", "unlist"}, NEW new,
         Write(step, arg.project, new), disturbed' = disturbed
  PROVE  UsageInv'
<1>1. /\ todo # <<>> /\ Head(todo) = step /\ todo' = Tail(todo) /\ Doing(step)
      /\ home' = [home EXCEPT ![arg.project] = new] /\ UNCHANGED <<arg, running>>
      /\ StepsFit(todo) /\ ListsOK(home)
  BY DEF Write, Doing, CatInv
<1>2. /\ HasStep(step) /\ \A s : HasStep(s)' => HasStep(s) /\ s \in After(step)
      /\ \A s : HasStep(s) => s = step \/ HasStep(s)'
  BY <1>1, DoingFacts
<1>3. Rewritten(todo)' /\ HasStep("usage")'
  BY <1>1, RewritesKept DEF UsageInv
<1>4. arg.project \in ProjectsOf(home) /\ (step = "unlist" => arg.id \in 1 .. home[arg.project].count)
  BY <1>2 DEF CatInv, ArgFits, NewSongFits
<1>5. home'[SongUsage] = home[SongUsage] /\ home'[Superblock] = home[Superblock]
  <2>1. arg.project \in ListBlocks
    BY <1>1, <1>4, ProjectsFacts DEF ListBlocks
  <2> QED BY <1>1, <2>1, BlockFacts, SpaceBlocks DEF Tables
<1> HIDE DEF HasStep
<1>6. HasStep("dropproject")' => HasStep("allsongs")'
  <2> SUFFICES ASSUME HasStep("dropproject")' PROVE HasStep("allsongs")'
    OBVIOUS
  <2>1. step = "unlist" /\ HasStep("dropproject")
    BY <1>2 DEF After
  <2>2. home[arg.project].count # 0
    BY <1>1, <1>4, <2>1, ProjectFacts
  <2> QED BY <1>2, <2>1, <2>2 DEF UsageInv
<1> QED BY <1>1, <1>2, <1>3, <1>5, <1>6 DEF UsageInv

LEMMA EnlistUsage ==
  ASSUME CatInv, UsageInv, Enlist
  PROVE  UsageInv' /\ SameOwned(home, home')
<1> DEFINE new == [list |-> [project.list EXCEPT ![arg.id] = arg.song],
                   count |-> project.count, last |-> arg.song]
<1>1. /\ Write("enlist", arg.project, [enlisted EXCEPT !.last = arg.song])
      /\ Doing("enlist") /\ ListsOK(home) /\ ListsOK(home)'
  BY EnlistKeeps DEF Enlist, Write, CatInv
<1>2. HasStep("count")
  BY <1>1, TailFits, DoingFacts DEF CatInv, StepsFit, HasStep
<1>3. arg.project \in ProjectsOf(home) /\ arg.id = project.count + 1
  BY <1>2 DEF CatInv, ArgFits, NewSongFits, project
<1>4. /\ arg.project \in ProjectBlocks /\ project.count \in 0 .. MaxSongs
      /\ project.list \in [1 .. MaxSongs -> Songs \cup {None}]
      /\ project = [list |-> project.list, count |-> project.count, last |-> project.last]
  BY <1>1, <1>3, ProjectFacts DEF project
<1>5. [enlisted EXCEPT !.last = arg.song] = new
  <2>1. enlisted = [list |-> [project.list EXCEPT ![arg.id] = arg.song],
                    count |-> project.count, last |-> project.last]
    BY <1>4 DEF enlisted
  <2> QED BY <2>1
<1>6. /\ new.count = project.count
      /\ \A i \in 1 .. MaxSongs : i <= project.count => new.list[i] = project.list[i]
  BY <1>3, <1>4
<1>7. home' = [home EXCEPT ![arg.project] = new] /\ Write("enlist", arg.project, new)
  BY <1>1, <1>5 DEF Write
<1> HIDE DEF new
<1>8. Listed(home)' = Listed(home) /\ SameOwned(home, home')
  <2>1. \A i \in 1 .. MaxSongs : i <= new.count => \E j \in 1 .. MaxSongs :
          j <= home[arg.project].count /\ home[arg.project].list[j] = new.list[i]
    BY <1>6 DEF project
  <2>2. \A i \in 1 .. MaxSongs : i <= home[arg.project].count => \E j \in 1 .. MaxSongs :
          j <= new.count /\ new.list[j] = home[arg.project].list[i]
    BY <1>6 DEF project
  <2> QED BY <1>1, <1>4, <1>7, <2>1, <2>2, SameSongs
<1> QED BY <1>4, <1>7, <1>8, UsageKept DEF ListWriters, ListBlocks, Enlist

LEMMA SortUsage ==
  ASSUME CatInv, UsageInv, Sort
  PROVE  UsageInv' /\ SameOwned(home, home')
<1>1. PICK list :
        /\ Write("sort", arg.project,
                 [list |-> list, count |-> project.count, last |-> project.last])
        /\ Reordered(list, project.list, project.count)
        /\ Reordered(project.list, list, project.count)
  BY SortWrites
<1> DEFINE new == [list |-> list, count |-> project.count, last |-> project.last]
<1>2. HasStep("sort") /\ ListsOK(home) /\ ListsOK(home)'
  BY <1>1, DoingFacts, SortKeeps DEF Write, CatInv
<1>3. arg.project \in ProjectBlocks
  BY <1>2, ProjectsFacts DEF CatInv, ArgFits
<1>4. /\ home' = [home EXCEPT ![arg.project] = new] /\ Write("sort", arg.project, new)
      /\ new.list = list /\ new.count = project.count
  BY <1>1 DEF Write
<1> HIDE DEF new
<1>5. Listed(home)' = Listed(home) /\ SameOwned(home, home')
  <2>1. \A i \in 1 .. MaxSongs : i <= new.count => \E j \in 1 .. MaxSongs :
          j <= home[arg.project].count /\ home[arg.project].list[j] = new.list[i]
    BY <1>1, <1>4 DEF project, Reordered
  <2>2. \A i \in 1 .. MaxSongs : i <= home[arg.project].count => \E j \in 1 .. MaxSongs :
          j <= new.count /\ new.list[j] = home[arg.project].list[i]
    BY <1>1, <1>4 DEF project, Reordered
  <2> QED BY <1>2, <1>3, <1>4, <2>1, <2>2, SameSongs
<1> QED BY <1>3, <1>4, <1>5, UsageKept DEF ListWriters, ListBlocks, Sort

LEMMA SaveLastSongUsage ==
  ASSUME CatInv, UsageInv, SaveLastSong
  PROVE  UsageInv' /\ SameOwned(home, home')
<1>1. PICK new : /\ new = [project EXCEPT !.last = project.list[arg.id]]
                 /\ Write("lastsong", arg.project, new)
  BY DEF SaveLastSong
<1>2. HasStep("lastsong") /\ ListsOK(home) /\ ListsOK(home)'
  BY <1>1, DoingFacts, SaveLastSongKeeps DEF Write, CatInv
<1>3. /\ arg.project \in ProjectBlocks
      /\ project = [list |-> project.list, count |-> project.count, last |-> project.last]
  BY <1>2, ProjectFacts DEF CatInv, ArgFits, project
<1>4. new.list = project.list /\ new.count = project.count
  BY <1>1, <1>3
<1>5. Listed(home)' = Listed(home) /\ SameOwned(home, home')
  BY <1>1, <1>2, <1>3, <1>4, SameSongs DEF Write, project
<1> QED BY <1>1, <1>3, <1>5, UsageKept DEF ListWriters, ListBlocks, SaveLastSong

LEMMA WriteProjectUsage ==
  ASSUME CatInv, UsageInv, WriteProject
  PROVE  UsageInv' /\ SameOwned(home, home')
<1>1. PICK new : new = NewProject /\ Write("project", arg.project, new)
  BY DEF WriteProject
<1>2. HasStep("project") /\ ListsOK(home) /\ ListsOK(home)'
  BY <1>1, DoingFacts, WriteProjectKeeps DEF Write, CatInv
<1>3. arg.project \in ProjectBlocks /\ arg.project \notin ProjectsOf(home)
  BY <1>2 DEF CatInv, ArgFits, NewProjectFits
<1>4. Listed(home)' = Listed(home) /\ SameOwned(home, home')
  BY <1>1, <1>2, <1>3, SameSongs DEF Write
<1> QED BY <1>1, <1>3, <1>4, UsageKept DEF ListWriters, ListBlocks, WriteProject

\* The list of projects is written; those that come or go have no songs.
LEMMA InfoUsage ==
  ASSUME CatInv, UsageInv, NEW step \in {"addproject", "dropproject", "lastproject"}, NEW new,
         Write(step, DriveInfo, new), disturbed' = disturbed, ListsOK(home)',
         \A i \in 1 .. MaxProjects : new.list[i] = None \/ new.list[i] \in ProjectsOf(home)
                                     \/ home[new.list[i]].count = 0,
         \A q \in ProjectsOf(home) :
           home[q].count = 0 \/ \E i \in 1 .. MaxProjects : new.list[i] = q
  PROVE  UsageInv' /\ SameOwned(home, home')
<1>1. /\ ListsOK(home) /\ home' = [home EXCEPT ![DriveInfo] = new]
      /\ step \in ListWriters \ {"count", "unlist"} /\ DriveInfo \in ListBlocks
  BY DEF Write, CatInv, ListWriters, ListBlocks
<1>2. home'[DriveInfo] = new
  BY <1>1, BlockFacts DEF ListsOK, ListTypes
<1>3. PICK img : img = home' /\ ListsOK(img)
  OBVIOUS
<1>4. \A q : q \in ProjectsOf(img) <=> q # None /\ \E i \in 1 .. MaxProjects : new.list[i] = q
  BY <1>2, <1>3, ProjectsFacts
<1>5. \A q \in ProjectsOf(home) : q # None
  BY <1>1, ProjectsFacts
<1>6. \A q \in ProjectsOf(home') : q \in ProjectsOf(home) \/ home[q].count = 0
  BY <1>3, <1>4
<1>7. \A q \in ProjectsOf(home) : q \in ProjectsOf(home') \/ home[q].count = 0
  BY <1>3, <1>4, <1>5
<1>8. Listed(home)' = Listed(home) /\ SameOwned(home, home')
  BY <1>1, <1>6, <1>7, SameProjects
<1> QED BY <1>1, <1>8, UsageKept

LEMMA AddProjectUsage ==
  ASSUME CatInv, UsageInv, AddProject
  PROVE  UsageInv' /\ SameOwned(home, home')
<1> DEFINE info == home[DriveInfo]
           list == [info.list EXCEPT ![arg.id] = arg.project]
           new == [list |-> list, count |-> info.count + 1, last |-> arg.project]
<1>1. /\ Write("addproject", DriveInfo, new) /\ Doing("addproject") /\ todo' = Tail(todo)
      /\ ListsOK(home) /\ ListsOK(home)' /\ disturbed' = disturbed
  BY AddProjectKeeps DEF AddProject, Write, CatInv
<1>2. /\ HasStep("addproject") /\ \A s : HasStep(s)' => s \in After("addproject")
      /\ \A s : HasStep(s) => s = "addproject" \/ HasStep(s)'
  BY <1>1, DoingFacts
<1>3. home[arg.project] = NewProject /\ NewProjectFits
  <2>1. ~HasStep("project")
    <3> HIDE DEF HasStep
    <3> QED BY <1>2 DEF After
  <2> QED BY <1>2, <2>1 DEF CatInv, ArgFits
<1>4. /\ info.list \in [1 .. MaxProjects -> ProjectBlocks \cup {None}]
      /\ info.count \in 0 .. MaxProjects
      /\ \A i \in 1 .. MaxProjects : info.list[i] # None <=> i <= info.count
      /\ \A i \in 1 .. MaxProjects : info.list[i] # None => info.list[i] \in ProjectsOf(home)
  BY <1>1, InfoFacts
<1>5. arg.id = info.count + 1
  BY <1>3 DEF NewProjectFits
<1> HIDE DEF info
<1>6. info.list[arg.id] = None \/ arg.id \notin 1 .. MaxProjects
  BY <1>4, <1>5
<1>7. \A i \in 1 .. MaxProjects : new.list[i] = IF i = arg.id THEN arg.project ELSE info.list[i]
  BY <1>4
<1> HIDE DEF new
<1>8. NewProject.count = 0
  BY DEF NewProject
<1>9. \A i \in 1 .. MaxProjects : new.list[i] = None \/ new.list[i] \in ProjectsOf(home)
                                  \/ home[new.list[i]].count = 0
  BY <1>3, <1>4, <1>7, <1>8
<1>10. ASSUME NEW q \in ProjectsOf(home)
       PROVE  \E i \in 1 .. MaxProjects : new.list[i] = q
  <2>1. PICK i \in 1 .. MaxProjects : info.list[i] = q /\ q # None
    BY <1>1, ProjectsFacts DEF info
  <2> QED BY <1>6, <1>7, <2>1
<1> QED BY <1>1, <1>9, <1>10, InfoUsage

LEMMA DropProjectUsage ==
  ASSUME CatInv, UsageInv, DropProject
  PROVE  UsageInv' /\ SameOwned(home, home')
<1> DEFINE info == home[DriveInfo]
           projid == CHOOSE i \in 1 .. MaxProjects : info.list[i] = arg.project
           list == Without(info.list, projid)
           new == [list |-> list, count |-> info.count - 1, last |-> list[1]]
<1>1. /\ Write("dropproject", DriveInfo, new) /\ Doing("dropproject")
      /\ ListsOK(home) /\ ListsOK(home)' /\ disturbed' = disturbed
  BY DropProjectKeeps DEF DropProject, CatInv, Write
<1>2. arg.project \in ProjectsOf(home) /\ home[arg.project].count = 0
  <2>1. /\ HasStep("dropproject") /\ \A s : HasStep(s)' => s \in After("dropproject")
        /\ \A s : HasStep(s) => s = "dropproject" \/ HasStep(s)'
    BY <1>1, DoingFacts DEF Write
  <2> HIDE DEF HasStep
  <2>2. ~HasStep("allsongs")
    BY <2>1 DEF After
  <2> QED BY <2>1, <2>2 DEF CatInv, ArgFits, UsageInv
<1>3. /\ info.list \in [1 .. MaxProjects -> ProjectBlocks \cup {None}]
      /\ \A i \in 1 .. MaxProjects : info.list[i] # None => info.list[i] \in ProjectsOf(home)
      /\ \A q \in ProjectsOf(home) : \E i \in 1 .. MaxProjects : info.list[i] = q /\ q # None
  BY <1>1, InfoFacts, ProjectsFacts
<1>4. projid \in 1 .. MaxProjects /\ info.list[projid] = arg.project
  <2>1. \E i \in 1 .. MaxProjects : info.list[i] = arg.project
    BY <1>2, <1>3
  <2> QED BY <2>1
<1> HIDE DEF info, projid
<1>5. \A i \in 1 .. MaxProjects : list[i] = None \/ \E j \in 1 .. MaxProjects : list[i] = info.list[j]
  BY <1>3 DEF Without
<1>6. ASSUME NEW j \in 1 .. MaxProjects, j # projid
      PROVE  \E i \in 1 .. MaxProjects : list[i] = info.list[j]
  <2>1. DOMAIN info.list = 1 .. MaxProjects
    BY <1>3
  <2>2. CASE j < projid
    <3>1. list[j] = info.list[j]
      BY <2>1, <2>2 DEF Without
    <3> HIDE DEF list
    <3> QED BY <3>1
  <2>3. CASE j > projid
    <3>1. j - 1 \in 1 .. MaxProjects /\ ~(j - 1 < projid) /\ (j - 1) + 1 = j
      BY <1>4, <1>6, <2>3, BlockFacts
    <3>2. list[j - 1] = info.list[j]
      BY <2>1, <3>1 DEF Without
    <3> HIDE DEF list
    <3> QED BY <3>1, <3>2
  <2> QED BY <1>4, <1>6, <2>2, <2>3, BlockFacts
<1>7. new.list = list
  OBVIOUS
<1> HIDE DEF list, new
<1>8. ASSUME NEW q \in ProjectsOf(home)
      PROVE  home[q].count = 0 \/ \E i \in 1 .. MaxProjects : new.list[i] = q
  <2>1. PICK j \in 1 .. MaxProjects : info.list[j] = q
    BY <1>3
  <2> QED BY <1>2, <1>4, <1>6, <1>7, <2>1
<1>9. \A i \in 1 .. MaxProjects : new.list[i] = None \/ new.list[i] \in ProjectsOf(home)
  BY <1>3, <1>5, <1>7
<1> QED BY <1>1, <1>8, <1>9, InfoUsage

LEMMA SaveLastProjectUsage ==
  ASSUME CatInv, UsageInv, SaveLastProject
  PROVE  UsageInv' /\ SameOwned(home, home')
<1>1. PICK new : /\ new = [home[DriveInfo] EXCEPT !.last = arg.project]
                 /\ Write("lastproject", DriveInfo, new)
  BY DEF SaveLastProject
<1>2. ListsOK(home) /\ ListsOK(home)' /\ disturbed' = disturbed
  BY SaveLastProjectKeeps DEF SaveLastProject, CatInv
<1>3. new.list = home[DriveInfo].list
  BY <1>1, <1>2, InfoFacts
<1>4. /\ \A i \in 1 .. MaxProjects : new.list[i] = None \/ new.list[i] \in ProjectsOf(home)
      /\ \A q \in ProjectsOf(home) : \E i \in 1 .. MaxProjects : new.list[i] = q
  BY <1>2, <1>3, InfoFacts, ProjectsFacts
<1> QED BY <1>1, <1>2, <1>4, InfoUsage

\* A step whose song matters has one.
LEMMA SongOfStep ==
  ASSUME CatInv, SpaceInv, Doing("record") \/ Doing("grow")
  PROVE  arg.song \in Songs
<1>1. HasStep("count") \/ HasStep("mark") => arg.song \in Songs
  BY DEF CatInv, ArgFits, NewSongFits, SpaceInv, SongFits
<1>2. HasStep("enlist") => HasStep("count")
  BY DEF CatInv, StepsFit, HasStep
<1>3. HasStep("record") \/ HasStep("grow")
  BY DoingFacts
<1> HIDE DEF HasStep
<1> QED BY <1>1, <1>2, <1>3 DEF SpaceInv, SongFits

\* The steps that write a record or the clusters in use, and those that change
\* what a project counts.
LEMMA OtherStepsUsage ==
  ASSUME CatInv, SpaceInv, UsageInv,
         WriteRecord \/ Unmark \/ Grow \/ Mark \/ CountSong \/ Unlist
  PROVE  UsageInv'
<1>1. CASE WriteRecord
  <2>1. arg.song \in Songs
    BY <1>1, SongOfStep DEF WriteRecord, Write
  <2> QED BY <1>1, <2>1, OtherUsage DEF WriteRecord
<1>2. CASE Grow
  <2>1. arg.song \in Songs
    BY <1>2, SongOfStep DEF Grow, Write
  <2> QED BY <1>2, <2>1, OtherUsage DEF Grow
<1>3. CASE Unmark
  BY <1>3, OtherUsage DEF Unmark
<1>4. CASE Mark
  BY <1>4, OtherUsage DEF Mark
<1>5. CASE CountSong
  BY <1>5, RecountedLater DEF CountSong
<1>6. CASE Unlist
  BY <1>6, RecountedLater DEF Unlist
<1> QED BY <1>1, <1>2, <1>3, <1>4, <1>5, <1>6

\* Nothing was to be done, and an operation begins.
LEMMA BegunUsage ==
  ASSUME UsageInv, NEW steps, Complete(steps), NEW p, NEW id, NEW s, NEW space,
         Begin(steps, p, id, s, space)
  PROVE  UsageInv'
<1>1. /\ running /\ todo = <<>> /\ todo' = steps /\ UNCHANGED <<home, running, disturbed>>
  BY DEF Begin, Idle
<1>2. \A step : ~HasStep(step)
  BY <1>1 DEF HasStep
<1>3. \A step : HasStep(step)' <=> \E i \in 1 .. Len(steps) : steps[i] = step
  BY <1>1 DEF HasStep
<1>4. Rewritten(todo)'
  BY <1>1 DEF Complete
<1> HIDE DEF HasStep
<1>5. /\ HasStep("songs")' => HasStep("usage")'
      /\ HasStep("dropproject")' => HasStep("allsongs")'
  BY <1>3 DEF Complete
<1>6. ~disturbed => home[SongUsage] = Listed(home) /\ home[Superblock] = Cardinality(home[SongUsage])
  BY <1>2 DEF UsageInv
<1> QED BY <1>1, <1>4, <1>5, <1>6 DEF UsageInv

LEMMA OperateUsage ==
  ASSUME CatInv, SpaceInv, UsageInv, Operate
  PROVE  UsageInv'
<1>1. ASSUME NEW p \in ProjectsOf(home), CreateSong(p)
      PROVE  UsageInv'
  <2>1. PICK slot, s : Begin(CreateSongSteps(TRUE), p, slot, s, {})
    BY <1>1, CreateSongSelects
  <2> QED BY <2>1, BegunUsage, BeginningsComplete
<1>2. ASSUME NEW p \in ProjectsOf(home), NEW id \in 1 .. MaxSongs,
             \/ DeleteSong(p, id) \/ SelectSong(p, id)
             \/ \E space \in SUBSET Clusters : LengthenSong(p, id, space)
      PROVE  UsageInv'
  <2>1. \E steps \in {DeleteSongSteps, LengthenSteps, <<"lastsong", "commit">>} :
          \E s, space : Begin(steps, p, id, s, space)
    BY <1>2 DEF DeleteSong, LengthenSong, SelectSong
  <2> QED BY <2>1, BegunUsage, BeginningsComplete
<1>3. ASSUME NEW p \in ProjectsOf(home), SortSongs(p)
      PROVE  UsageInv'
  BY <1>3, BegunUsage, BeginningsComplete DEF SortSongs
<1>4. ASSUME CreateProject
      PROVE  UsageInv'
  BY <1>4, BegunUsage, BeginningsComplete DEF CreateProject
<1>5. ASSUME NEW id \in 1 .. home[DriveInfo].count, DeleteProject(id) \/ SelectProject(id)
      PROVE  UsageInv'
  BY <1>5, BegunUsage, BeginningsComplete DEF DeleteProject, SelectProject
<1> QED BY <1>1, <1>2, <1>3, <1>4, <1>5 DEF Operate

LEMMA DeleteSongsUsage == CatInv /\ UsageInv /\ DeleteSongs => UsageInv'
<1> SUFFICES ASSUME CatInv, UsageInv, DeleteSongs PROVE UsageInv'
  OBVIOUS
<1>1. /\ Doing("allsongs") /\ running /\ todo # <<>> /\ Head(todo) = "allsongs"
      /\ UNCHANGED <<home, running, disturbed>> /\ StepsFit(todo) /\ Rewritten(todo)
      /\ arg \in ArgContent
  BY DEF DeleteSongs, Doing, CatInv, UsageInv
<1>2. HasStep("allsongs")
  BY <1>1, DoingFacts
<1>3. CASE todo' = DeleteSongSteps \o todo
  <2>1. Rewritten(todo)' /\ HasStep("usage")' /\ HasStep("songs")' /\ HasStep("allsongs")'
    BY <1>1, <1>2, <1>3, MoreSongsRewritten
  <2> HIDE DEF HasStep
  <2> QED BY <1>1, <2>1 DEF UsageInv
<1>4. CASE ~(project.count > 0) /\ todo' = Tail(todo) /\ UNCHANGED arg
  <2>1. Rewritten(todo)'
    BY <1>1, <1>4, RewritesKept
  <2>2. /\ \A s : HasStep(s)' => HasStep(s) /\ s \in After("allsongs")
        /\ \A s : HasStep(s) => s = "allsongs" \/ HasStep(s)'
    BY <1>1, <1>4, DoingFacts
  <2>3. arg.project \in ProjectsOf(home) /\ ListsOK(home)
    BY <1>2 DEF CatInv, ArgFits
  <2>4. home'[arg'.project].count = 0
    <3>1. project.count \in 0 .. MaxSongs
      BY <2>3, ProjectFacts DEF project
    <3>2. project.count = 0
      BY <1>4, <3>1
    <3> QED BY <1>1, <1>4, <3>2 DEF project
  <2> HIDE DEF HasStep
  <2>5. HasStep("usage")' <=> HasStep("usage")
    BY <2>2
  <2>6. HasStep("songs")' <=> HasStep("songs")
    BY <2>2
  <2> QED BY <1>1, <2>1, <2>4, <2>5, <2>6 DEF UsageInv
<1> QED BY <1>3, <1>4 DEF DeleteSongs

LEMMA EndCommitUsage == CatInv /\ UsageInv /\ EndCommit => UsageInv'
<1> SUFFICES ASSUME CatInv, UsageInv, EndCommit PROVE UsageInv'
  OBVIOUS
<1>1. /\ Doing("commit") /\ todo # <<>> /\ Head(todo) = "commit" /\ todo' = Tail(todo)
      /\ UNCHANGED <<home, arg, running, disturbed>> /\ StepsFit(todo) /\ Rewritten(todo)
  BY DEF EndCommit, Doing, CatInv, UsageInv
<1>2. Rewritten(todo)'
  BY <1>1, RewritesKept
<1>3. \A s : s # "commit" => (HasStep(s)' <=> HasStep(s))
  <2>1. \A s : (HasStep(s)' => HasStep(s)) /\ (HasStep(s) => s = "commit" \/ HasStep(s)')
    BY <1>1, DoingFacts
  <2> HIDE DEF HasStep
  <2> QED BY <2>1
<1> HIDE DEF HasStep
<1> QED BY <1>1, <1>2, <1>3 DEF UsageInv

LEMMA StopUsage == CatInv /\ UsageInv /\ (Stop \/ Repair \/ Open) => UsageInv'
<1> SUFFICES ASSUME CatInv, UsageInv, Stop \/ Repair \/ Open PROVE UsageInv'
  OBVIOUS
<1>1. todo' = <<>> /\ disturbed' = TRUE
  BY DEF Stop, Repair, Open, CatInv, UsageInv
<1>2. \A step : ~HasStep(step)'
  BY <1>1 DEF HasStep
<1>3. Rewritten(todo)'
  BY <1>1, BeginningsComplete DEF Complete
<1> HIDE DEF HasStep
<1> QED BY <1>1, <1>2, <1>3 DEF UsageInv

LEMMA SameUsage ==
  ASSUME UsageInv, UNCHANGED vars \/ CommitBlock
  PROVE  UsageInv'
<1>1. UNCHANGED <<home, todo, arg, running, disturbed>>
  BY DEF vars, CommitBlock
<1> QED BY <1>1 DEF UsageInv, Rewritten, HasStep

LEMMA InitUsage == Init => UsageInv
<1> SUFFICES ASSUME Init PROVE UsageInv
  OBVIOUS
<1>1. todo = <<>> /\ running /\ ListsOK(home)
  BY InitFits DEF Init, CatInv
<1>2. home[SongUsage] = {} /\ home[Superblock] = 0
  <2>1. /\ SongUsage \in Blocks /\ SongUsage \notin {Superblock, DriveInfo} \cup ProjectBlocks
        /\ Superblock \in Blocks
        /\ Superblock \notin {DriveInfo, SongUsage, DriveUsage} \cup Songs \cup ProjectBlocks
    BY BlockFacts, SpaceBlocks
       DEF Tables, ListBlocks, SongUsage, Superblock, DriveInfo, DriveUsage
  <2> QED BY <2>1 DEF Init
<1>3. Listed(home) = {}
  BY InitListsNone
<1>4. Cardinality(home[SongUsage]) = 0
  BY <1>2, FS_EmptySet
<1>5. \A step : ~HasStep(step)
  BY <1>1 DEF HasStep
<1>6. Rewritten(todo)
  BY <1>1, BeginningsComplete DEF Complete
<1> HIDE DEF HasStep
<1> QED BY <1>1, <1>2, <1>3, <1>4, <1>5, <1>6 DEF UsageInv

LEMMA UsageIsKept ==
  ASSUME CatInv, SpaceInv, UsageInv, [Next]_vars
  PROVE  UsageInv'
<1>1. CASE Operate
  BY <1>1, OperateUsage
<1>2. CASE WriteRecord \/ RewriteSongUsage \/ CountSongs \/ Unmark \/ Grow \/ Mark
  BY <1>2, OtherStepsUsage, UsageRewritten, SongsCounted
<1>3. CASE Enlist \/ CountSong \/ Unlist \/ Sort \/ SaveLastSong
  BY <1>3, EnlistUsage, OtherStepsUsage, SortUsage, SaveLastSongUsage
<1>4. CASE WriteProject \/ AddProject \/ DeleteSongs \/ DropProject \/ SaveLastProject
  BY <1>4, WriteProjectUsage, AddProjectUsage, DeleteSongsUsage, DropProjectUsage,
     SaveLastProjectUsage
<1>5. CASE CommitBlock \/ EndCommit \/ UNCHANGED vars
  BY <1>5, EndCommitUsage, SameUsage
<1>6. CASE Stop \/ Repair \/ Open
  BY <1>6, StopUsage
<1> QED BY <1>1, <1>2, <1>3, <1>4, <1>5, <1>6 DEF Next

\* The song usage table says which songs the projects list and the superblock
\* how many there are whenever an operation begins (createsong, deletesong and
\* deleteproject, each with rewritesongusage), unless the program was stopped
\* and has not rewritten them since, if the recorder restores the drive after a
\* stop and no stop comes between the two saves of createsong.
THEOREM UsageStaysRight ==
  ASSUME ~StopInCreate, ~DirtyReopen
  PROVE  Spec => []UsageAgrees
<1> DEFINE Inv == CatInv /\ SpaceInv /\ UsageInv
<1>1. Init => Inv
  BY InitFits, InitSafe, InitUsage
<1>2. Inv /\ [Next]_vars => Inv'
  BY ListsKept, ClustersKept, UsageIsKept
<1>3. Inv => UsageAgrees
  <2> SUFFICES ASSUME UsageInv, Idle, ~disturbed
               PROVE  /\ home[SongUsage] = Listed(home)
                      /\ home[Superblock] = Cardinality(home[SongUsage])
    BY DEF UsageAgrees
  <2>1. \A step : ~HasStep(step)
    BY DEF Idle, HasStep
  <2> HIDE DEF HasStep
  <2> QED BY <2>1 DEF UsageInv
<1> HIDE DEF Inv
<1> QED BY <1>1, <1>2, <1>3, PTL DEF Spec

------------------------------------------------------------------------------
(* The types. *)

\* What CatInv leaves open.
TypeInv ==
  /\ \A b \in Blocks \ ListBlocks : home[b] \in Content(b) /\ backup[b] \in Content(b)
  /\ arg.id \in 0 .. MaxProjects + MaxSongs /\ disturbed \in BOOLEAN

LEMMA ContentFacts ==
  /\ Content(Superblock) = 0 .. MaxEntries /\ Content(DriveInfo) = InfoContent
  /\ Content(SongUsage) = SUBSET Songs
  /\ \A b \in ProjectBlocks : Content(b) = ProjectContent
  /\ \A b \in Songs \cup {DriveUsage} : Content(b) = SUBSET Clusters
  /\ Blocks \ ListBlocks = Tables \cup Songs
<1>1. /\ DriveInfo \notin {Superblock} /\ SongUsage \notin {Superblock, DriveInfo}
      /\ \A b \in ProjectBlocks : b \notin {Superblock, DriveInfo, SongUsage}
      /\ \A b \in Songs \cup {DriveUsage} :
           b \notin {Superblock, DriveInfo, SongUsage} \cup ProjectBlocks
  BY BlockFacts, CatalogAssumption
     DEF Superblock, DriveInfo, SongUsage, DriveUsage, Songs, FirstSong, FirstProject, ProjectBlocks
<1>2. Content(Superblock) = 0 .. MaxEntries
  BY DEF Content
<1>3. Content(DriveInfo) = InfoContent
  BY <1>1 DEF Content, InfoContent
<1>4. Content(SongUsage) = SUBSET Songs
  BY <1>1 DEF Content
<1>5. \A b \in ProjectBlocks : Content(b) = ProjectContent
  BY <1>1 DEF Content, ProjectContent
<1>6. \A b \in Songs \cup {DriveUsage} : Content(b) = SUBSET Clusters
  BY <1>1 DEF Content
<1>7. Blocks \ ListBlocks = Tables \cup Songs
  BY BlockFacts, CatalogAssumption
     DEF Blocks, ListBlocks, Tables, Songs, FirstSong, FirstProject, ProjectBlocks, Superblock,
         DriveInfo, SongUsage, DriveUsage
<1> QED BY <1>2, <1>3, <1>4, <1>5, <1>6, <1>7

LEMMA TypesHold == CatInv /\ TypeInv => TypeOK
<1> SUFFICES ASSUME CatInv, TypeInv PROVE TypeOK
  OBVIOUS
<1>1. /\ ListTypes(home) /\ ListTypes(backup) /\ todo \in Seq(Steps)
      /\ arg \in ArgContent /\ running \in BOOLEAN
  BY DEF CatInv, ListsOK, StepsFit
<1>2. ASSUME NEW b \in Blocks
      PROVE  home[b] \in Content(b) /\ backup[b] \in Content(b)
  <2>1. CASE b \in ListBlocks
    BY <1>1, <2>1, ContentFacts DEF ListBlocks, ListTypes
  <2>2. CASE b \notin ListBlocks
    BY <2>2 DEF TypeInv
  <2> QED BY <2>1, <2>2
<1>3. arg \in [project : ProjectBlocks \cup {None}, id : 0 .. MaxProjects + MaxSongs,
               song : Songs \cup {None}, space : SUBSET Clusters]
  BY <1>1 DEF ArgContent, TypeInv
<1> QED BY <1>1, <1>2, <1>3 DEF TypeOK, ListTypes, TypeInv

LEMMA StepTypes ==
  ASSUME CatInv, TypeInv, NEW step, NEW b \in Blocks, NEW content, Write(step, b, content),
         b \in ListBlocks \/ content \in Content(b), disturbed' \in BOOLEAN
  PROVE  TypeInv'
<1>1. UNCHANGED <<backup, arg>> /\ \A c \in Blocks : home'[c] = IF c = b THEN content ELSE home[c]
  BY DEF Write, CatInv, ListsOK, ListTypes
<1> QED BY <1>1 DEF TypeInv

LEMMA OtherTypes ==
  ASSUME CatInv, SpaceInv, TypeInv,
         WriteRecord \/ RewriteSongUsage \/ CountSongs \/ Unmark \/ Grow \/ Mark
  PROVE  TypeInv'
<1>1. /\ home[DriveUsage] \subseteq Clusters /\ home[SongUsage] \subseteq Songs
      /\ \A s \in Songs : home[s] \subseteq Clusters
      /\ arg.space \subseteq Clusters /\ disturbed \in BOOLEAN
      /\ Songs \cup {Superblock, SongUsage, DriveUsage} \subseteq Blocks
  BY ContentFacts, SpaceBlocks DEF TypeInv, CatInv, ArgContent, Tables
<1>2. CASE WriteRecord
  <2>1. arg.song \in Songs
    BY <1>2, SongOfStep DEF WriteRecord, Write
  <2>2. {} \in Content(arg.song)
    BY <2>1, ContentFacts
  <2> QED BY <1>1, <1>2, <2>1, <2>2, StepTypes DEF WriteRecord
<1>3. CASE Grow
  <2>1. arg.song \in Songs
    BY <1>3, SongOfStep DEF Grow, Write
  <2>2. home[arg.song] \cup arg.space \in Content(arg.song)
    BY <1>1, <2>1, ContentFacts
  <2> QED BY <1>1, <1>3, <2>1, <2>2, StepTypes DEF Grow
<1>4. CASE Unmark \/ Mark
  <2>1. /\ home[DriveUsage] \ home[arg.song] \in Content(DriveUsage)
        /\ home[DriveUsage] \cup arg.space \in Content(DriveUsage)
    BY <1>1, ContentFacts
  <2> QED BY <1>1, <1>4, <2>1, StepTypes DEF Unmark, Mark
<1>5. CASE RewriteSongUsage
  <2>1. Listed(home) \in Content(SongUsage)
    BY ContentFacts, ListedAre DEF CatInv
  <2> QED BY <1>1, <1>5, <2>1, StepTypes DEF RewriteSongUsage
<1>6. CASE CountSongs
  <2>1. Cardinality(home[SongUsage]) \in 0 .. MaxEntries
    <3>1. FirstSong \in Int /\ FirstSong + MaxEntries - 1 \in Int /\ MaxEntries \in Nat \ {0}
      BY BlockFacts, CatalogAssumption DEF FirstSong, FirstProject
    <3>2. IsFiniteSet(Songs) /\ Cardinality(Songs) = MaxEntries
      BY <3>1, FS_Interval DEF Songs
    <3>3. Cardinality(home[SongUsage]) <= MaxEntries /\ IsFiniteSet(home[SongUsage])
      BY <1>1, <3>2, FS_Subset
    <3>4. Cardinality(home[SongUsage]) \in Nat
      BY <3>3, FS_CardinalityType
    <3> QED BY <3>1, <3>3, <3>4
  <2> QED BY <1>1, <1>6, <2>1, ContentFacts, StepTypes DEF CountSongs
<1> QED BY <1>2, <1>3, <1>4, <1>5, <1>6

LEMMA ListTypesKept ==
  ASSUME CatInv, TypeInv,
         \/ Enlist \/ CountSong \/ Unlist \/ Sort \/ SaveLastSong
         \/ WriteProject \/ AddProject \/ DropProject \/ SaveLastProject
  PROVE  TypeInv'
<1>1. PICK step \in ListWriters : Doing(step) /\ disturbed' = disturbed /\
        \E content : Write(step, IF step \in {"addproject", "dropproject", "lastproject"}
                                 THEN DriveInfo ELSE arg.project, content)
  BY DEF Enlist, CountSong, Unlist, Sort, SaveLastSong, WriteProject, AddProject, DropProject,
         SaveLastProject, Write, ListWriters
<1>2. HasStep(step) /\ ListsOK(home)
  BY <1>1, DoingFacts
<1>3. HasStep("enlist") => HasStep("count")
  BY DEF CatInv, StepsFit, HasStep
<1>4. step \in {"addproject", "dropproject", "lastproject"} \/ arg.project \in ProjectBlocks
  <2> HIDE DEF HasStep
  <2> QED BY <1>1, <1>2, <1>3, ProjectsFacts
          DEF CatInv, ArgFits, NewSongFits, NewProjectFits, ListWriters
<1> QED BY <1>1, <1>4, BlockFacts, StepTypes DEF ListBlocks, TypeInv

LEMMA BegunTypes ==
  ASSUME TypeInv, NEW steps, NEW p, NEW id \in 0 .. MaxProjects + MaxSongs, NEW s, NEW space,
         Begin(steps, p, id, s, space)
  PROVE  TypeInv'
BY DEF Begin, TypeInv

LEMMA OperateTypes ==
  ASSUME CatInv, SpaceInv, TypeInv, Operate
  PROVE  TypeInv'
<1>1. /\ \A id \in 1 .. MaxSongs : id \in 0 .. MaxProjects + MaxSongs
      /\ \A id \in 1 .. MaxProjects : id \in 0 .. MaxProjects + MaxSongs
      /\ 0 \in 0 .. MaxProjects + MaxSongs
  BY BlockFacts
<1>2. ASSUME NEW p \in ProjectsOf(home), CreateSong(p)
      PROVE  TypeInv'
  BY <1>1, <1>2, CreateSongSelects, BegunTypes
<1>3. ASSUME NEW p \in ProjectsOf(home), NEW id \in 1 .. MaxSongs,
             \/ DeleteSong(p, id) \/ SelectSong(p, id)
             \/ \E space \in SUBSET Clusters : LengthenSong(p, id, space)
      PROVE  TypeInv'
  BY <1>1, <1>3, BegunTypes DEF DeleteSong, SelectSong, LengthenSong
<1>4. ASSUME NEW p \in ProjectsOf(home), SortSongs(p)
      PROVE  TypeInv'
  BY <1>1, <1>4, BegunTypes DEF SortSongs
<1>5. /\ home[DriveInfo].list \in [1 .. MaxProjects -> ProjectBlocks \cup {None}]
      /\ home[DriveInfo].count \in 0 .. MaxProjects
  BY InfoFacts DEF CatInv
<1>6. ASSUME CreateProject
      PROVE  TypeInv'
  <2>1. Unused(home[DriveInfo].list) \in SUBSET (1 .. MaxProjects)
    BY <1>5 DEF Unused
  <2>2. Unused(home[DriveInfo].list) \in SUBSET Nat /\ Unused(home[DriveInfo].list) # {}
    BY <1>6, <2>1 DEF CreateProject
  <2>3. Least(Unused(home[DriveInfo].list)) \in 1 .. MaxProjects
    BY <2>1, <2>2, LeastIsLeast
  <2> QED BY <1>1, <1>6, <2>3, BegunTypes DEF CreateProject
<1>7. ASSUME NEW id \in 1 .. home[DriveInfo].count, DeleteProject(id) \/ SelectProject(id)
      PROVE  TypeInv'
  <2>1. id \in 1 .. MaxProjects
    BY <1>5, BlockFacts
  <2> QED BY <1>1, <1>7, <2>1, BegunTypes DEF DeleteProject, SelectProject
<1> QED BY <1>2, <1>3, <1>4, <1>6, <1>7 DEF Operate

LEMMA RestTypes ==
  ASSUME CatInv, TypeInv,
         \/ DeleteSongs \/ CommitBlock \/ EndCommit \/ Stop \/ Repair \/ Open
         \/ UNCHANGED vars
  PROVE  TypeInv'
<1>1. CASE DeleteSongs
  <2>1. UNCHANGED <<home, backup, disturbed>> /\ arg'.id \in {1, arg.id}
    BY <1>1 DEF DeleteSongs, CatInv, ArgContent
  <2> QED BY <2>1, BlockFacts DEF TypeInv
<1>2. CASE CommitBlock
  <2>1. /\ UNCHANGED <<home, arg, disturbed>>
        /\ \A b \in Blocks : backup'[b] \in {home[b], backup[b]}
    <3>1. \A b \in Blocks : backup'[b] = IF b = NextBlock THEN home[b] ELSE backup[b]
      BY <1>2 DEF CommitBlock, CatInv, ListsOK, ListTypes
    <3> QED BY <1>2, <3>1 DEF CommitBlock
  <2> QED BY <2>1 DEF TypeInv
<1>3. CASE EndCommit \/ Open \/ UNCHANGED vars
  BY <1>3 DEF EndCommit, Open, vars, TypeInv
<1>4. CASE Stop
  BY <1>4, BlockFacts DEF Stop, NoArg, TypeInv
<1>5. CASE Repair
  BY <1>5 DEF Repair, TypeInv
<1> QED BY <1>1, <1>2, <1>3, <1>4, <1>5

LEMMA InitTypes == Init => TypeInv
<1> SUFFICES ASSUME Init PROVE TypeInv
  OBVIOUS
<1>1. /\ Superblock \notin {DriveInfo, SongUsage, DriveUsage} \cup Songs \cup ProjectBlocks
      /\ {SongUsage, DriveUsage} \cup Songs \subseteq Blocks /\ Superblock \in Blocks
      /\ \A b \in {SongUsage, DriveUsage} \cup Songs :
           b \notin {Superblock, DriveInfo} \cup ProjectBlocks
  BY BlockFacts, SpaceBlocks, CatalogAssumption
     DEF Tables, ListBlocks, SongUsage, Superblock, DriveInfo, DriveUsage, Songs, FirstSong,
         FirstProject
<1>2. home[Superblock] = 0 /\ \A b \in {SongUsage, DriveUsage} \cup Songs : home[b] = {}
  BY <1>1 DEF Init
<1>3. \A b \in Blocks \ ListBlocks : home[b] \in Content(b)
  <2>1. Blocks \ ListBlocks = {Superblock, SongUsage, DriveUsage} \cup Songs
    BY ContentFacts DEF Tables
  <2>2. home[Superblock] \in Content(Superblock) /\ home[SongUsage] \in Content(SongUsage)
    BY <1>2, ContentFacts, BlockFacts
  <2>3. ASSUME NEW b \in Songs \cup {DriveUsage}
        PROVE  home[b] \in Content(b)
    <3>1. home[b] = {} /\ Content(b) = SUBSET Clusters
      BY <1>2, ContentFacts
    <3> QED BY <3>1
  <2> QED BY <2>1, <2>2, <2>3
<1>4. backup = home /\ arg = NoArg /\ disturbed = FALSE
  BY DEF Init
<1>5. arg.id \in 0 .. MaxProjects + MaxSongs /\ disturbed \in BOOLEAN
  <2>1. 0 \in 0 .. MaxProjects + MaxSongs
    BY BlockFacts
  <2>2. arg.id = 0
    BY <1>4 DEF NoArg
  <2>3. disturbed \in BOOLEAN
    BY <1>4
  <2> QED BY <2>1, <2>2, <2>3
<1>6. \A b \in Blocks \ ListBlocks : home[b] \in Content(b) /\ backup[b] \in Content(b)
  BY <1>3, <1>4, Zenon
<1> QED BY <1>5, <1>6 DEF TypeInv

\* Every block, what is to be done and what it is about are of the kinds that
\* the file system's blocks and operations have, on a drive of any size.
THEOREM TypesStayRight ==
  ASSUME ~StopInCreate, ~DirtyReopen
  PROVE  Spec => []TypeOK
<1> DEFINE Inv == CatInv /\ SpaceInv /\ TypeInv
<1>1. Init => Inv
  BY InitFits, InitSafe, InitTypes
<1>2. Inv /\ [Next]_vars => Inv'
  BY ListsKept, ClustersKept, OtherTypes, ListTypesKept, OperateTypes, RestTypes DEF Next
<1>3. Inv => TypeOK
  BY TypesHold
<1> HIDE DEF Inv
<1> QED BY <1>1, <1>2, <1>3, PTL DEF Spec

------------------------------------------------------------------------------
(* The catalog as a book: what survives a stop changes by one song at a    *)
(* time.                                                                   *)

\* A song is added to a project, or taken away from its project.
OneMore(img, other, q, t) ==
  /\ q \in ProjectBlocks /\ t \in Songs \ Listed(img)
  /\ \A p, s : Owned(other, p, s) <=> Owned(img, p, s) \/ (p = q /\ s = t)
OneLess(img, other, t) ==
  /\ t \in Listed(img)
  /\ \A p, s : Owned(other, p, s) <=> Owned(img, p, s) /\ s # t

\* The lists in the copies differ by nothing, by a song without clusters that
\* is added, or by a song that is taken away.
ListsMove ==
  \/ SameOwned(backup, home)
  \/ \E q, t : OneMore(backup, home, q, t) /\ backup[t] = {}
  \/ \E t : OneLess(backup, home, t)

\* The copies of a song differ when it is cleared and no project counts it, or
\* when it has more clusters, which no song of a project has.
Cleared(s) ==
  /\ HasStep("count") \/ todo = <<>>
  /\ home[s] = {} /\ s \notin Listed(home) /\ s \notin Listed(backup)
Grown(s) ==
  /\ InStep /\ \A step : HasStep(step) => step \in {"mark", "commit"}
  /\ s \in Listed(backup)
  /\ \E C \in SUBSET Clusters : /\ home[s] = backup[s] \cup C
                                /\ \A t \in Listed(backup) : C \cap backup[t] = {}

SongsInStep == \A s \in Songs : home[s] = backup[s]
SongsMove ==
  \/ SongsInStep
  \/ \E s \in Songs : /\ \A t \in Songs \ {s} : home[t] = backup[t]
                      /\ Cleared(s) \/ Grown(s)

\* createsong and the lengthening begin with nothing to commit.
StartsFit ==
  /\ HasStep("record") => OutOfStep = {}
  /\ HasStep("grow") => arg.song \in Listed(home)

BookInv == ListsMove /\ SongsMove /\ StartsFit

\* Lists that are the same have the same songs.
LEMMA SameBlocksOwn ==
  ASSUME NEW img, NEW other, ListsOK(img), \A b \in ListBlocks : other[b] = img[b]
  PROVE  SameOwned(img, other) /\ Listed(other) = Listed(img)
<1>1. other[DriveInfo] = img[DriveInfo] /\ \A p \in ProjectBlocks : other[p] = img[p]
  BY DEF ListBlocks
<1>2. ProjectsOf(other) = ProjectsOf(img) /\ ProjectsOf(img) \subseteq ProjectBlocks
  BY <1>1, ProjectsFacts DEF ProjectsOf
<1>3. \A p \in ProjectsOf(img) : SongsOf(other, p) = SongsOf(img, p)
  BY <1>1, <1>2 DEF SongsOf
<1>4. SameOwned(img, other)
  BY <1>2, <1>3 DEF SameOwned, Owned
<1> QED BY <1>4, SameListed

\* What the songs of a project are after it is written.
LEMMA ProjectOwns ==
  ASSUME ListsOK(home), ListsOK(home)', NEW p \in ProjectsOf(home), NEW new,
         home' = [home EXCEPT ![p] = new]
  PROVE  \A q, s : Owned(home', q, s) <=>
           \/ q # p /\ Owned(home, q, s)
           \/ /\ q = p /\ s # None
              /\ \E i \in 1 .. MaxSongs : i <= new.count /\ new.list[i] = s
<1>1. p \in ProjectBlocks
  BY ProjectsFacts
<1>2. /\ home'[p] = new /\ home'[DriveInfo] = home[DriveInfo]
      /\ \A q \in ProjectBlocks : q # p => home'[q] = home[q]
  BY <1>1, BlockFacts DEF ListsOK, ListTypes
<1>3. PICK img : img = home' /\ ListsOK(img)
  OBVIOUS
<1>4. ProjectsOf(img) = ProjectsOf(home) /\ ProjectsOf(home) \subseteq ProjectBlocks
  BY <1>2, <1>3, ProjectsFacts DEF ProjectsOf
<1>5. OwnedFits(home) /\ OwnedFits(img)
  BY <1>3, OwnedFacts
<1> SUFFICES ASSUME NEW q, NEW s
             PROVE  Owned(img, q, s) <=>
                      \/ q # p /\ Owned(home, q, s)
                      \/ /\ q = p /\ s # None
                         /\ \E i \in 1 .. MaxSongs : i <= new.count /\ new.list[i] = s
  BY <1>3
<1>6. CASE q = p
  <2>1. img[q] = new
    BY <1>2, <1>3, <1>6
  <2> QED BY <1>4, <1>5, <1>6, <2>1 DEF OwnedFits
<1>7. CASE q # p /\ q \in ProjectsOf(home)
  <2>1. img[q] = home[q]
    BY <1>2, <1>3, <1>4, <1>7
  <2> QED BY <1>4, <1>5, <1>7, <2>1 DEF OwnedFits
<1>8. CASE q \notin ProjectsOf(home)
  BY <1>4, <1>8 DEF Owned
<1> QED BY <1>6, <1>7, <1>8

\* The song to be made is not counted yet.
LEMMA NewSongUncounted ==
  ASSUME ListsOK(home), NewSongFits
  PROVE  arg.song \in Songs \ Listed(home)
<1>1. arg.project \in ProjectsOf(home) /\ arg.id = home[arg.project].count + 1 /\ arg.song \in Songs
  BY DEF NewSongFits
<1>2. home[arg.project].count \in 0 .. MaxSongs
  BY <1>1, ProjectFacts
<1>3. OwnedFits(home)
  BY OwnedFacts
<1>4. arg.song \notin Listed(home)
  <2> SUFFICES ASSUME NEW p, Owned(home, p, arg.song) PROVE FALSE
    BY <1>3 DEF OwnedFits
  <2>1. PICK i \in 1 .. MaxSongs : /\ p \in ProjectsOf(home) /\ i <= home[p].count
                                  /\ home[p].list[i] = arg.song
    BY <1>3 DEF OwnedFits
  <2>2. p = arg.project /\ i = arg.id
    BY <2>1 DEF NewSongFits
  <2> QED BY <1>1, <1>2, <2>1, <2>2
<1> QED BY <1>1, <1>4

\* A song is counted: it comes to its project, without clusters.
LEMMA SongCounted ==
  ASSUME CatInv, SpaceInv, CountSong
  PROVE  OneMore(home, home', arg.project, arg.song) /\ OutOfStep = {} /\ backup[arg.song] = {}
<1> DEFINE s == arg.song
           new == [list |-> [project.list EXCEPT ![arg.id] = s],
                   count |-> project.count + 1, last |-> project.last]
<1>1. /\ Write("count", arg.project, [enlisted EXCEPT !.count = @ + 1])
      /\ Doing("count") /\ todo' = Tail(todo) /\ running /\ Head(todo) = "count"
      /\ ListsOK(home)'
  BY CountSongKeeps DEF CountSong, Write, CatInv, Doing
<1>2. /\ HasStep("count") /\ ListsOK(home)
      /\ \A x : HasStep(x)' => x \in After("count")
      /\ \A x : HasStep(x) => x = "count" \/ HasStep(x)'
  BY <1>1, DoingFacts
<1>3. /\ arg.project \in ProjectsOf(home) /\ s \in Songs /\ arg.id = project.count + 1
      /\ arg.id <= MaxSongs
  BY <1>2 DEF CatInv, ArgFits, NewSongFits, project
<1>4. /\ arg.project \in ProjectBlocks /\ project.count \in 0 .. MaxSongs
      /\ project.list \in [1 .. MaxSongs -> Songs \cup {None}]
      /\ project = [list |-> project.list, count |-> project.count, last |-> project.last]
  BY <1>2, <1>3, ProjectFacts DEF project
<1>5. ~HasStep("record") /\ ~HasStep("enlist")
  <2> HIDE DEF HasStep
  <2> QED BY <1>2 DEF After
<1>6. home[s] = {} /\ project.list[arg.id] = s /\ OutOfStep = {}
  <2> HIDE DEF HasStep
  <2> QED BY <1>1, <1>2, <1>5 DEF SpaceInv, SongFits, Settles, Settled
<1>7. backup[s] = {}
  BY <1>3, <1>6, SpaceBlocks DEF OutOfStep
<1>8. [enlisted EXCEPT !.count = @ + 1] = new
  <2>1. enlisted = [list |-> [project.list EXCEPT ![arg.id] = s],
                    count |-> project.count, last |-> project.last]
    BY <1>4 DEF enlisted
  <2> QED BY <2>1
<1>9. /\ new.count = project.count + 1
      /\ \A i \in 1 .. MaxSongs : new.list[i] = project.list[i]
  BY <1>4, <1>6
<1>10. home' = [home EXCEPT ![arg.project] = new]
  BY <1>1, <1>8 DEF Write
<1>11. s # None /\ arg.id \in 1 .. MaxSongs
  BY <1>3, <1>4, BlockFacts
<1> HIDE DEF new, s
<1>12. \A q, t : Owned(home', q, t) <=>
         \/ q # arg.project /\ Owned(home, q, t)
         \/ /\ q = arg.project /\ t # None
            /\ \E i \in 1 .. MaxSongs : i <= new.count /\ new.list[i] = t
  BY <1>1, <1>2, <1>3, <1>10, ProjectOwns
<1>13. OwnedFits(home)
  BY <1>2, OwnedFacts
<1>14. ASSUME NEW t
       PROVE  (\E i \in 1 .. MaxSongs : i <= new.count /\ new.list[i] = t)
              <=> t = s \/ \E i \in 1 .. MaxSongs : i <= project.count /\ project.list[i] = t
  <2>1. \A i \in 1 .. MaxSongs : i <= new.count <=> i <= project.count \/ i = arg.id
    BY <1>3, <1>4, <1>9
  <2> QED BY <1>6, <1>9, <1>11, <2>1
<1>15. \A t : Owned(home, arg.project, t) <=>
                t # None /\ \E i \in 1 .. MaxSongs : i <= project.count /\ project.list[i] = t
  BY <1>3, <1>13 DEF OwnedFits, project
<1>16. \A q, t : Owned(home', q, t) <=> Owned(home, q, t) \/ (q = arg.project /\ t = s)
  BY <1>11, <1>12, <1>14, <1>15
<1>17. s \notin Listed(home)
  BY <1>2, NewSongUncounted DEF CatInv, ArgFits, s
<1> QED BY <1>3, <1>4, <1>6, <1>7, <1>16, <1>17 DEF OneMore, s

\* A song is taken from the list: it leaves its project.
LEMMA SongUnlisted ==
  ASSUME CatInv, SpaceInv, Unlist
  PROVE  OneLess(home, home', arg.song)
<1> DEFINE s == arg.song
           p == arg.project
           list == Without(project.list, arg.id)
           new == [list |-> list, count |-> project.count - 1, last |-> list[1]]
<1>1. /\ Write("unlist", p, new) /\ Doing("unlist")
      /\ home' = [home EXCEPT ![p] = new] /\ ListsOK(home)'
  BY UnlistKeeps DEF Unlist, Write, CatInv
<1>2. HasStep("unlist") /\ ListsOK(home)
  BY <1>1, DoingFacts
<1>3. /\ p \in ProjectsOf(home) /\ arg.id \in 1 .. project.count
      /\ s = project.list[arg.id]
  BY <1>2 DEF CatInv, ArgFits, SpaceInv, SongFits, project
<1>4. /\ project.list \in [1 .. MaxSongs -> Songs \cup {None}]
      /\ project.count \in 0 .. MaxSongs
      /\ \A i \in 1 .. project.count : i \in 1 .. MaxSongs /\ project.list[i] # None
  BY <1>2, <1>3, ProjectFacts DEF project
<1>5. arg.id \in 1 .. MaxSongs /\ s \in Songs /\ s # None /\ arg.id <= project.count
  <2>1. arg.id \in 1 .. MaxSongs /\ s \in Songs /\ s # None
    BY <1>3, <1>4
  <2> QED BY <1>3, <1>4, <2>1
<1>6. \A q \in ProjectsOf(home), i \in 1 .. MaxSongs : home[q].list[i] = s => q = p /\ i = arg.id
  BY <1>2, <1>3, <1>5 DEF ListsOK, SongsDistinct, project
<1>7. /\ new.list = list /\ new.count = project.count - 1
      /\ \A i \in 1 .. MaxSongs :
           list[i] = IF i < arg.id THEN project.list[i]
                     ELSE IF i + 1 \in 1 .. MaxSongs THEN project.list[i + 1] ELSE None
  BY <1>4 DEF Without
<1> HIDE DEF new, list, s, p
<1>8. \A q, t : Owned(home', q, t) <=>
         \/ q # p /\ Owned(home, q, t)
         \/ /\ q = p /\ t # None
            /\ \E i \in 1 .. MaxSongs : i <= new.count /\ new.list[i] = t
  BY <1>1, <1>2, <1>3, ProjectOwns
<1>9. OwnedFits(home)
  BY <1>2, OwnedFacts
<1>10. ASSUME NEW i \in 1 .. MaxSongs, i <= new.count
       PROVE  \E j \in 1 .. MaxSongs : j <= project.count /\ j # arg.id /\ project.list[j] = list[i]
  <2>1. CASE i < arg.id
    BY <1>4, <1>5, <1>7, <1>10, <2>1
  <2>2. CASE ~(i < arg.id)
    <3>1. i + 1 \in 1 .. MaxSongs /\ i + 1 <= project.count /\ i + 1 # arg.id
      BY <1>4, <1>5, <1>7, <1>10, <2>2
    <3>2. list[i] = project.list[i + 1]
      BY <1>7, <2>2, <3>1
    <3> QED BY <3>1, <3>2
  <2> QED BY <2>1, <2>2
<1>11. ASSUME NEW j \in 1 .. MaxSongs, j <= project.count, j # arg.id
       PROVE  \E i \in 1 .. MaxSongs : i <= new.count /\ list[i] = project.list[j]
  <2>1. CASE j < arg.id
    <3>1. j <= new.count /\ list[j] = project.list[j]
      BY <1>4, <1>5, <1>7, <2>1
    <3> QED BY <3>1
  <2>2. CASE ~(j < arg.id)
    <3>1. j - 1 \in 1 .. MaxSongs /\ ~(j - 1 < arg.id) /\ (j - 1) + 1 = j /\ j - 1 <= new.count
      BY <1>4, <1>5, <1>7, <1>11, <2>2
    <3>2. list[j - 1] = project.list[j]
      BY <1>7, <3>1
    <3> QED BY <3>1, <3>2
  <2> QED BY <2>1, <2>2
<1>12. ASSUME NEW t
       PROVE  (\E i \in 1 .. MaxSongs : i <= new.count /\ new.list[i] = t)
              <=> \E j \in 1 .. MaxSongs : j <= project.count /\ project.list[j] = t /\ j # arg.id
  BY <1>7, <1>10, <1>11
<1>13. \A t : Owned(home, p, t) <=>
                t # None /\ \E i \in 1 .. MaxSongs : i <= project.count /\ project.list[i] = t
  BY <1>3, <1>9 DEF OwnedFits, project, p
<1>14. \A i \in 1 .. MaxSongs : project.list[i] = s <=> i = arg.id
  BY <1>3, <1>6 DEF project, p
<1>15. \A t : Owned(home', p, t) <=> Owned(home, p, t) /\ t # s
  BY <1>8, <1>12, <1>13, <1>14
<1>16. ASSUME NEW q, q # p
       PROVE  ~Owned(home, q, s)
  BY <1>6, <1>9, <1>16 DEF OwnedFits
<1>17. \A q, t : Owned(home', q, t) <=> Owned(home, q, t) /\ t # s
  <2> SUFFICES ASSUME NEW q, NEW t
               PROVE  Owned(home', q, t) <=> Owned(home, q, t) /\ t # s
    OBVIOUS
  <2>1. CASE q = p
    BY <1>15, <2>1
  <2>2. CASE q # p
    BY <1>8, <1>16, <2>2
  <2> QED BY <2>1, <2>2
<1>18. s \in Listed(home)
  BY <1>3, <1>5, <1>9, <1>13 DEF OwnedFits
<1> QED BY <1>17, <1>18 DEF OneLess, s

\* What is to be done is the step that is being done or may follow it.
LEMMA StepsLeft ==
  ASSUME CatInv, NEW step, Doing(step)
  PROVE  \A s : HasStep(s) => s = step \/ s \in After(step)
<1>1. /\ StepsFit(todo) /\ step = todo[1] /\ Len(todo) \in Nat \ {0}
  BY TailFits DEF CatInv, Doing
<1> SUFFICES ASSUME NEW i \in 1 .. Len(todo), i # 1 PROVE todo[i] \in After(todo[1])
  BY <1>1 DEF HasStep
<1>2. 1 \in 1 .. Len(todo) /\ 1 < i
  BY <1>1
<1> QED BY <1>1, <1>2 DEF StepsFit

\* Neither createsong nor a lengthening begins in the middle of an operation.
LEMMA NothingStarts ==
  ASSUME CatInv, NEW step \in Steps, Doing(step)
  PROVE  /\ step # "record" => ~HasStep("record")
         /\ step # "grow" => ~HasStep("grow")
         /\ todo' = Tail(todo) => StartsFit'
<1>1. "record" \notin After(step) /\ "grow" \notin After(step)
  BY DEF After, Steps
<1>2. \A s : HasStep(s) => s = step \/ s \in After(step)
  BY StepsLeft
<1>3. todo' = Tail(todo) => \A s : HasStep(s)' => s \in After(step)
  BY DoingFacts
<1> HIDE DEF HasStep
<1> QED BY <1>1, <1>2, <1>3 DEF StartsFit

LEMMA SettledAll ==
  ASSUME CatInv, OutOfStep = {}
  PROVE  SongsInStep /\ InStep /\ SameOwned(backup, home) /\ Listed(home) = Listed(backup)
<1>1. \A b \in Blocks : home[b] = backup[b]
  BY DEF OutOfStep
<1>2. SongsInStep /\ InStep
  BY <1>1, BlockFacts DEF SongsInStep, InStep
<1> QED BY <1>2, SameBlocksOwn DEF InStep, CatInv

\* The copies of all songs agree but while one is made or lengthened.
LEMMA SongsSettled ==
  ASSUME CatInv, SongsMove, NEW step \in Steps \ {"record", "enlist", "count", "mark", "commit"},
         Doing(step)
  PROVE  SongsInStep
<1>1. HasStep(step) /\ todo # <<>> /\ \A s : HasStep(s) => s = step \/ s \in After(step)
  BY StepsLeft, DoingFacts DEF Doing
<1>2. "count" \notin After(step)
  BY DEF After, Steps
<1> HIDE DEF HasStep
<1>3. \A s : ~Cleared(s) /\ ~Grown(s)
  BY <1>1, <1>2 DEF Cleared, Grown
<1> QED BY <1>3 DEF SongsMove

------------------------------------------------------------------------------
(* Steps that write a list. *)

LEMMA ListStep ==
  ASSUME CatInv, \/ Enlist \/ CountSong \/ Unlist \/ Sort \/ SaveLastSong \/ WriteProject
                 \/ AddProject \/ DropProject \/ SaveLastProject
  PROVE  \E step \in ListWriters, b \in ListBlocks : \E content : Write(step, b, content)
<1>1. PICK step \in ListWriters, b \in {arg.project, DriveInfo} : \E content : Write(step, b, content)
  BY DEF Enlist, CountSong, Unlist, Sort, SaveLastSong, WriteProject, AddProject, DropProject,
         SaveLastProject, ListWriters
<1>2. HasStep(step) /\ ListsOK(home)
  BY <1>1, DoingFacts DEF Write
<1>3. HasStep("enlist") => HasStep("count")
  BY DEF CatInv, StepsFit, HasStep
<1>4. arg.project \in ProjectBlocks
  <2>1. HasStep("count") => arg.project \in ProjectsOf(home)
    BY DEF CatInv, ArgFits, NewSongFits
  <2>2. step \in {"unlist", "sort", "lastsong", "dropproject"} => arg.project \in ProjectsOf(home)
    BY <1>2 DEF CatInv, ArgFits
  <2>3. step \in {"project", "addproject", "lastproject"} => arg.project \in ProjectBlocks
    BY <1>2 DEF CatInv, ArgFits, NewProjectFits
  <2> HIDE DEF HasStep
  <2> QED BY <1>2, <1>3, <2>1, <2>2, <2>3, ProjectsFacts DEF ListWriters
<1> QED BY <1>1, <1>4 DEF ListBlocks

LEMMA ListStepFacts ==
  ASSUME CatInv, NEW step \in ListWriters, NEW b \in ListBlocks, NEW content,
         Write(step, b, content)
  PROVE  /\ Doing(step) /\ step \in Steps /\ running /\ todo' = Tail(todo)
         /\ UNCHANGED <<backup, arg, running>>
         /\ SameOwned(backup, home) /\ Listed(home) = Listed(backup)
         /\ \A s \in Songs : home'[s] = home[s]
         /\ StartsFit'
<1>1. /\ Doing(step) /\ running /\ todo # <<>> /\ Head(todo) = step /\ todo' = Tail(todo)
      /\ home' = [home EXCEPT ![b] = content] /\ UNCHANGED <<backup, arg, running>>
      /\ step \in Steps \ {"commit"} /\ StepsFit(todo) /\ CopiesAgree
  BY DEF Write, Doing, ListWriters, Steps, CatInv
<1>2. InStep
  BY <1>1, GatesKept
<1>3. SameOwned(backup, home) /\ Listed(home) = Listed(backup)
  BY <1>2, SameBlocksOwn DEF InStep, CatInv
<1>4. \A s \in Songs : home'[s] = home[s]
  BY <1>1, BlockFacts, SpaceBlocks DEF CatInv, ListsOK, ListTypes
<1>5. StartsFit'
  BY <1>1, NothingStarts
<1> QED BY <1>1, <1>3, <1>4, <1>5

LEMMA EnlistBook == CatInv /\ UsageInv /\ BookInv /\ Enlist => BookInv'
<1> SUFFICES ASSUME CatInv, UsageInv, BookInv, Enlist PROVE BookInv'
  OBVIOUS
<1>1. /\ Doing("enlist") /\ todo # <<>> /\ todo' = Tail(todo) /\ backup' = backup
      /\ SameOwned(backup, home) /\ \A s \in Songs : home'[s] = home[s]
      /\ StartsFit'
  <2>1. PICK step \in ListWriters, b \in ListBlocks :
             \E content : Write(step, b, content)
    BY ListStep
  <2> QED BY <2>1, ListStepFacts DEF Enlist, Write, Doing
<1>2. SameOwned(home, home') /\ Listed(home') = Listed(home)
  BY EnlistUsage, SameListed
<1>3. ListsMove'
  BY <1>1, <1>2 DEF ListsMove, SameOwned
<1>4. HasStep("enlist") /\ HasStep("count")'
  BY <1>1, DoingFacts
<1>5. SongsMove'
  <2>1. CASE SongsInStep
    BY <1>1, <2>1 DEF SongsInStep, SongsMove
  <2>2. CASE ~SongsInStep
    <3> HIDE DEF HasStep
    <3>1. PICK s \in Songs : /\ \A t \in Songs \ {s} : home[t] = backup[t]
                             /\ Cleared(s)
      BY <1>4, <2>2 DEF SongsMove, BookInv, Grown
    <3>2. Cleared(s)'
      BY <1>1, <1>2, <1>4, <3>1 DEF Cleared
    <3> QED BY <1>1, <3>1, <3>2 DEF SongsMove
  <2> QED BY <2>1, <2>2
<1> QED BY <1>1, <1>3, <1>5 DEF BookInv

LEMMA CountBook == CatInv /\ SpaceInv /\ BookInv /\ CountSong => BookInv'
<1> SUFFICES ASSUME CatInv, SpaceInv, BookInv, CountSong PROVE BookInv'
  OBVIOUS
<1>1. /\ backup' = backup /\ SameOwned(backup, home) /\ Listed(home) = Listed(backup)
      /\ \A s \in Songs : home'[s] = home[s]
      /\ StartsFit'
  <2>1. PICK step \in ListWriters, b \in ListBlocks :
             \E content : Write(step, b, content)
    BY ListStep
  <2> QED BY <2>1, ListStepFacts
<1>2. OneMore(home, home', arg.project, arg.song) /\ OutOfStep = {} /\ backup[arg.song] = {}
  BY SongCounted
<1>3. OneMore(backup, home', arg.project, arg.song)
  BY <1>1, <1>2 DEF OneMore, SameOwned
<1>4. ListsMove'
  BY <1>1, <1>2, <1>3 DEF ListsMove
<1>5. SongsMove'
  BY <1>1, <1>2, SettledAll DEF SongsInStep, SongsMove
<1> QED BY <1>1, <1>4, <1>5 DEF BookInv

LEMMA UnlistBook == CatInv /\ SpaceInv /\ BookInv /\ Unlist => BookInv'
<1> SUFFICES ASSUME CatInv, SpaceInv, BookInv, Unlist PROVE BookInv'
  OBVIOUS
<1>1. /\ backup' = backup /\ SameOwned(backup, home) /\ Listed(home) = Listed(backup)
      /\ \A s \in Songs : home'[s] = home[s]
      /\ StartsFit'
  <2>1. PICK step \in ListWriters, b \in ListBlocks :
             \E content : Write(step, b, content)
    BY ListStep
  <2> QED BY <2>1, ListStepFacts
<1>2. OneLess(home, home', arg.song)
  BY SongUnlisted
<1>3. OneLess(backup, home', arg.song)
  BY <1>1, <1>2 DEF OneLess, SameOwned
<1>4. ListsMove'
  BY <1>1, <1>3 DEF ListsMove
<1>5. SongsMove'
  <2>1. SongsInStep
    BY SongsSettled DEF Unlist, Write, Steps, BookInv
  <2> QED BY <1>1, <2>1 DEF SongsInStep, SongsMove
<1> QED BY <1>1, <1>4, <1>5 DEF BookInv

\* The other lists that are written have the same songs.
LEMMA SameListBook ==
  ASSUME CatInv, UsageInv, BookInv,
         \/ Sort \/ SaveLastSong \/ WriteProject \/ AddProject \/ DropProject \/ SaveLastProject
  PROVE  BookInv'
<1>1. PICK step \in ListWriters, b \in ListBlocks :
             \E content : Write(step, b, content)
  BY ListStep
<1>2. /\ Doing(step) /\ step \in Steps /\ backup' = backup /\ SameOwned(backup, home)
      /\ \A s \in Songs : home'[s] = home[s]
      /\ StartsFit'
  BY <1>1, ListStepFacts
<1>3. step \notin {"record", "enlist", "count", "mark", "commit"}
  BY <1>2 DEF Sort, SaveLastSong, WriteProject, AddProject, DropProject, SaveLastProject,
              Write, Doing
<1>4. SameOwned(home, home')
  BY SortUsage, SaveLastSongUsage, WriteProjectUsage, AddProjectUsage, DropProjectUsage,
     SaveLastProjectUsage
<1>5. ListsMove'
  BY <1>2, <1>4 DEF ListsMove, SameOwned
<1>6. SongsMove'
  <2>1. SongsInStep
    BY <1>2, <1>3, SongsSettled DEF BookInv
  <2> QED BY <1>2, <2>1 DEF SongsInStep, SongsMove
<1> QED BY <1>2, <1>5, <1>6 DEF BookInv

------------------------------------------------------------------------------
(* Steps that write no list. *)

LEMMA OtherStepFacts ==
  ASSUME CatInv, BookInv, NEW step \in {"record", "usage", "songs", "unmark", "grow", "mark"},
         NEW b \in Blocks \ ListBlocks, NEW content, Write(step, b, content)
  PROVE  /\ Doing(step) /\ todo # <<>> /\ todo' = Tail(todo) /\ UNCHANGED <<backup, arg>>
         /\ Listed(home') = Listed(home)
         /\ \A c \in ListBlocks : home'[c] = home[c]
         /\ \A c \in Blocks : home'[c] = IF c = b THEN content ELSE home[c]
         /\ ListsMove' /\ StartsFit'
<1>1. /\ Doing(step) /\ todo # <<>> /\ todo' = Tail(todo) /\ UNCHANGED <<backup, arg>>
      /\ home' = [home EXCEPT ![b] = content] /\ DOMAIN home = Blocks /\ step \in Steps
  BY DEF Write, Doing, Steps, CatInv, ListsOK, ListTypes
<1>2. \A c \in Blocks : home'[c] = IF c = b THEN content ELSE home[c]
  BY <1>1
<1>3. \A c \in ListBlocks : home'[c] = home[c]
  BY <1>2, BlockFacts
<1>4. SameOwned(home, home') /\ Listed(home') = Listed(home)
  BY <1>3, SameBlocksOwn DEF CatInv
<1>5. ListsMove'
  <2>1. \A p, s : Owned(home', p, s) <=> Owned(home, p, s)
    BY <1>4 DEF SameOwned
  <2>2. CASE SameOwned(backup, home)
    BY <1>1, <2>1, <2>2 DEF ListsMove, SameOwned
  <2>3. ASSUME NEW q, NEW t, OneMore(backup, home, q, t), backup[t] = {}
        PROVE  ListsMove'
    <3>1. OneMore(backup', home', q, t)
      BY <1>1, <2>1, <2>3 DEF OneMore
    <3> QED BY <1>1, <2>3, <3>1 DEF ListsMove
  <2>4. ASSUME NEW t, OneLess(backup, home, t)
        PROVE  ListsMove'
    <3>1. OneLess(backup', home', t)
      BY <1>1, <2>1, <2>4 DEF OneLess
    <3> QED BY <3>1 DEF ListsMove
  <2> QED BY <2>2, <2>3, <2>4 DEF BookInv, ListsMove
<1>6. StartsFit'
  BY <1>1, NothingStarts
<1> QED BY <1>1, <1>2, <1>3, <1>4, <1>5, <1>6

LEMMA RecordBook == CatInv /\ SpaceInv /\ BookInv /\ WriteRecord => BookInv'
<1> SUFFICES ASSUME CatInv, SpaceInv, BookInv, NEW s \in {arg.song}, Write("record", s, {})
             PROVE  BookInv'
  BY DEF WriteRecord
<1>1. Doing("record") /\ HasStep("record") /\ OutOfStep = {}
  BY DoingFacts DEF Write, BookInv, StartsFit
<1>2. HasStep("count")
  <2>1. HasStep("enlist")
    BY <1>1 DEF SpaceInv, SongFits
  <2> QED BY <2>1 DEF CatInv, StepsFit, HasStep
<1>3. s \in Songs \ Listed(home)
  BY <1>2, NewSongUncounted DEF CatInv, ArgFits
<1>4. s \in Blocks \ ListBlocks
  BY <1>3, SpaceBlocks
<1>5. PICK content : content = {} /\ Write("record", s, content)
  OBVIOUS
<1>6. /\ todo' = Tail(todo) /\ backup' = backup /\ Listed(home') = Listed(home)
      /\ \A c \in Blocks : home'[c] = IF c = s THEN content ELSE home[c]
      /\ ListsMove' /\ StartsFit'
  BY <1>4, <1>5, OtherStepFacts
<1>7. HasStep("count")'
  BY <1>1, <1>2, <1>6, DoingFacts
<1> HIDE DEF HasStep
<1>8. SongsInStep /\ Listed(home) = Listed(backup)
  BY <1>1, SettledAll
<1>9. Cleared(s)'
  BY <1>3, <1>4, <1>5, <1>6, <1>7, <1>8 DEF Cleared
<1>10. \A t \in Songs \ {s} : home'[t] = backup'[t]
  BY <1>6, <1>8, SpaceBlocks DEF SongsInStep
<1> QED BY <1>3, <1>6, <1>9, <1>10 DEF BookInv, SongsMove

LEMMA TablesBook == CatInv /\ BookInv /\ (RewriteSongUsage \/ CountSongs \/ Unmark) => BookInv'
<1> SUFFICES ASSUME CatInv, BookInv, NEW step \in {"usage", "songs", "unmark"},
                    NEW b \in Tables, NEW content, Write(step, b, content)
             PROVE  BookInv'
  BY DEF RewriteSongUsage, CountSongs, Unmark, Tables
<1>1. b \in Blocks \ ListBlocks /\ b \notin Songs /\ Songs \subseteq Blocks
  BY SpaceBlocks
<1>2. /\ Doing(step) /\ backup' = backup
      /\ \A c \in Blocks : home'[c] = IF c = b THEN content ELSE home[c]
      /\ ListsMove' /\ StartsFit'
  BY <1>1, OtherStepFacts
<1>3. SongsInStep
  BY <1>2, SongsSettled DEF BookInv, Steps
<1>4. SongsInStep'
  BY <1>1, <1>2, <1>3 DEF SongsInStep
<1> QED BY <1>2, <1>4 DEF BookInv, SongsMove

LEMMA GrowBook == CatInv /\ SpaceInv /\ BookInv /\ Grow => BookInv'
<1> SUFFICES ASSUME CatInv, SpaceInv, BookInv, NEW s \in {arg.song},
                    NEW space \in {arg.space}, Write("grow", s, home[s] \cup space)
             PROVE  BookInv'
  BY DEF Grow
<1>1. Doing("grow") /\ HasStep("grow")
  BY DoingFacts DEF Write
<1>2. /\ s \in Songs /\ s \in Listed(home) /\ OutOfStep = {}
      /\ space \cap home[DriveUsage] = {} /\ space \in SUBSET Clusters
  BY <1>1 DEF SpaceInv, SongFits, BookInv, StartsFit, CatInv, ArgContent
<1>3. s \in Blocks \ ListBlocks
  BY <1>2, SpaceBlocks
<1>4. PICK content : content = home[s] \cup space /\ Write("grow", s, content)
  OBVIOUS
<1>5. /\ todo' = Tail(todo) /\ backup' = backup /\ Listed(home') = Listed(home)
      /\ \A c \in ListBlocks : home'[c] = home[c]
      /\ \A c \in Blocks : home'[c] = IF c = s THEN content ELSE home[c]
      /\ ListsMove' /\ StartsFit'
  BY <1>3, <1>4, OtherStepFacts
<1>6. /\ \A b \in Blocks : home[b] = backup[b]
      /\ SongsInStep /\ InStep /\ Listed(home) = Listed(backup)
  BY <1>2, SettledAll DEF OutOfStep
<1>7. \A x : HasStep(x)' => x \in {"mark", "commit"}
  <2>1. \A x : HasStep(x)' => x \in After("grow")
    BY <1>1, <1>5, DoingFacts
  <2> HIDE DEF HasStep
  <2> QED BY <2>1 DEF After
<1>8. InStep'
  BY <1>5, <1>6 DEF InStep
<1>9. \A t \in Listed(backup) : space \cap backup[t] = {}
  <2>1. SpaceOK(backup) /\ home[DriveUsage] = backup[DriveUsage]
    BY <1>6, SpaceBlocks DEF SpaceInv
  <2> QED BY <1>2, <2>1 DEF SpaceOK
<1>10. home'[s] = backup'[s] \cup space
  BY <1>3, <1>4, <1>5, <1>6
<1> HIDE DEF HasStep
<1>11. Grown(s)'
  BY <1>2, <1>5, <1>6, <1>7, <1>8, <1>9, <1>10 DEF Grown
<1>12. \A t \in Songs \ {s} : home'[t] = backup'[t]
  BY <1>5, <1>6, SpaceBlocks
<1> QED BY <1>2, <1>5, <1>11, <1>12 DEF BookInv, SongsMove

LEMMA MarkBook == CatInv /\ BookInv /\ Mark => BookInv'
<1> SUFFICES ASSUME CatInv, BookInv, NEW content, Write("mark", DriveUsage, content)
             PROVE  BookInv'
  BY DEF Mark
<1>1. /\ DriveUsage \in Blocks \ ListBlocks /\ DriveUsage \notin Songs /\ Songs \subseteq Blocks
  BY SpaceBlocks
<1>2. /\ Doing("mark") /\ todo # <<>> /\ todo' = Tail(todo) /\ backup' = backup
      /\ Listed(home') = Listed(home) /\ \A c \in ListBlocks : home'[c] = home[c]
      /\ \A c \in Blocks : home'[c] = IF c = DriveUsage THEN content ELSE home[c]
      /\ ListsMove' /\ StartsFit'
  BY <1>1, OtherStepFacts
<1>3. \A s \in Songs : home'[s] = home[s]
  BY <1>1, <1>2
<1>4. SongsMove'
  <2>1. CASE SongsInStep
    BY <1>2, <1>3, <2>1 DEF SongsInStep, SongsMove
  <2>2. CASE ~SongsInStep
    <3>1. ~HasStep("count")
      <4>1. \A s : HasStep(s) => s = "mark" \/ s \in After("mark")
        BY <1>2, StepsLeft
      <4> HIDE DEF HasStep
      <4> QED BY <4>1 DEF After
    <3>2. \A x : HasStep(x)' => HasStep(x)
      BY <1>2, DoingFacts
    <3> HIDE DEF HasStep
    <3>3. PICK s \in Songs : (\A t \in Songs \ {s} : home[t] = backup[t]) /\ Grown(s)
      BY <1>2, <2>2, <3>1 DEF SongsMove, BookInv, Cleared
    <3>4. InStep'
      BY <1>2, <3>3 DEF InStep, Grown
    <3>5. Grown(s)'
      BY <1>2, <1>3, <3>2, <3>3, <3>4 DEF Grown
    <3> QED BY <1>2, <1>3, <3>3, <3>5 DEF SongsMove
  <2> QED BY <2>1, <2>2
<1> QED BY <1>2, <1>4 DEF BookInv

------------------------------------------------------------------------------
(* Operations begin, commits, stops. *)

\* Nothing is to be committed when an operation begins.
LEMMA BegunBook ==
  ASSUME CatInv, SpaceInv, BookInv, NEW steps, NEW p, NEW id, NEW s, NEW space,
         Begin(steps, p, id, s, space),
         HasStep("grow")' => s \in Listed(home)
  PROVE  BookInv'
<1>1. /\ todo = <<>> /\ UNCHANGED <<home, backup>> /\ running /\ arg'.song = s
  BY DEF Begin, Idle
<1>2. OutOfStep = {} /\ OutOfStep' = {}
  BY <1>1 DEF SpaceInv, Settles, OutOfStep
<1>3. SameOwned(backup, home) /\ SongsInStep
  BY <1>2, SettledAll
<1>4. ListsMove' /\ SongsMove'
  BY <1>1, <1>3 DEF ListsMove, SongsMove, SongsInStep
<1> HIDE DEF HasStep
<1>5. StartsFit'
  BY <1>1, <1>2 DEF StartsFit
<1> QED BY <1>4, <1>5 DEF BookInv

LEMMA OperateBook ==
  ASSUME CatInv, SpaceInv, BookInv, Operate
  PROVE  BookInv'
<1>1. ASSUME NEW steps, StepsFit(steps), steps[1] # "grow", NEW p, NEW id, NEW s, NEW space,
             Begin(steps, p, id, s, space)
      PROVE  BookInv'
  <2>1. \A step : HasStep(step)' => step = steps[1] \/ step \in After(steps[1])
    BY <1>1, StepsOfBegun DEF Begin
  <2>2. \A step : "grow" \notin After(step)
    BY DEF After
  <2>3. ~HasStep("grow")'
    <3> HIDE DEF HasStep
    <3> QED BY <1>1, <2>1, <2>2
  <2> HIDE DEF HasStep
  <2> QED BY <1>1, <2>3, BegunBook
<1>2. ASSUME NEW p \in ProjectsOf(home), NEW id \in 1 .. MaxSongs,
             NEW space \in SUBSET Clusters, LengthenSong(p, id, space)
      PROVE  BookInv'
  <2>1. /\ Begin(LengthenSteps, p, id, home[p].list[id], space)
        /\ id \in 1 .. home[p].count /\ ListsOK(home)
    BY <1>2 DEF LengthenSong, CatInv
  <2>2. home[p].list[id] # None /\ id <= home[p].count
    <3>1. /\ home[p].count \in 0 .. MaxSongs
          /\ \A i \in 1 .. home[p].count : i \in 1 .. MaxSongs /\ home[p].list[i] # None
      BY <2>1, ProjectFacts
    <3> QED BY <2>1, <3>1
  <2>3. home[p].list[id] \in Listed(home)
    BY <2>1, <2>2, CountedAreListed
  <2> QED BY <2>1, <2>3, BegunBook
<1>3. ASSUME NEW p \in ProjectsOf(home), CreateSong(p)
      PROVE  BookInv'
  <2>1. PICK slot, s : Begin(CreateSongSteps(TRUE), p, slot, s, {})
    BY <1>3, CreateSongSelects
  <2>2. StepsFit(CreateSongSteps(TRUE)) /\ CreateSongSteps(TRUE)[1] # "grow"
    BY BeginningsFit
  <2> QED BY <1>1, <2>1, <2>2
<1>4. ASSUME \/ \E p \in ProjectsOf(home) :
                  \/ SortSongs(p)
                  \/ \E id \in 1 .. MaxSongs : DeleteSong(p, id) \/ SelectSong(p, id)
             \/ CreateProject
             \/ \E id \in 1 .. home[DriveInfo].count : DeleteProject(id) \/ SelectProject(id)
      PROVE  BookInv'
  <2>1. PICK steps \in {<<"sort", "commit">>, <<"lastsong", "commit">>, <<"lastproject", "commit">>,
                        DeleteSongSteps, CreateProjectSteps, DeleteProjectSteps} :
          \E p, id, s, space : Begin(steps, p, id, s, space)
    BY <1>4 DEF SortSongs, DeleteSong, SelectSong, CreateProject, DeleteProject, SelectProject
  <2>2. StepsFit(steps) /\ steps[1] # "grow"
    <3>1. /\ DeleteSongSteps[1] = "unlist" /\ CreateProjectSteps[1] = "project"
          /\ DeleteProjectSteps[1] = "allsongs"
      BY DEF DeleteSongSteps, CreateProjectSteps, DeleteProjectSteps
    <3> QED BY <2>1, <3>1, BeginningsFit
  <2> QED BY <1>1, <2>1, <2>2
<1> QED BY <1>2, <1>3, <1>4 DEF Operate

LEMMA DeleteSongsBook == CatInv /\ BookInv /\ DeleteSongs => BookInv'
<1> SUFFICES ASSUME CatInv, BookInv, DeleteSongs PROVE BookInv'
  OBVIOUS
<1>1. /\ Doing("allsongs") /\ todo # <<>> /\ Head(todo) = "allsongs" /\ StepsFit(todo)
      /\ UNCHANGED <<home, backup>>
      /\ todo' = DeleteSongSteps \o todo \/ todo' = Tail(todo)
  BY DEF DeleteSongs, Doing, CatInv
<1>2. SongsInStep
  BY <1>1, SongsSettled DEF BookInv, Steps
<1>3. StartsFit'
  <2>1. CASE todo' = Tail(todo)
    BY <1>1, <2>1, NothingStarts DEF Steps
  <2>2. CASE todo' = DeleteSongSteps \o todo
    <3>1. \A step : HasStep(step)' =>
             step \in {"unlist", "usage", "songs", "unmark", "commit", "allsongs", "dropproject"}
      BY <1>1, <2>2, OneMoreSong
    <3> HIDE DEF HasStep
    <3> QED BY <3>1 DEF StartsFit
  <2> QED BY <1>1, <2>1, <2>2
<1>4. ListsMove' /\ SongsMove'
  BY <1>1, <1>2 DEF BookInv, ListsMove, SongsMove, SongsInStep
<1> QED BY <1>3, <1>4 DEF BookInv

\* A commit copies one block: all before it are in step.
Committed(b) ==
  /\ b \in Tables \cup ListBlocks \cup Songs
  /\ \A c \in Blocks : backup'[c] = IF c = b THEN home[c] ELSE backup[c]
  /\ b \in ListBlocks => \A c \in ListBlocks : backup'[c] = home[c]
  /\ b \notin ListBlocks => \A c \in ListBlocks : backup'[c] = backup[c]
  /\ b \in Songs => InStep
  /\ home[b] # backup[b] /\ UNCHANGED <<home, todo, arg, running>>

LEMMA CommitFacts ==
  ASSUME CatInv, CommitBlock
  PROVE  \E b : Committed(b)
<1>1. PICK b : b = NextBlock
  OBVIOUS
<1>2. OutOfStep \in SUBSET Nat /\ OutOfStep \subseteq Blocks /\ Blocks \subseteq Nat
  BY BlockFacts DEF OutOfStep
<1>3. b \in OutOfStep /\ \A c \in OutOfStep : b <= c
  BY <1>1, <1>2, LeastIsLeast DEF NextBlock, CommitBlock
<1>4. b \in Blocks /\ home[b] # backup[b] /\ UNCHANGED <<home, todo, arg, running>>
  BY <1>3 DEF OutOfStep, CommitBlock
<1>5. \A c \in Blocks : backup'[c] = IF c = b THEN home[c] ELSE backup[c]
  BY <1>1 DEF CommitBlock, CatInv, ListsOK, ListTypes
<1>6. b \in Tables \cup ListBlocks \cup Songs
  <2>1. MaxProjects \in Nat /\ MaxEntries \in Nat
    BY BlockFacts
  <2> QED BY <1>4, <2>1 DEF Blocks, Tables, ListBlocks, ProjectBlocks, Songs, FirstSong,
             FirstProject, Superblock, DriveInfo, SongUsage, DriveUsage
<1>7. b \in ListBlocks => \A c \in ListBlocks : backup'[c] = home[c]
  <2>1. b \in ListBlocks => \A c \in ListBlocks : c # b => home[c] = backup[c]
    BY <1>4 DEF CatInv
  <2> QED BY <1>5, <2>1, BlockFacts
<1>8. b \notin ListBlocks => \A c \in ListBlocks : backup'[c] = backup[c]
  BY <1>5, BlockFacts
<1>9. ASSUME b \in Songs
      PROVE  InStep
  <2> SUFFICES ASSUME NEW c \in ListBlocks, home[c] # backup[c] PROVE FALSE
    BY DEF InStep
  <2>1. c \in OutOfStep
    BY BlockFacts DEF OutOfStep
  <2>2. c < b
    BY <1>9, BlockFacts DEF ListBlocks, DriveInfo, ProjectBlocks, Songs, FirstSong, FirstProject
  <2>3. b <= c /\ b \in Nat /\ c \in Nat
    BY <1>2, <1>3, <2>1
  <2> QED BY <2>2, <2>3
<1> QED BY <1>4, <1>5, <1>6, <1>7, <1>8, <1>9 DEF Committed

LEMMA CommitBook == CatInv /\ BookInv /\ CommitBlock => BookInv'
<1> SUFFICES ASSUME CatInv, BookInv, CommitBlock PROVE BookInv'
  OBVIOUS
<1>1. PICK b : Committed(b)
  BY CommitFacts
<1>2. /\ UNCHANGED <<home, todo, arg>>
      /\ \A c \in Blocks : backup'[c] = IF c = b THEN home[c] ELSE backup[c]
  BY <1>1 DEF Committed
<1>3. \A step : HasStep(step)' <=> HasStep(step)
  BY <1>2 DEF HasStep
<1> HIDE DEF HasStep
<1>4. StartsFit'
  <2>1. ~HasStep("record")
    BY NothingStarts DEF CommitBlock, Steps
  <2> QED BY <1>2, <1>3, <2>1 DEF StartsFit, BookInv
<1>5. CASE b \in ListBlocks
  <2>1. SameOwned(home, backup') /\ Listed(backup') = Listed(home)
    BY <1>1, <1>5, SameBlocksOwn DEF Committed, CatInv
  <2>2. ListsMove'
    BY <1>2, <2>1 DEF ListsMove, SameOwned
  <2>3. \A s \in Songs : backup'[s] = backup[s]
    BY <1>2, <1>5, BlockFacts
  <2>4. ~InStep
    BY <1>1, <1>5 DEF Committed, InStep
  <2>5. SongsMove'
    <3>1. CASE SongsInStep
      BY <1>2, <2>3, <3>1 DEF SongsInStep, SongsMove
    <3>2. ASSUME NEW s \in Songs, \A t \in Songs \ {s} : home[t] = backup[t], Cleared(s)
          PROVE  SongsMove'
      <4>1. Cleared(s)'
        BY <1>2, <1>3, <2>1, <3>2 DEF Cleared
      <4> QED BY <1>2, <2>3, <3>2, <4>1 DEF SongsMove
    <3> QED BY <2>4, <3>1, <3>2 DEF SongsMove, BookInv, Grown
  <2> QED BY <1>4, <2>2, <2>5 DEF BookInv
<1>6. CASE b \in Songs
  <2>1. SameOwned(backup, backup') /\ SameOwned(backup, home)
    <3>1. b \notin ListBlocks
      BY <1>6, BlockFacts
    <3> QED BY <1>1, <1>6, <3>1, SameBlocksOwn DEF Committed, CatInv, InStep
  <2>2. ListsMove'
    BY <1>2, <2>1 DEF ListsMove, SameOwned
  <2>3. SongsInStep'
    <3>1. home[b] # backup[b]
      BY <1>1 DEF Committed
    <3>2. \A t \in Songs \ {b} : home[t] = backup[t]
      BY <1>6, <3>1 DEF BookInv, SongsMove, SongsInStep
    <3> QED BY <1>2, <3>2, BlockFacts DEF SongsInStep
  <2> QED BY <1>4, <2>2, <2>3 DEF BookInv, SongsMove
<1>7. CASE b \in Tables
  <2>1. b \notin ListBlocks /\ b \notin Songs /\ Songs \subseteq Blocks
    BY <1>7, SpaceBlocks
  <2>2. SameOwned(backup, backup') /\ Listed(backup') = Listed(backup)
    BY <1>1, <2>1, SameBlocksOwn DEF Committed, CatInv
  <2>3. /\ \A s \in Songs : backup'[s] = backup[s]
        /\ \A c \in ListBlocks : backup'[c] = backup[c]
    BY <1>1, <1>2, <2>1 DEF Committed
  <2>4. ListsMove'
    <3>1. \A p, s : Owned(backup', p, s) <=> Owned(backup, p, s)
      BY <2>2 DEF SameOwned
    <3>2. CASE SameOwned(backup, home)
      BY <1>2, <3>1, <3>2 DEF ListsMove, SameOwned
    <3>3. ASSUME NEW q, NEW t, OneMore(backup, home, q, t), backup[t] = {}
          PROVE  ListsMove'
      <4>1. OneMore(backup', home', q, t) /\ backup'[t] = {}
        BY <1>2, <2>2, <2>3, <3>1, <3>3 DEF OneMore
      <4> QED BY <4>1 DEF ListsMove
    <3>4. ASSUME NEW t, OneLess(backup, home, t)
          PROVE  ListsMove'
      <4>1. OneLess(backup', home', t)
        BY <1>2, <2>2, <3>1, <3>4 DEF OneLess
      <4> QED BY <4>1 DEF ListsMove
    <3> QED BY <3>2, <3>3, <3>4 DEF BookInv, ListsMove
  <2>5. InStep => InStep'
    BY <1>2, <2>3 DEF InStep
  <2>6. SongsMove'
    <3>1. CASE SongsInStep
      BY <1>2, <2>3, <3>1 DEF SongsInStep, SongsMove
    <3>2. ASSUME NEW s \in Songs, \A t \in Songs \ {s} : home[t] = backup[t],
                 Cleared(s) \/ Grown(s)
          PROVE  SongsMove'
      <4>1. Cleared(s) => Cleared(s)'
        BY <1>2, <1>3, <2>2, <2>3 DEF Cleared
      <4>2. Listed(backup) \subseteq Songs
        BY ListedAre DEF CatInv
      <4>3. Grown(s) => Grown(s)'
        BY <1>2, <1>3, <2>2, <2>3, <2>5, <4>2 DEF Grown
      <4> QED BY <1>2, <2>3, <3>2, <4>1, <4>3 DEF SongsMove
    <3> QED BY <3>1, <3>2 DEF SongsMove, BookInv
  <2> QED BY <1>4, <2>4, <2>6 DEF BookInv
<1> QED BY <1>1, <1>5, <1>6, <1>7 DEF Committed

\* Nothing is left to be committed, or the recorder has restored the drive.
LEMMA SettledBook ==
  ASSUME CatInv, SpaceInv, BookInv, EndCommit \/ (Open /\ ~DirtyReopen) \/ Repair
  PROVE  BookInv'
<1>1. CASE EndCommit \/ (Open /\ ~DirtyReopen)
  <2>1. /\ UNCHANGED <<home, backup>> /\ OutOfStep = {}
        /\ (Doing("commit") /\ todo' = Tail(todo)) \/ todo' = <<>>
    BY <1>1 DEF EndCommit, Open, CatInv
  <2>2. SameOwned(backup, home) /\ SongsInStep
    BY <2>1, SettledAll
  <2>3. ListsMove' /\ SongsMove'
    BY <2>1, <2>2 DEF ListsMove, SongsMove, SongsInStep
  <2>4. StartsFit'
    <3>1. CASE todo' = <<>>
      BY <3>1 DEF StartsFit, HasStep
    <3>2. CASE Doing("commit") /\ todo' = Tail(todo)
      BY <3>2, NothingStarts DEF Steps
    <3> QED BY <2>1, <3>1, <3>2
  <2> QED BY <2>3, <2>4 DEF BookInv
<1>2. CASE Repair
  <2>1. home' = backup /\ backup' = backup /\ todo' = <<>>
    BY <1>2 DEF Repair, CatInv
  <2>2. ListsMove' /\ SongsMove'
    BY <2>1 DEF ListsMove, SameOwned, SongsMove, SongsInStep
  <2>3. StartsFit'
    BY <2>1 DEF StartsFit, HasStep
  <2> QED BY <2>2, <2>3 DEF BookInv
<1> QED BY <1>1, <1>2

LEMMA StopBook == CatInv /\ BookInv /\ Stop => BookInv'
<1> SUFFICES ASSUME CatInv, BookInv, Stop PROVE BookInv'
  OBVIOUS
<1>1. UNCHANGED <<home, backup>> /\ todo' = <<>>
  BY DEF Stop
<1>2. \A step : ~HasStep(step)'
  BY <1>1 DEF HasStep
<1> HIDE DEF HasStep
<1>3. ListsMove' /\ StartsFit'
  BY <1>1, <1>2 DEF BookInv, ListsMove, StartsFit
<1>4. InStep => InStep'
  BY <1>1 DEF InStep
<1>5. ASSUME NEW s
      PROVE  (Cleared(s) => Cleared(s)') /\ (Grown(s) => Grown(s)')
  BY <1>1, <1>2, <1>4 DEF Cleared, Grown
<1>6. SongsMove'
  BY <1>1, <1>5 DEF BookInv, SongsMove, SongsInStep
<1> QED BY <1>3, <1>6 DEF BookInv

LEMMA NothingBook == BookInv /\ UNCHANGED vars => BookInv'
<1> SUFFICES ASSUME BookInv, UNCHANGED <<home, backup, todo, arg>> PROVE BookInv'
  BY DEF vars
<1>1. \A step : HasStep(step)' <=> HasStep(step)
  BY DEF HasStep
<1>2. (InStep <=> InStep') /\ OutOfStep' = OutOfStep
  BY DEF InStep, OutOfStep
<1> HIDE DEF HasStep
<1>3. \A s : (Cleared(s) => Cleared(s)') /\ (Grown(s) => Grown(s)')
  BY <1>1, <1>2 DEF Cleared, Grown
<1>4. SongsMove'
  BY <1>3 DEF BookInv, SongsMove, SongsInStep
<1>5. ListsMove' /\ StartsFit'
  BY <1>1, <1>2 DEF BookInv, ListsMove, StartsFit
<1> QED BY <1>4, <1>5 DEF BookInv

LEMMA InitBook == Init => BookInv
<1> SUFFICES ASSUME Init PROVE BookInv
  OBVIOUS
<1>1. backup = home /\ todo = <<>>
  BY DEF Init
<1>2. ListsMove /\ SongsMove
  BY <1>1 DEF ListsMove, SameOwned, SongsMove, SongsInStep
<1>3. StartsFit
  BY <1>1 DEF StartsFit, HasStep
<1> QED BY <1>2, <1>3 DEF BookInv

LEMMA BookIsKept ==
  ASSUME ~DirtyReopen, CatInv, SpaceInv, UsageInv, BookInv, [Next]_vars
  PROVE  BookInv'
<1>1. CASE Operate
  BY <1>1, OperateBook
<1>2. CASE WriteRecord \/ RewriteSongUsage \/ CountSongs \/ Unmark \/ Grow \/ Mark
  BY <1>2, RecordBook, TablesBook, GrowBook, MarkBook
<1>3. CASE Enlist \/ CountSong \/ Unlist \/ Sort \/ SaveLastSong
  BY <1>3, EnlistBook, CountBook, UnlistBook, SameListBook
<1>4. CASE WriteProject \/ AddProject \/ DeleteSongs \/ DropProject \/ SaveLastProject
  BY <1>4, SameListBook, DeleteSongsBook
<1>5. CASE CommitBlock \/ EndCommit
  BY <1>5, CommitBook, SettledBook
<1>6. CASE Stop \/ Repair \/ Open
  BY <1>6, StopBook, SettledBook
<1>7. CASE UNCHANGED vars
  BY <1>7, NothingBook
<1> QED BY <1>1, <1>2, <1>3, <1>4, <1>5, <1>6, <1>7 DEF Next

------------------------------------------------------------------------------
(* The steps of the book. *)

\* Who has each song according to some copy.
OwnerIn(img) ==
  [s \in Songs |->
    IF s \in Listed(img)
    THEN CHOOSE p \in ProjectsOf(img) : s \in SongsOf(img, p) ELSE None]

\* The owner of a song is the project that counts it, if there is one.
OwnersFit(img) ==
  /\ OwnerIn(img) \in [Songs -> ProjectBlocks \cup {None}]
  /\ \A s \in Songs :
    /\ s \in Listed(img) => Owned(img, OwnerIn(img)[s], s) /\ OwnerIn(img)[s] # None
    /\ s \notin Listed(img) => OwnerIn(img)[s] = None
    /\ \A p : Owned(img, p, s) => OwnerIn(img)[s] = p

LEMMA OwnerFacts ==
  ASSUME NEW img, ListsOK(img)
  PROVE  OwnersFit(img)
<1>1. OwnedFits(img)
  BY OwnedFacts
<1>2. ASSUME NEW s \in Songs
      PROVE  /\ s \in Listed(img) => Owned(img, OwnerIn(img)[s], s) /\ OwnerIn(img)[s] # None
             /\ s \notin Listed(img) => OwnerIn(img)[s] = None
             /\ \A p : Owned(img, p, s) => OwnerIn(img)[s] = p
  <2>1. CASE s \in Listed(img)
    <3>1. OwnerIn(img)[s] = CHOOSE p \in ProjectsOf(img) : s \in SongsOf(img, p)
      BY <2>1 DEF OwnerIn
    <3>2. \E q \in ProjectsOf(img) : s \in SongsOf(img, q)
      BY <1>1, <2>1 DEF OwnedFits, Owned
    <3>3. Owned(img, OwnerIn(img)[s], s)
      BY <3>1, <3>2 DEF Owned
    <3> QED BY <1>1, <2>1, <3>3, BlockFacts DEF OwnedFits
  <2>2. CASE s \notin Listed(img)
    BY <1>1, <2>2 DEF OwnerIn, OwnedFits
  <2> QED BY <2>1, <2>2
<1>3. \A s \in Songs : OwnerIn(img)[s] \in ProjectBlocks \cup {None}
  BY <1>1, <1>2 DEF OwnedFits
<1>4. OwnerIn(img) \in [Songs -> ProjectBlocks \cup {None}]
  BY <1>3 DEF OwnerIn
<1> QED BY <1>2, <1>4 DEF OwnersFit

\* Copies that have the same songs have the same owners.
LEMMA SameOwners ==
  ASSUME NEW img, NEW other, ListsOK(img), ListsOK(other), SameOwned(img, other)
  PROVE  OwnerIn(other) = OwnerIn(img)
<1>1. OwnersFit(img) /\ OwnersFit(other) /\ Listed(other) = Listed(img)
  BY OwnerFacts, SameListed
<1>2. \A s \in Songs : OwnerIn(other)[s] = OwnerIn(img)[s]
  <2> SUFFICES ASSUME NEW s \in Songs PROVE OwnerIn(other)[s] = OwnerIn(img)[s]
    OBVIOUS
  <2>1. CASE s \in Listed(img)
    <3>1. Owned(other, OwnerIn(img)[s], s)
      BY <1>1, <2>1 DEF OwnersFit, SameOwned
    <3> QED BY <1>1, <3>1 DEF OwnersFit
  <2>2. CASE s \notin Listed(img)
    BY <1>1, <2>2 DEF OwnersFit
  <2> QED BY <2>1, <2>2
<1> QED BY <1>2 DEF OwnerIn

\* One song more or less in the lists is one more or less in the book.
LEMMA OneOwnerMore ==
  ASSUME NEW img, NEW other, ListsOK(img), ListsOK(other), NEW q, NEW t, OneMore(img, other, q, t)
  PROVE  /\ q \in ProjectBlocks /\ t \in Songs /\ OwnerIn(img)[t] = None
         /\ OwnerIn(other) = [OwnerIn(img) EXCEPT ![t] = q]
<1>1. /\ OwnersFit(img) /\ OwnersFit(other) /\ OwnedFits(img) /\ OwnedFits(other)
      /\ q \in ProjectBlocks /\ t \in Songs /\ t \notin Listed(img)
      /\ \A p, s : Owned(other, p, s) <=> Owned(img, p, s) \/ (p = q /\ s = t)
  BY OwnerFacts, OwnedFacts DEF OneMore
<1>2. ASSUME NEW s \in Songs
      PROVE  OwnerIn(other)[s] = IF s = t THEN q ELSE OwnerIn(img)[s]
  <2>1. CASE s = t
    <3>1. Owned(other, q, s)
      BY <1>1, <2>1
    <3> QED BY <1>1, <2>1, <3>1 DEF OwnersFit
  <2>2. CASE s # t /\ s \in Listed(img)
    <3>1. Owned(other, OwnerIn(img)[s], s)
      BY <1>1, <2>2 DEF OwnersFit
    <3> QED BY <1>1, <2>2, <3>1 DEF OwnersFit
  <2>3. CASE s # t /\ s \notin Listed(img)
    <3>1. s \notin Listed(other)
      BY <1>1, <2>3 DEF OwnedFits
    <3> QED BY <1>1, <2>3, <3>1 DEF OwnersFit
  <2> QED BY <2>1, <2>2, <2>3
<1>3. OwnerIn(other) = [OwnerIn(img) EXCEPT ![t] = q]
  <2>1. PICK f, g : /\ f = OwnerIn(img) /\ g = OwnerIn(other)
                    /\ {f, g} \subseteq [Songs -> ProjectBlocks \cup {None}]
    BY <1>1 DEF OwnersFit
  <2> QED BY <1>1, <1>2, <2>1
<1> QED BY <1>1, <1>3 DEF OwnersFit

LEMMA OneOwnerLess ==
  ASSUME NEW img, NEW other, ListsOK(img), ListsOK(other), NEW t, OneLess(img, other, t)
  PROVE  /\ t \in Songs /\ OwnerIn(img)[t] # None
         /\ OwnerIn(other) = [OwnerIn(img) EXCEPT ![t] = None]
<1>1. /\ OwnersFit(img) /\ OwnersFit(other) /\ OwnedFits(img) /\ OwnedFits(other)
      /\ t \in Listed(img) /\ t \in Songs
      /\ \A p, s : Owned(other, p, s) <=> Owned(img, p, s) /\ s # t
  BY OwnerFacts, OwnedFacts, ListedAre DEF OneLess
<1>2. ASSUME NEW s \in Songs
      PROVE  OwnerIn(other)[s] = IF s = t THEN None ELSE OwnerIn(img)[s]
  <2>1. CASE s = t \/ s \notin Listed(img)
    <3>1. s \notin Listed(other)
      BY <1>1, <2>1 DEF OwnedFits
    <3> QED BY <1>1, <2>1, <3>1 DEF OwnersFit
  <2>2. CASE s # t /\ s \in Listed(img)
    <3>1. Owned(other, OwnerIn(img)[s], s)
      BY <1>1, <2>2 DEF OwnersFit
    <3> QED BY <1>1, <2>2, <3>1 DEF OwnersFit
  <2> QED BY <2>1, <2>2
<1>3. OwnerIn(other) = [OwnerIn(img) EXCEPT ![t] = None]
  <2>1. PICK f, g : /\ f = OwnerIn(img) /\ g = OwnerIn(other)
                    /\ {f, g} \subseteq [Songs -> ProjectBlocks \cup {None}]
    BY <1>1 DEF OwnersFit
  <2> QED BY <1>1, <1>2, <2>1
<1>4. OwnerIn(img)[t] # None
  BY <1>1 DEF OwnersFit
<1> QED BY <1>1, <1>3, <1>4

\* A commit of a block of the lists adds or removes a song, or changes nothing
\* of the book; that of a song clears it or gives it clusters.
LEMMA CommitIsStep ==
  ASSUME CatInv, CatInv', BookInv, CommitBlock
  PROVE  [Book!Next]_(Book!vars)
<1> DEFINE space == [s \in Songs |-> backup[s]]
<1>1. PICK b : Committed(b)
  BY CommitFacts
<1>2. /\ home' = home /\ ListsOK(home) /\ ListsOK(backup) /\ ListsOK(backup')
      /\ \A c \in Blocks : backup'[c] = IF c = b THEN home[c] ELSE backup[c]
  BY <1>1 DEF Committed, CatInv
<1>3. Owner = OwnerIn(backup) /\ Owner' = OwnerIn(backup')
  BY DEF Owner, OwnerIn
<1>4. CASE b \in ListBlocks
  <2>1. SameOwned(home, backup')
    BY <1>1, <1>2, <1>4, SameBlocksOwn DEF Committed
  <2>2. space' = space
    BY <1>2, <1>4, BlockFacts
  <2>3. CASE SameOwned(backup, home)
    <3>1. SameOwned(backup, backup')
      BY <2>1, <2>3 DEF SameOwned
    <3>2. Owner' = Owner
      BY <1>2, <1>3, <3>1, SameOwners
    <3> QED BY <2>2, <3>2 DEF Book!vars
  <2>4. ASSUME NEW q, NEW t, OneMore(backup, home, q, t), backup[t] = {}
        PROVE  Book!Next
    <3>1. OneMore(backup, backup', q, t)
      BY <2>1, <2>4 DEF OneMore, SameOwned
    <3>2. /\ q \in ProjectBlocks /\ t \in Songs /\ Owner[t] = None
          /\ Owner' = [Owner EXCEPT ![t] = q]
      BY <1>2, <1>3, <3>1, OneOwnerMore
    <3>3. space[t] = {}
      BY <2>4, <3>2
    <3>4. Book!Add(t, q)
      BY <2>2, <3>2, <3>3 DEF Book!Add
    <3> QED BY <3>2, <3>4 DEF Book!Next
  <2>5. ASSUME NEW t, OneLess(backup, home, t)
        PROVE  Book!Next
    <3>1. OneLess(backup, backup', t)
      BY <2>1, <2>5 DEF OneLess, SameOwned
    <3>2. t \in Songs /\ Owner[t] # None /\ Owner' = [Owner EXCEPT ![t] = None]
      BY <1>2, <1>3, <3>1, OneOwnerLess
    <3>3. Book!Remove(t)
      BY <2>2, <3>2 DEF Book!Remove
    <3> QED BY <3>2, <3>3 DEF Book!Next
  <2> QED BY <2>3, <2>4, <2>5 DEF BookInv, ListsMove
<1>5. CASE b \notin ListBlocks
  <2>1. SameOwned(backup, backup')
    BY <1>1, <1>2, <1>5, SameBlocksOwn DEF Committed
  <2>2. Owner' = Owner /\ OwnersFit(backup)
    BY <1>2, <1>3, <2>1, SameOwners, OwnerFacts
  <2>3. CASE b \notin Songs
    <3>1. space' = space
      BY <1>2, <2>3, BlockFacts
    <3> QED BY <2>2, <3>1 DEF Book!vars
  <2>4. CASE b \in Songs
    <3>1. home[b] # backup[b]
      BY <1>1 DEF Committed
    <3>2. Cleared(b) \/ Grown(b)
      BY <2>4, <3>1 DEF BookInv, SongsMove, SongsInStep
    <3>3. space' = [space EXCEPT ![b] = home[b]]
      BY <1>2, <2>4, BlockFacts
    <3>4. CASE Cleared(b)
      <4>1. Owner[b] = None /\ home[b] = {}
        BY <1>3, <2>2, <2>4, <3>4 DEF OwnersFit, Cleared
      <4>2. Book!Clear(b)
        BY <2>2, <3>3, <4>1 DEF Book!Clear
      <4> QED BY <2>4, <4>2 DEF Book!Next
    <3>5. CASE Grown(b)
      <4>1. PICK C \in SUBSET Clusters :
              home[b] = backup[b] \cup C /\ \A t \in Listed(backup) : C \cap backup[t] = {}
        BY <3>5 DEF Grown
      <4>2. Owner[b] # None
        BY <1>3, <2>2, <2>4, <3>5 DEF OwnersFit, Grown
      <4>3. \A t \in Songs : Book!TakenBy(t) \cap C = {}
        BY <1>3, <2>2, <4>1 DEF Book!TakenBy, OwnersFit
      <4>4. space' = [space EXCEPT ![b] = @ \cup C]
        BY <2>4, <3>3, <4>1
      <4>5. Book!Grow(b, C)
        BY <2>2, <4>2, <4>3, <4>4 DEF Book!Grow
      <4> QED BY <2>4, <4>5 DEF Book!Next
    <3> QED BY <3>2, <3>4, <3>5
  <2> QED BY <2>3, <2>4
<1> QED BY <1>4, <1>5

LEMMA StepOfBook ==
  ASSUME CatInv, CatInv', BookInv, [Next]_vars
  PROVE  [Book!Next]_(Book!vars)
<1>1. CASE CommitBlock
  BY <1>1, CommitIsStep
<1>2. CASE UNCHANGED backup
  <2>1. Owner' = Owner
    BY <1>2 DEF Owner
  <2> QED BY <1>2, <2>1 DEF Book!vars
<1>3. CommitBlock \/ UNCHANGED backup
  <2>1. Operate => UNCHANGED backup
    BY DEF Operate, CreateSong, DeleteSong, LengthenSong, SelectSong, SortSongs, CreateProject,
           DeleteProject, SelectProject, Begin
  <2>2. \/ WriteRecord \/ Enlist \/ CountSong \/ Unlist \/ RewriteSongUsage \/ CountSongs
        \/ Unmark \/ Grow \/ Mark \/ Sort \/ SaveLastSong \/ WriteProject \/ AddProject
        \/ DropProject \/ SaveLastProject
        => UNCHANGED backup
    BY DEF WriteRecord, Enlist, CountSong, Unlist, RewriteSongUsage, CountSongs, Unmark, Grow,
           Mark, Sort, SaveLastSong, WriteProject, AddProject, DropProject, SaveLastProject, Write
  <2>3. DeleteSongs \/ EndCommit \/ Stop \/ Repair \/ Open \/ UNCHANGED vars => UNCHANGED backup
    BY DEF DeleteSongs, EndCommit, Stop, Repair, Open, vars
  <2> QED BY <2>1, <2>2, <2>3 DEF Next
<1> QED BY <1>1, <1>2, <1>3

LEMMA InitOfBook == Init => Book!Init
<1> SUFFICES ASSUME Init PROVE Book!Init
  OBVIOUS
<1>1. Listed(backup) = {} /\ backup = home
  BY InitListsNone
<1>2. Owner = [s \in Songs |-> None]
  BY <1>1 DEF Owner
<1>3. ASSUME NEW s \in Songs
      PROVE  backup[s] = {}
  <2>1. s \in Blocks /\ s \notin {Superblock, DriveInfo} \cup ProjectBlocks
    BY SpaceBlocks DEF Tables, ListBlocks
  <2> QED BY <1>1, <2>1 DEF Init
<1> QED BY <1>2, <1>3 DEF Book!Init

\* Whatever operation runs and wherever it stops, also between two blocks of a
\* commit: what the backup has, which is what survives a stop, changes as the
\* book of songs does, by one song at a time that comes to a project, leaves it,
\* is cleared while it has none or gets clusters that no other song has, if the
\* recorder restores the drive after a stop and no stop comes between the two
\* saves of createsong.
THEOREM BookImplemented ==
  ASSUME ~StopInCreate, ~DirtyReopen
  PROVE  Spec => ImplementsBook
<1> DEFINE Inv == CatInv /\ SpaceInv /\ UsageInv /\ BookInv
<1>1. Init => Inv
  BY InitFits, InitSafe, InitUsage, InitBook
<1>2. Inv /\ [Next]_vars => Inv'
  BY ListsKept, ClustersKept, UsageIsKept, BookIsKept
<1>3. Inv /\ Inv' /\ [Next]_vars => [Book!Next]_(Book!vars)
  BY StepOfBook
<1>4. Init => Book!Init
  BY InitOfBook
<1> HIDE DEF Inv
<1> QED BY <1>1, <1>2, <1>3, <1>4, PTL DEF Spec, ImplementsBook, Book!Spec
=============================================================================
