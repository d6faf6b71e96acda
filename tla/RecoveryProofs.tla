--------------------------- MODULE RecoveryProofs ---------------------------
(***************************************************************************)
(* Proofs about Recovery: the clusters that belong to no song go to one    *)
(* song only, and a damaged song gets back what it lost, for drives and    *)
(* tables of any size and any number of damaged songs.  Most of it is      *)
(* about tables: what their entries cover, in which order, and which       *)
(* entries a set of clusters falls into.                                   *)
(***************************************************************************)
EXTENDS Recovery, FiniteSetTheorems, SequenceTheorems, WellFoundedInduction, TLAPS

------------------------------------------------------------------------------
(* Numbers. *)

LEMMA QuotientAndRemainder ==
    ASSUME NEW s \in Int, NEW c \in Nat \ {0}
    PROVE  s \div c \in Int /\ s % c \in 0 .. c - 1 /\ s = (s \div c) * c + (s % c)
BY SMT

LEMMA QuotientIs ==
    ASSUME NEW q \in Int, NEW c \in Nat \ {0}, NEW r \in 0 .. c - 1
    PROVE  (q * c + r) \div c = q /\ (q * c + r) % c = r
BY SMT

LEMMA RoundsUp ==
    ASSUME NEW b \in Nat, NEW c \in Nat \ {0}
    PROVE  (b + c - 1) \div c \in Nat /\ b <= c * ((b + c - 1) \div c)
<1>1. PICK s \in Nat : s = b + c - 1
  OBVIOUS
<1>2. PICK q \in Int : q = s \div c
  BY <1>1, QuotientAndRemainder
<1>3. PICK r \in 0 .. c - 1 : s = q * c + r
  <2>1. s % c \in 0 .. c - 1 /\ s = (s \div c) * c + (s % c)
    BY QuotientAndRemainder
  <2> QED BY <1>2, <2>1, Zenon
<1>4. PICK x \in Int : x = q * c /\ x = c * q
  BY SMT
<1>5. b <= x
  BY <1>1, <1>3, <1>4
<1>6. q >= 0
  BY <1>4, <1>5, SMT
<1> QED BY <1>1, <1>2, <1>4, <1>5, <1>6

LEMMA ProductIsNat == \A a, b \in Nat : a * b \in Nat
BY SMT

LEMMA NextProduct ==
    ASSUME NEW a \in Int, NEW c \in Int
    PROVE  c * (a + 1) = c * a + c /\ c * (a - 1) = c * a - c
BY SMT

LEMMA SumOfProducts ==
    ASSUME NEW a \in Int, NEW b \in Int, NEW c \in Int
    PROVE  c * (a + b) = c * a + c * b /\ c * (a - b) = c * a - c * b
BY SMT

\* A set of natural numbers that is not empty has a least element.  The proof
\* goes through the finite sets 0 .. n, which strict inclusion orders well.
LEMMA LeastNumber ==
    ASSUME NEW S \in SUBSET Nat, S # {}
    PROVE  \E x \in S : \A y \in S : x <= y
<1> DEFINE Upto == {0 .. n : n \in S}
<1>1. \A n \in Nat : IsFiniteSet(0 .. n) /\ 0 .. n \subseteq Nat
  BY FS_Interval
<1>2. Upto \subseteq FiniteSubsetsOf(Nat) /\ Upto # {}
  BY <1>1 DEF FiniteSubsetsOf
<1>3. PICK X \in Upto : \A Y \in Upto : <<Y, X>> \notin StrictSubsetOrdering(Nat)
  <2> HIDE DEF Upto
  <2> QED BY <1>2, FS_StrictSubsetOrderingWellFounded, WFMin, Zenon
<1>4. PICK x \in S : X = 0 .. x
  BY <1>3
<1>5. ASSUME NEW y \in S, y < x PROVE FALSE
  <2>1. 0 .. y \in Upto /\ 0 .. y \in SUBSET Nat /\ X \in SUBSET Nat
    BY <1>1, <1>4
  <2>2. x \in X /\ x \notin 0 .. y /\ 0 .. y \subseteq X
    BY <1>4, <1>5
  <2>3. <<0 .. y, X>> \in StrictSubsetOrdering(Nat)
    BY <2>1, <2>2 DEF StrictSubsetOrdering
  <2> QED BY <2>1, <2>3, <1>3
<1> QED BY <1>4, <1>5

------------------------------------------------------------------------------
(* The clusters of a table, entry by entry.                                 *)

Entry == [cluster : Nat, blocks : Nat]
Tables == Seq(Entry)

\* The clusters of an entry, in order, and what stands in front of an entry:
\* the clusters and the blocks of the entries before it.
Stretch(e) == [k \in 1 .. ClustersOf(e) |-> e.cluster + k - 1]
ListsUp(f, t, n) == f = [i \in 0 .. n |-> IF i = 0 THEN <<>> ELSE f[i - 1] \o Stretch(t[i])]
CountsUp(f, t, n) == f = [i \in 0 .. n |-> IF i = 0 THEN 0 ELSE f[i - 1] + t[i].blocks]
ListExists(t, n) == \E f : ListsUp(f, t, n)
CountExists(t, n) == \E f : CountsUp(f, t, n)
Listed(t) == CHOOSE f : ListsUp(f, t, Len(t))
Counted(t) == CHOOSE f : CountsUp(f, t, Len(t))

LEMMA ListsExist == \A t : \A n \in Nat : ListExists(t, n)
<1> SUFFICES ASSUME NEW t PROVE \A n \in Nat : ListExists(t, n)
  OBVIOUS
<1> DEFINE Bad == {n \in Nat : ~ListExists(t, n)}
<1> SUFFICES ASSUME Bad # {} PROVE FALSE
  OBVIOUS
<1>1. PICK m \in Bad : \A n \in Bad : m <= n
  BY LeastNumber
<1>2. m # 0
  <2> DEFINE f == [e \in 0 .. 0 |-> <<>>]
  <2>1. ListsUp(f, t, 0)
    BY DEF ListsUp
  <2> QED BY <1>1, <2>1 DEF ListExists
<1>3. m - 1 \in Nat /\ m \in Nat
  BY <1>1, <1>2
<1>4. ListExists(t, m - 1)
  BY <1>1, <1>3
<1>5. PICK f : ListsUp(f, t, m - 1)
  BY <1>4 DEF ListExists
<1> DEFINE g == [e \in 0 .. m |-> IF e = m THEN f[m - 1] \o Stretch(t[m]) ELSE f[e]]
<1>6. ASSUME NEW e \in 0 .. m
      PROVE  g[e] = IF e = 0 THEN <<>> ELSE g[e - 1] \o Stretch(t[e])
  <2>1. CASE e = m
    <3>1. g[e] = f[m - 1] \o Stretch(t[m]) /\ g[m - 1] = f[m - 1]
      BY <1>3, <2>1
    <3> QED BY <1>2, <2>1, <3>1
  <2>2. CASE e # m
    <3>1. e \in 0 .. m - 1 /\ g[e] = f[e]
      BY <1>3, <2>2
    <3>2. f[e] = IF e = 0 THEN <<>> ELSE f[e - 1] \o Stretch(t[e])
      BY <1>5, <3>1 DEF ListsUp
    <3>3. e # 0 => g[e - 1] = f[e - 1]
      BY <1>3, <2>2, <3>1
    <3> QED BY <3>1, <3>2, <3>3
  <2> QED BY <2>1, <2>2
<1>7. ListsUp(g, t, m)
  <2>1. g = [e \in 0 .. m |-> g[e]]
    OBVIOUS
  <2> HIDE DEF g
  <2> QED BY <1>6, <2>1 DEF ListsUp
<1> QED BY <1>1, <1>7 DEF ListExists

LEMMA CountsExist == \A t : \A n \in Nat : CountExists(t, n)
<1> SUFFICES ASSUME NEW t PROVE \A n \in Nat : CountExists(t, n)
  OBVIOUS
<1> DEFINE Bad == {n \in Nat : ~CountExists(t, n)}
<1> SUFFICES ASSUME Bad # {} PROVE FALSE
  OBVIOUS
<1>1. PICK m \in Bad : \A n \in Bad : m <= n
  BY LeastNumber
<1>2. m # 0
  <2> DEFINE f == [e \in 0 .. 0 |-> 0]
  <2>1. CountsUp(f, t, 0)
    BY DEF CountsUp
  <2> QED BY <1>1, <2>1 DEF CountExists
<1>3. m - 1 \in Nat /\ m \in Nat
  BY <1>1, <1>2
<1>4. CountExists(t, m - 1)
  BY <1>1, <1>3
<1>5. PICK f : CountsUp(f, t, m - 1)
  BY <1>4 DEF CountExists
<1> DEFINE g == [e \in 0 .. m |-> IF e = m THEN f[m - 1] + t[m].blocks ELSE f[e]]
<1>6. ASSUME NEW e \in 0 .. m
      PROVE  g[e] = IF e = 0 THEN 0 ELSE g[e - 1] + t[e].blocks
  <2>1. CASE e = m
    <3>1. g[e] = f[m - 1] + t[m].blocks /\ g[m - 1] = f[m - 1]
      BY <1>3, <2>1
    <3> QED BY <1>2, <2>1, <3>1
  <2>2. CASE e # m
    <3>1. e \in 0 .. m - 1 /\ g[e] = f[e]
      BY <1>3, <2>2
    <3>2. f[e] = IF e = 0 THEN 0 ELSE f[e - 1] + t[e].blocks
      BY <1>5, <3>1 DEF CountsUp
    <3>3. e # 0 => g[e - 1] = f[e - 1]
      BY <1>3, <2>2, <3>1
    <3> QED BY <3>1, <3>2, <3>3
  <2> QED BY <2>1, <2>2
<1>7. CountsUp(g, t, m)
  <2>1. g = [e \in 0 .. m |-> g[e]]
    OBVIOUS
  <2> HIDE DEF g
  <2> QED BY <1>6, <2>1 DEF CountsUp
<1> QED BY <1>1, <1>7 DEF CountExists

\* Every entry adds its clusters and its blocks.
LEMMA Unfold ==
    ASSUME NEW t, Len(t) \in Nat
    PROVE  /\ Listed(t)[0] = <<>> /\ Counted(t)[0] = 0
           /\ \A i \in 1 .. Len(t) : /\ Listed(t)[i] = Listed(t)[i - 1] \o Stretch(t[i])
                                     /\ Counted(t)[i] = Counted(t)[i - 1] + t[i].blocks
           /\ InOrder(t) = Listed(t)[Len(t)]
           /\ BlocksInTable(t) = Counted(t)[Len(t)]
<1>1. ListsUp(Listed(t), t, Len(t))
  BY ListsExist DEF ListExists, Listed
<1>2. CountsUp(Counted(t), t, Len(t))
  BY CountsExist DEF CountExists, Counted
<1>3. \A i \in 0 .. Len(t) :
        Listed(t)[i] = IF i = 0 THEN <<>> ELSE Listed(t)[i - 1] \o Stretch(t[i])
  BY <1>1 DEF ListsUp
<1>4. \A i \in 0 .. Len(t) : Counted(t)[i] = IF i = 0 THEN 0 ELSE Counted(t)[i - 1] + t[i].blocks
  BY <1>2 DEF CountsUp
<1>5. InOrder(t) = Listed(t)[Len(t)]
  BY DEF InOrder, Listed, ListsUp, Stretch
<1>6. BlocksInTable(t) = Counted(t)[Len(t)]
  BY DEF BlocksInTable, Counted, CountsUp
<1>7. 0 \in 0 .. Len(t) /\ \A i \in 1 .. Len(t) : i \in 0 .. Len(t) /\ i # 0
  OBVIOUS
<1>8. Listed(t)[0] = <<>> /\ Counted(t)[0] = 0
  BY <1>3, <1>4, <1>7
<1>9. \A i \in 1 .. Len(t) : Listed(t)[i] = Listed(t)[i - 1] \o Stretch(t[i])
  BY <1>3, <1>7
<1>10. \A i \in 1 .. Len(t) : Counted(t)[i] = Counted(t)[i - 1] + t[i].blocks
  BY <1>4, <1>7
<1> QED BY <1>5, <1>6, <1>8, <1>9, <1>10

\* An entry covers at least one cluster, and as many blocks as they have.
LEMMA StretchIs ==
    ASSUME NEW e \in Entry
    PROVE  /\ ClustersOf(e) \in Nat /\ Stretch(e) \in Seq(Nat) /\ Len(Stretch(e)) = ClustersOf(e)
           /\ \A k \in 1 .. ClustersOf(e) : Stretch(e)[k] = e.cluster + k - 1
           /\ e.blocks <= BlocksPerCluster * ClustersOf(e)
<1> DEFINE q == ClustersOf(e)
<1>1. BlocksPerCluster \in Nat \ {0} /\ e.blocks \in Nat /\ e.cluster \in Nat
  BY RecoveryAssumption DEF Entry
<1>6. q \in Nat /\ e.blocks <= BlocksPerCluster * q
  BY <1>1, RoundsUp DEF ClustersOf
<1>7. Stretch(e) = [k \in 1 .. q |-> e.cluster + k - 1]
  BY DEF Stretch
<1>8. \A k \in 1 .. q : e.cluster + k - 1 \in Nat
  <2> HIDE DEF q
  <2> QED BY <1>1, <1>6
<1>9. Stretch(e) \in Seq(Nat) /\ Len(Stretch(e)) = q
  <2> HIDE DEF q
  <2> QED BY <1>6, <1>7, <1>8
<1> QED BY <1>6, <1>7, <1>9

\* The clusters in front of entry i + 1 form a sequence of clusters.
LEMMA ListedType ==
    ASSUME NEW t \in Tables
    PROVE  /\ \A i \in 0 .. Len(t) : Listed(t)[i] \in Seq(Nat) /\ Counted(t)[i] \in Nat
           /\ InOrder(t) \in Seq(Nat) /\ BlocksInTable(t) \in Nat
<1> DEFINE Bad == {i \in 0 .. Len(t) : ~(Listed(t)[i] \in Seq(Nat) /\ Counted(t)[i] \in Nat)}
<1>0. Len(t) \in Nat /\ \A i \in 1 .. Len(t) : t[i] \in Entry
  BY DEF Tables
<1>1. Bad = {}
  <2> SUFFICES ASSUME Bad # {} PROVE FALSE
    OBVIOUS
  <2>1. PICK m \in Bad : \A i \in Bad : m <= i
    <3>1. Bad \in SUBSET Nat
      BY <1>0
    <3> QED BY <3>1, LeastNumber
  <2>2. m # 0
    <3>1. Listed(t)[0] = <<>> /\ Counted(t)[0] = 0
      BY <1>0, Unfold
    <3>2. <<>> \in Seq(Nat) /\ 0 \in Nat
      OBVIOUS
    <3> QED BY <2>1, <3>1, <3>2
  <2>3. m \in 1 .. Len(t) /\ m - 1 \in 0 .. Len(t) /\ m - 1 \notin Bad
    BY <1>0, <2>1, <2>2
  <2>4. Listed(t)[m - 1] \in Seq(Nat) /\ Counted(t)[m - 1] \in Nat
    BY <2>3
  <2>5. Listed(t)[m] = Listed(t)[m - 1] \o Stretch(t[m])
        /\ Counted(t)[m] = Counted(t)[m - 1] + t[m].blocks
    BY <1>0, <2>3, Unfold
  <2>6. Stretch(t[m]) \in Seq(Nat) /\ t[m].blocks \in Nat
    BY <1>0, <2>3, StretchIs DEF Entry
  <2>7. Listed(t)[m] \in Seq(Nat) /\ Counted(t)[m] \in Nat
    BY <2>4, <2>5, <2>6
  <2> QED BY <2>1, <2>7
<1>2. \A i \in 0 .. Len(t) : Listed(t)[i] \in Seq(Nat) /\ Counted(t)[i] \in Nat
  BY <1>1
<1>3. Len(t) \in 0 .. Len(t)
  BY <1>0
<1> QED BY <1>0, <1>2, <1>3, Unfold

\* Tables that begin alike have the same clusters there.
LEMMA SameBeginning ==
    ASSUME NEW t \in Tables, NEW u \in Tables, NEW n \in 0 .. Len(t), n <= Len(u),
           \A i \in 1 .. n : t[i] = u[i]
    PROVE  \A i \in 0 .. n : Listed(t)[i] = Listed(u)[i] /\ Counted(t)[i] = Counted(u)[i]
<1> DEFINE Bad == {i \in 0 .. n : ~(Listed(t)[i] = Listed(u)[i] /\ Counted(t)[i] = Counted(u)[i])}
<1> SUFFICES ASSUME Bad # {} PROVE FALSE
  OBVIOUS
<1>0. Len(t) \in Nat /\ Len(u) \in Nat /\ n \in Nat
  BY DEF Tables
<1>1. PICK m \in Bad : \A i \in Bad : m <= i
  <2>1. Bad \in SUBSET Nat
    BY <1>0
  <2> QED BY <2>1, LeastNumber
<1>2. m # 0
  BY <1>0, <1>1, Unfold
<1>3. m \in 1 .. n /\ m \in 1 .. Len(t) /\ m \in 1 .. Len(u) /\ m - 1 \in 0 .. n /\ m - 1 \notin Bad
  BY <1>0, <1>1, <1>2
<1>4. Listed(t)[m - 1] = Listed(u)[m - 1] /\ Counted(t)[m - 1] = Counted(u)[m - 1] /\ t[m] = u[m]
  BY <1>3
<1>5. Listed(t)[m] = Listed(t)[m - 1] \o Stretch(t[m])
      /\ Counted(t)[m] = Counted(t)[m - 1] + t[m].blocks
  BY <1>0, <1>3, Unfold
<1>6. Listed(u)[m] = Listed(u)[m - 1] \o Stretch(u[m])
      /\ Counted(u)[m] = Counted(u)[m - 1] + u[m].blocks
  BY <1>0, <1>3, Unfold
<1> QED BY <1>1, <1>4, <1>5, <1>6

LEMMA ConcatAssociates ==
    ASSUME NEW a \in Seq(Nat), NEW b \in Seq(Nat), NEW c \in Seq(Nat)
    PROVE  (a \o b) \o c = a \o (b \o c)
<1> DEFINE l == (a \o b) \o c
           r == a \o (b \o c)
<1>1. a \o b \in Seq(Nat) /\ Len(a \o b) = Len(a) + Len(b)
      /\ b \o c \in Seq(Nat) /\ Len(b \o c) = Len(b) + Len(c)
      /\ Len(a) \in Nat /\ Len(b) \in Nat /\ Len(c) \in Nat
  OBVIOUS
<1>2. l \in Seq(Nat) /\ r \in Seq(Nat) /\ Len(l) = Len(a) + Len(b) + Len(c) /\ Len(r) = Len(l)
  BY <1>1
<1>3. ASSUME NEW i \in 1 .. Len(l) PROVE l[i] = r[i]
  <2>1. CASE i <= Len(a)
    <3>1. (a \o b)[i] = a[i] /\ l[i] = (a \o b)[i]
      BY <1>1, <1>2, <2>1
    <3>2. r[i] = a[i]
      BY <1>1, <1>2, <2>1
    <3> QED BY <3>1, <3>2
  <2>2. CASE Len(a) < i /\ i <= Len(a) + Len(b)
    <3>1. (a \o b)[i] = b[i - Len(a)] /\ l[i] = (a \o b)[i]
      BY <1>1, <1>2, <2>2
    <3>2. r[i] = (b \o c)[i - Len(a)] /\ (b \o c)[i - Len(a)] = b[i - Len(a)]
      BY <1>1, <1>2, <2>2
    <3> QED BY <3>1, <3>2
  <2>3. CASE Len(a) + Len(b) < i
    <3>1. l[i] = c[i - (Len(a) + Len(b))]
      BY <1>1, <1>2, <2>3
    <3>2. r[i] = (b \o c)[i - Len(a)] /\ (b \o c)[i - Len(a)] = c[(i - Len(a)) - Len(b)]
      BY <1>1, <1>2, <2>3
    <3>3. (i - Len(a)) - Len(b) = i - (Len(a) + Len(b))
      BY <1>1, <1>2
    <3> QED BY <3>1, <3>2, <3>3
  <2> QED BY <1>1, <1>2, <2>1, <2>2, <2>3
<1> HIDE DEF l, r
<1>4. l = r
  BY <1>2, <1>3, SeqEqual
<1> QED BY <1>4 DEF l, r

\* What follows in a table follows in the clusters and adds to the blocks.
LEMMA Appended ==
    ASSUME NEW t \in Tables, NEW u \in Tables
    PROVE  /\ t \o u \in Tables
           /\ InOrder(t \o u) = InOrder(t) \o InOrder(u)
           /\ BlocksInTable(t \o u) = BlocksInTable(t) + BlocksInTable(u)
<1> DEFINE w == t \o u
           n == Len(t)
           Bad == {i \in 0 .. Len(u) :
                     ~(/\ Listed(w)[n + i] = InOrder(t) \o Listed(u)[i]
                       /\ Counted(w)[n + i] = BlocksInTable(t) + Counted(u)[i])}
<1>1. /\ w \in Tables /\ Len(w) = n + Len(u) /\ n \in Nat /\ Len(u) \in Nat
      /\ \A i \in 1 .. n : w[i] = t[i]
      /\ \A i \in 1 .. Len(u) : w[n + i] = u[i]
  BY DEF Tables
<1> HIDE DEF w, n
<1>2. Listed(w)[n] = InOrder(t) /\ Counted(w)[n] = BlocksInTable(t)
  <2>1. n \in 0 .. Len(w) /\ n <= Len(t) /\ n \in 0 .. n /\ n = Len(t)
    BY <1>1 DEF n
  <2>2. Listed(w)[n] = Listed(t)[n] /\ Counted(w)[n] = Counted(t)[n]
    BY <1>1, <2>1, SameBeginning
  <2> QED BY <1>1, <2>1, <2>2, Unfold
<1>3. InOrder(t) \in Seq(Nat) /\ BlocksInTable(t) \in Nat
  BY ListedType
<1>4. Bad = {}
  <2> SUFFICES ASSUME Bad # {} PROVE FALSE
    OBVIOUS
  <2>1. PICK m \in Bad : \A i \in Bad : m <= i
    <3>1. Bad \in SUBSET Nat
      BY <1>1
    <3> QED BY <3>1, LeastNumber
  <2>2. m # 0
    <3>1. Listed(u)[0] = <<>> /\ Counted(u)[0] = 0
      BY <1>1, Unfold
    <3>2. n + 0 = n /\ InOrder(t) \o <<>> = InOrder(t) /\ BlocksInTable(t) + 0 = BlocksInTable(t)
      BY <1>1, <1>3
    <3> QED BY <1>2, <2>1, <3>1, <3>2
  <2>3. /\ m \in 1 .. Len(u) /\ m - 1 \in 0 .. Len(u) /\ m - 1 \notin Bad
        /\ n + m \in 1 .. Len(w) /\ (n + m) - 1 = n + (m - 1)
    <3>1. m \in 1 .. Len(u) /\ m - 1 \in 0 .. Len(u)
      BY <1>1, <2>1, <2>2
    <3>2. m - 1 \notin Bad
      BY <2>1, <3>1
    <3> HIDE DEF Bad
    <3> QED BY <1>1, <3>1, <3>2
  <2>4. Listed(w)[n + (m - 1)] = InOrder(t) \o Listed(u)[m - 1]
        /\ Counted(w)[n + (m - 1)] = BlocksInTable(t) + Counted(u)[m - 1]
    BY <2>3
  <2>5. Listed(w)[n + m] = Listed(w)[n + (m - 1)] \o Stretch(w[n + m])
        /\ Counted(w)[n + m] = Counted(w)[n + (m - 1)] + w[n + m].blocks
    <3>1. Len(w) \in Nat
      BY <1>1
    <3>2. Listed(w)[n + m] = Listed(w)[(n + m) - 1] \o Stretch(w[n + m])
          /\ Counted(w)[n + m] = Counted(w)[(n + m) - 1] + w[n + m].blocks
      BY <2>3, <3>1, Unfold
    <3> QED BY <2>3, <3>2
  <2>6. Listed(u)[m] = Listed(u)[m - 1] \o Stretch(u[m])
        /\ Counted(u)[m] = Counted(u)[m - 1] + u[m].blocks
    BY <1>1, <2>3, Unfold
  <2>7. w[n + m] = u[m] /\ u[m] \in Entry
    <3>1. u[m] \in Entry
      BY <2>3 DEF Tables
    <3> QED BY <1>1, <2>3, <3>1
  <2>8. Stretch(u[m]) \in Seq(Nat) /\ Listed(u)[m - 1] \in Seq(Nat)
        /\ Counted(u)[m - 1] \in Nat /\ u[m].blocks \in Nat
    BY <2>3, <2>7, StretchIs, ListedType DEF Entry
  <2>9. Listed(w)[n + m] = InOrder(t) \o Listed(u)[m]
    <3>1. (InOrder(t) \o Listed(u)[m - 1]) \o Stretch(u[m])
            = InOrder(t) \o (Listed(u)[m - 1] \o Stretch(u[m]))
      BY <1>3, <2>8, ConcatAssociates
    <3> QED BY <2>4, <2>5, <2>6, <2>7, <3>1
  <2>10. Counted(w)[n + m] = BlocksInTable(t) + Counted(u)[m]
    BY <1>3, <2>4, <2>5, <2>6, <2>7, <2>8
  <2> QED BY <2>1, <2>9, <2>10
<1>5. Len(u) \in 0 .. Len(u) /\ Len(u) \notin Bad
  BY <1>1, <1>4
<1>6. Listed(w)[Len(w)] = InOrder(t) \o InOrder(u)
      /\ Counted(w)[Len(w)] = BlocksInTable(t) + BlocksInTable(u)
  <2>1. Listed(u)[Len(u)] = InOrder(u) /\ Counted(u)[Len(u)] = BlocksInTable(u)
    BY <1>1, Unfold
  <2> QED BY <1>1, <1>5, <2>1
<1>7. InOrder(w) = Listed(w)[Len(w)] /\ BlocksInTable(w) = Counted(w)[Len(w)]
  <2>1. Len(w) \in Nat
    BY <1>1
  <2> QED BY <2>1, Unfold
<1> QED BY <1>1, <1>6, <1>7 DEF w

------------------------------------------------------------------------------
(* The clusters that belong to no song, and the entries they are given.     *)

Covers(s) == {s[i] : i \in DOMAIN s}

LEMMA CoversAppended ==
    ASSUME NEW a \in Seq(Nat), NEW b \in Seq(Nat)
    PROVE  Covers(a \o b) = Covers(a) \cup Covers(b)
<1>1. /\ a \o b \in Seq(Nat) /\ Len(a \o b) = Len(a) + Len(b)
      /\ Len(a) \in Nat /\ Len(b) \in Nat
      /\ DOMAIN a = 1 .. Len(a) /\ DOMAIN b = 1 .. Len(b) /\ DOMAIN (a \o b) = 1 .. Len(a) + Len(b)
      /\ \A i \in 1 .. Len(a) : (a \o b)[i] = a[i]
      /\ \A i \in Len(a) + 1 .. Len(a) + Len(b) : (a \o b)[i] = b[i - Len(a)]
  OBVIOUS
<1>2. ASSUME NEW i \in 1 .. Len(a) PROVE a[i] \in Covers(a \o b)
  <2>1. i \in 1 .. Len(a) + Len(b) /\ (a \o b)[i] = a[i]
    BY <1>1
  <2> QED BY <1>1, <2>1 DEF Covers
<1>3. ASSUME NEW i \in 1 .. Len(b) PROVE b[i] \in Covers(a \o b)
  <2>1. Len(a) + i \in Len(a) + 1 .. Len(a) + Len(b) /\ Len(a) + i \in 1 .. Len(a) + Len(b)
        /\ (Len(a) + i) - Len(a) = i
    BY <1>1
  <2>2. (a \o b)[Len(a) + i] = b[i]
    BY <1>1, <2>1
  <2> QED BY <1>1, <2>1, <2>2 DEF Covers
<1>4. ASSUME NEW i \in 1 .. Len(a) + Len(b) PROVE (a \o b)[i] \in Covers(a) \cup Covers(b)
  <2>1. CASE i <= Len(a)
    <3>1. i \in 1 .. Len(a)
      BY <1>1, <2>1
    <3> QED BY <1>1, <3>1 DEF Covers
  <2>2. CASE ~(i <= Len(a))
    <3>1. i \in Len(a) + 1 .. Len(a) + Len(b) /\ i - Len(a) \in 1 .. Len(b)
      BY <1>1, <2>2
    <3>2. (a \o b)[i] = b[i - Len(a)]
      BY <1>1, <3>1
    <3> QED BY <1>1, <3>1, <3>2 DEF Covers
  <2> QED BY <2>1, <2>2
<1> QED BY <1>1, <1>2, <1>3, <1>4 DEF Covers

LEMMA CoverOfIs == \A t : CoverOf(t) = Covers(InOrder(t))
BY DEF CoverOf, Covers

\* The clusters of a table are finitely many.
LEMMA CoverIsFinite ==
    ASSUME NEW t \in Tables
    PROVE  IsFiniteSet(CoverOf(t)) /\ CoverOf(t) \in SUBSET Nat
<1> DEFINE s == InOrder(t)
<1>1. s \in Seq(Nat)
  BY ListedType
<1> HIDE DEF s
<1>2. DOMAIN s = 1 .. Len(s) /\ Len(s) \in Nat /\ \A i \in 1 .. Len(s) : s[i] \in Nat
  BY <1>1
<1>3. IsFiniteSet(1 .. Len(s))
  BY <1>2, FS_Interval
<1>4. IsFiniteSet(Covers(s))
  <2>1. Covers(s) = {s[i] : i \in 1 .. Len(s)}
    BY <1>2 DEF Covers
  <2>2. s \in Surjection(1 .. Len(s), Covers(s))
    <3>1. s = [i \in 1 .. Len(s) |-> s[i]]
      BY <1>1
    <3>2. s \in [1 .. Len(s) -> Covers(s)]
      BY <2>1, <3>1
    <3> QED BY <2>1, <3>2 DEF Surjection
  <2> QED BY <1>3, <2>2, FS_Surjection
<1>5. Covers(s) \in SUBSET Nat
  BY <1>2 DEF Covers
<1> QED BY <1>4, <1>5, CoverOfIs DEF s

\* How many elements of a set stand in front of and at c.
Upto(S, c) == {d \in S : d <= c}
Rank(S, c) == Cardinality(Upto(S, c))

LEMMA RankGrows ==
    ASSUME NEW S \in SUBSET Nat, IsFiniteSet(S)
    PROVE  /\ Cardinality(S) \in Nat
           /\ \A c \in S : Rank(S, c) \in 1 .. Cardinality(S)
           /\ \A c, d \in S : c < d => Rank(S, c) < Rank(S, d)
<1>1. Cardinality(S) \in Nat
  BY FS_CardinalityType
<1>2. ASSUME NEW c \in S PROVE /\ IsFiniteSet(Upto(S, c)) /\ Rank(S, c) \in 1 .. Cardinality(S)
  <2>1. Upto(S, c) \subseteq S /\ c \in Upto(S, c)
    BY DEF Upto
  <2>2. IsFiniteSet(Upto(S, c)) /\ Cardinality(Upto(S, c)) <= Cardinality(S)
        /\ Cardinality(Upto(S, c)) \in Nat
    BY <2>1, FS_Subset, FS_CardinalityType
  <2>3. Cardinality(Upto(S, c)) # 0
    BY <2>1, <2>2, FS_EmptySet
  <2> QED BY <1>1, <2>2, <2>3 DEF Rank
<1>3. ASSUME NEW c \in S, NEW d \in S, c < d PROVE Rank(S, c) < Rank(S, d)
  <2>1. Upto(S, c) \subseteq Upto(S, d) /\ Upto(S, c) # Upto(S, d)
    <3>1. d \in Upto(S, d) /\ d \notin Upto(S, c)
      BY <1>3 DEF Upto
    <3>2. ASSUME NEW x \in Upto(S, c) PROVE x \in Upto(S, d)
      BY <1>3 DEF Upto
    <3> QED BY <3>1, <3>2
  <2>2. /\ IsFiniteSet(Upto(S, d)) /\ IsFiniteSet(Upto(S, c))
        /\ Rank(S, c) \in Nat /\ Rank(S, d) \in Nat
    BY <1>2
  <2>3. Cardinality(Upto(S, c)) < Cardinality(Upto(S, d))
    BY <2>1, <2>2, FS_Subset DEF Rank
  <2> QED BY <2>3 DEF Rank
<1> QED BY <1>1, <1>2, <1>3

\* Every place is taken, and by one element.
LEMMA RankIsTaken ==
    ASSUME NEW S \in SUBSET Nat, IsFiniteSet(S), NEW i \in 1 .. Cardinality(S)
    PROVE  \E c \in S : Rank(S, c) = i
<1> DEFINE Bad == {k \in 1 .. Cardinality(S) : ~\E c \in S : Rank(S, c) = k}
<1> SUFFICES ASSUME Bad # {} PROVE FALSE
  OBVIOUS
<1>0. Cardinality(S) \in Nat
  BY RankGrows
<1>1. PICK m \in Bad : \A k \in Bad : m <= k
  <2>1. Bad \in SUBSET Nat
    BY <1>0
  <2> HIDE DEF Bad
  <2> QED BY <2>1, LeastNumber
<1>2. m \in 1 .. Cardinality(S) /\ ~\E c \in S : Rank(S, c) = m
  BY <1>1
<1>3. \E P \in SUBSET S : /\ IsFiniteSet(P) /\ Cardinality(P) = m - 1
                          /\ \A x \in P : \A y \in S : y <= x => y \in P
  <2>1. CASE m = 1
    <3>1. IsFiniteSet({}) /\ Cardinality({}) = 0
      BY FS_EmptySet
    <3> QED BY <2>1, <3>1
  <2>2. CASE m # 1
    <3>1. m - 1 \in 1 .. Cardinality(S) /\ m - 1 < m
      BY <1>0, <1>2, <2>2
    <3>2. m - 1 \notin Bad
      BY <1>0, <1>1, <3>1
    <3>3. PICK c \in S : Rank(S, c) = m - 1
      BY <3>1, <3>2
    <3>4. Upto(S, c) \in SUBSET S /\ IsFiniteSet(Upto(S, c)) /\ Cardinality(Upto(S, c)) = m - 1
      BY <3>3, FS_Subset DEF Rank, Upto
    <3>5. ASSUME NEW x \in Upto(S, c), NEW y \in S, y <= x PROVE y \in Upto(S, c)
      BY <3>5 DEF Upto
    <3> QED BY <3>4, <3>5
  <2> QED BY <2>1, <2>2
<1>4. PICK P \in SUBSET S : /\ IsFiniteSet(P) /\ Cardinality(P) = m - 1
                            /\ \A x \in P : \A y \in S : y <= x => y \in P
  BY <1>3
<1>5. S \ P # {}
  <2> SUFFICES ASSUME S = P PROVE FALSE
    BY <1>4
  <2> QED BY <1>0, <1>2, <1>4
<1>6. PICK c \in S \ P : \A d \in S \ P : c <= d
  <2>1. S \ P \in SUBSET Nat
    OBVIOUS
  <2> QED BY <1>5, <2>1, LeastNumber
<1>7. Upto(S, c) = P \cup {c}
  <2>1. ASSUME NEW x \in Upto(S, c), x \notin P PROVE x = c
    <3>1. x \in S \ P /\ x <= c /\ c <= x /\ x \in Nat /\ c \in Nat
      BY <1>6, <2>1 DEF Upto
    <3> QED BY <3>1
  <2>2. ASSUME NEW x \in P PROVE x \in Upto(S, c)
    <3>1. ~(c <= x) /\ x \in S /\ x \in Nat /\ c \in Nat
      BY <1>4, <1>6
    <3> QED BY <3>1 DEF Upto
  <2>3. c \in Upto(S, c)
    BY <1>6 DEF Upto
  <2> QED BY <2>1, <2>2, <2>3
<1>8. Cardinality(P \cup {c}) = (m - 1) + 1
  BY <1>4, <1>6, FS_AddElement
<1>9. Rank(S, c) = m
  BY <1>2, <1>7, <1>8 DEF Rank
<1> QED BY <1>2, <1>6, <1>9

\* A run goes on to the first cluster that is not in the set.
LEMMA RunIs ==
    ASSUME NEW O \in SUBSET Nat, IsFiniteSet(O), NEW c \in O
    PROVE  /\ RunLength(O, c) \in Nat \ {0}
           /\ c .. c + RunLength(O, c) - 1 \subseteq O
           /\ c + RunLength(O, c) \notin O
<1> DEFINE Out == {e \in Nat : c <= e /\ e \notin O}
           Run == {d \in O : d >= c /\ c .. d \subseteq O}
<1>0. c \in Nat
  OBVIOUS
<1>1. Out # {}
  <2> SUFFICES ASSUME \A e \in Nat : c <= e => e \in O PROVE FALSE
    OBVIOUS
  <2>1. Cardinality(O) \in Nat
    BY FS_CardinalityType
  <2> DEFINE n == Cardinality(O)
  <2>2. c .. c + n \subseteq O
    BY <1>0, <2>1
  <2>3. Cardinality(c .. c + n) = n + 1
    <3>1. c + n \in Int /\ c \in Int
      BY <1>0, <2>1
    <3>2. Cardinality(c .. c + n) = IF c > c + n THEN 0 ELSE (c + n) - c + 1
      BY <3>1, FS_Interval
    <3> HIDE DEF n
    <3> QED BY <1>0, <2>1, <3>2 DEF n
  <2>4. Cardinality(c .. c + n) <= Cardinality(O)
    BY <2>2, FS_Subset
  <2> QED BY <2>1, <2>3, <2>4
<1>2. PICK e \in Out : \A x \in Out : e <= x
  <2>1. Out \in SUBSET Nat
    OBVIOUS
  <2> HIDE DEF Out
  <2> QED BY <1>1, <2>1, LeastNumber
<1>3. e \in Nat /\ c <= e /\ e \notin O /\ e # c
  BY <1>2
<1>4. \A x \in c .. e - 1 : x \in O
  <2> SUFFICES ASSUME NEW x \in c .. e - 1, x \notin O PROVE FALSE
    OBVIOUS
  <2>1. x \in Out /\ ~(e <= x)
    BY <1>0, <1>3
  <2> QED BY <1>2, <2>1
<1>5. Run = c .. e - 1
  <2>1. ASSUME NEW d \in Run PROVE d \in c .. e - 1
    <3>1. d \in Nat /\ d >= c /\ c .. d \subseteq O
      OBVIOUS
    <3>2. ~(e <= d)
      BY <1>0, <1>3, <3>1
    <3> QED BY <1>0, <1>3, <3>1, <3>2
  <2>2. ASSUME NEW d \in c .. e - 1 PROVE d \in Run
    <3>1. d \in O /\ d >= c /\ d \in Nat
      BY <1>0, <1>3, <1>4
    <3>2. \A x \in c .. d : x \in c .. e - 1
      BY <1>0, <1>3, <3>1
    <3>3. c .. d \subseteq O
      BY <1>4, <3>2
    <3> QED BY <3>1, <3>3
  <2> QED BY <2>1, <2>2
<1>6. Cardinality(c .. e - 1) = e - c
  <2>1. Cardinality(c .. e - 1) = IF c > e - 1 THEN 0 ELSE (e - 1) - c + 1
    BY <1>0, <1>3, FS_Interval
  <2> QED BY <1>0, <1>3, <2>1
<1>7. RunLength(O, c) = e - c
  BY <1>5, <1>6 DEF RunLength
<1>8. e - c \in Nat \ {0} /\ c + (e - c) = e /\ c + (e - c) - 1 = e - 1
  BY <1>0, <1>3
<1> QED BY <1>3, <1>4, <1>7, <1>8

\* The first cluster of run i, and the one behind its last.
Starts(O) == {c \in O : c - 1 \notin O}
First(O, i) == CHOOSE c \in Starts(O) : Cardinality({d \in Starts(O) : d <= c}) = i
Behind(O, i) == First(O, i) + RunLength(O, First(O, i))

\* The runs of a set, in order: each lies in the set and ends before the next
\* begins, and nothing of the set lies between them.
LEMMA RunsAre ==
    ASSUME NEW O \in SUBSET Nat, IsFiniteSet(O)
    PROVE  /\ Cardinality(Starts(O)) \in Nat
           /\ \A i \in 1 .. Cardinality(Starts(O)) :
                /\ First(O, i) \in Starts(O) /\ First(O, i) \in O /\ First(O, i) \in Nat
                /\ RunLength(O, First(O, i)) \in Nat \ {0}
                /\ First(O, i) .. Behind(O, i) - 1 \subseteq O
                /\ Behind(O, i) \in Nat /\ Behind(O, i) \notin O
           /\ \A i \in 1 .. Cardinality(Starts(O)) - 1 :
                /\ Behind(O, i) < First(O, i + 1)
                /\ \A d \in O : d < First(O, i + 1) => d < Behind(O, i)
           /\ Cardinality(Starts(O)) # 0 => \A d \in O : First(O, 1) <= d
           /\ Cardinality(Starts(O)) # 0 => \A d \in O : d < Behind(O, Cardinality(Starts(O)))
           /\ Cardinality(Starts(O)) = 0 => O = {}
<1> DEFINE S == Starts(O)
           n == Cardinality(S)
<1>1. S \in SUBSET Nat /\ IsFiniteSet(S) /\ S \subseteq O /\ \A c \in S : c - 1 \notin O
  BY FS_Subset DEF Starts
<1>2. n \in Nat /\ \A c \in S : Rank(S, c) \in 1 .. n
  BY <1>1, RankGrows
<1>3. \A c, d \in S : c < d => Rank(S, c) < Rank(S, d)
  BY <1>1, RankGrows
<1>4. ASSUME NEW i \in 1 .. n PROVE First(O, i) \in S /\ Rank(S, First(O, i)) = i
  <2>1. First(O, i) = CHOOSE c \in S : Rank(S, c) = i
    BY DEF First, Rank, Upto
  <2>2. \E c \in S : Rank(S, c) = i
    <3> HIDE DEF S
    <3> QED BY <1>1, RankIsTaken
  <2> HIDE DEF S
  <2> QED BY <2>1, <2>2
<1>5. ASSUME NEW i \in 1 .. n
      PROVE  /\ First(O, i) \in O /\ First(O, i) \in Nat
             /\ RunLength(O, First(O, i)) \in Nat \ {0}
             /\ First(O, i) .. Behind(O, i) - 1 \subseteq O
             /\ Behind(O, i) \in Nat /\ Behind(O, i) \notin O
  <2>1. First(O, i) \in O /\ First(O, i) \in Nat
    BY <1>1, <1>4
  <2>2. /\ RunLength(O, First(O, i)) \in Nat \ {0}
        /\ First(O, i) .. First(O, i) + RunLength(O, First(O, i)) - 1 \subseteq O
        /\ First(O, i) + RunLength(O, First(O, i)) \notin O
    BY <2>1, RunIs
  <2> QED BY <2>1, <2>2 DEF Behind
\* The least cluster of the set from b on, if b is not in it or in front of
\* it, begins a run.
<1>6. ASSUME NEW b \in Nat, b \notin O \/ b = 0, NEW d \in O, b <= d
      PROVE  \E c \in S : b <= c /\ c <= d
  <2> DEFINE From == {x \in O : b <= x}
  <2>1. From \in SUBSET Nat /\ d \in From
    BY <1>6
  <2>2. PICK c \in From : \A x \in From : c <= x
    <3> HIDE DEF From
    <3> QED BY <2>1, LeastNumber
  <2>3. c \in O /\ b <= c /\ c <= d /\ c \in Nat
    BY <2>1, <2>2
  <2>4. c - 1 \notin O
    <3> SUFFICES ASSUME c - 1 \in O PROVE FALSE
      OBVIOUS
    <3>1. c - 1 \in Nat /\ ~(c <= c - 1)
      BY <2>3
    <3>2. ~(b <= c - 1)
      BY <2>2, <3>1
    <3>3. b = c
      BY <2>3, <3>1, <3>2
    <3>4. b = 0
      BY <1>6, <2>3, <3>3
    <3> QED BY <3>1, <3>3, <3>4
  <2>5. c \in S
    BY <2>3, <2>4 DEF Starts
  <2> QED BY <2>3, <2>5
<1> HIDE DEF S, n
<1>7. ASSUME NEW i \in 1 .. n - 1
      PROVE  /\ Behind(O, i) < First(O, i + 1)
             /\ \A d \in O : d < First(O, i + 1) => d < Behind(O, i)
  <2>1. i \in 1 .. n /\ i + 1 \in 1 .. n
    BY <1>2
  <2>2. /\ First(O, i) \in S /\ Rank(S, First(O, i)) = i
        /\ First(O, i + 1) \in S /\ Rank(S, First(O, i + 1)) = i + 1
    BY <1>4, <2>1
  <2>3. /\ First(O, i) \in Nat /\ First(O, i + 1) \in Nat /\ Behind(O, i) \in Nat
        /\ First(O, i) .. Behind(O, i) - 1 \subseteq O /\ Behind(O, i) \notin O
        /\ First(O, i + 1) \in O /\ First(O, i) < Behind(O, i)
    BY <1>5, <2>1 DEF Behind
  <2>4. First(O, i) < First(O, i + 1)
    <3>1. ~(First(O, i + 1) < First(O, i))
      <4> SUFFICES ASSUME First(O, i + 1) < First(O, i) PROVE FALSE
        OBVIOUS
      <4>1. Rank(S, First(O, i + 1)) < Rank(S, First(O, i))
        BY <1>3, <2>2
      <4> QED BY <2>1, <2>2, <4>1
    <3>2. First(O, i + 1) # First(O, i)
      BY <2>1, <2>2
    <3> QED BY <2>3, <3>1, <3>2
  <2>5. Behind(O, i) < First(O, i + 1)
    <3> SUFFICES ASSUME First(O, i + 1) <= Behind(O, i) PROVE FALSE
      BY <2>3
    <3>1. First(O, i + 1) # Behind(O, i)
      BY <2>3
    <3>2. First(O, i + 1) - 1 \in First(O, i) .. Behind(O, i) - 1
      BY <2>3, <2>4, <3>1
    <3>3. First(O, i + 1) - 1 \in O
      BY <2>3, <3>2
    <3> QED BY <1>1, <2>2, <3>3
  <2>6. ASSUME NEW d \in O, d < First(O, i + 1), ~(d < Behind(O, i)) PROVE FALSE
    <3>1. d \in Nat /\ Behind(O, i) <= d
      BY <2>3, <2>6
    <3>2. PICK c \in S : Behind(O, i) <= c /\ c <= d
      BY <1>6, <2>3, <3>1
    <3>3. c \in Nat /\ First(O, i) < c /\ c < First(O, i + 1)
      BY <1>1, <2>3, <2>6, <3>1, <3>2
    <3>4. Rank(S, First(O, i)) < Rank(S, c) /\ Rank(S, c) < Rank(S, First(O, i + 1))
      BY <1>3, <2>2, <3>3
    <3>5. Rank(S, c) \in 1 .. n
      BY <1>2
    <3> QED BY <1>2, <2>1, <2>2, <3>4, <3>5
  <2> QED BY <2>5, <2>6
<1>8. ASSUME n # 0, NEW d \in O PROVE First(O, 1) <= d
  <2>1. 1 \in 1 .. n
    BY <1>2, <1>8
  <2>2. First(O, 1) \in S /\ Rank(S, First(O, 1)) = 1 /\ First(O, 1) \in Nat
    BY <1>4, <1>5, <2>1
  <2>3. PICK c \in S : 0 <= c /\ c <= d
    <3>1. 0 \in Nat /\ 0 <= d
      OBVIOUS
    <3> QED BY <1>6, <3>1
  <2>4. ~(c < First(O, 1))
    <3> SUFFICES ASSUME c < First(O, 1) PROVE FALSE
      OBVIOUS
    <3>1. Rank(S, c) < 1 /\ Rank(S, c) \in 1 .. n
      BY <1>2, <1>3, <2>2
    <3> QED BY <1>2, <3>1
  <2> QED BY <1>1, <2>2, <2>3, <2>4
<1>9. ASSUME n # 0, NEW d \in O PROVE d < Behind(O, n)
  <2>1. n \in 1 .. n
    BY <1>2, <1>9
  <2>2. /\ First(O, n) \in S /\ Rank(S, First(O, n)) = n
        /\ Behind(O, n) \in Nat /\ Behind(O, n) \notin O
        /\ First(O, n) < Behind(O, n) /\ First(O, n) \in Nat
    BY <1>4, <1>5, <2>1 DEF Behind
  <2> SUFFICES ASSUME Behind(O, n) <= d PROVE FALSE
    BY <2>2
  <2>3. PICK c \in S : Behind(O, n) <= c /\ c <= d
    BY <1>6, <2>2
  <2>4. First(O, n) < c
    BY <1>1, <2>2, <2>3
  <2>5. n < Rank(S, c) /\ Rank(S, c) \in 1 .. n
    BY <1>2, <1>3, <2>2, <2>4
  <2> QED BY <1>2, <2>5
<1>10. ASSUME n = 0 PROVE O = {}
  <2> SUFFICES ASSUME NEW d \in O PROVE FALSE
    OBVIOUS
  <2>1. PICK c \in S : 0 <= c /\ c <= d
    <3>1. 0 \in Nat /\ 0 <= d
      OBVIOUS
    <3> QED BY <1>6, <3>1
  <2>2. Rank(S, c) \in 1 .. n
    BY <1>2
  <2> QED BY <1>10, <2>2
<1>11. n = Cardinality(Starts(O)) /\ S = Starts(O)
  BY DEF n, S
<1>12. \A i \in 1 .. n : First(O, i) \in Starts(O)
  BY <1>4, <1>11
<1> QED BY <1>2, <1>5, <1>7, <1>8, <1>9, <1>10, <1>11, <1>12

------------------------------------------------------------------------------
(* Sequences of clusters that rise, and sequences without repetition.       *)

Rising(s) == \A i, j \in DOMAIN s : i < j => s[i] < s[j]

LEMMA RisingAppended ==
    ASSUME NEW a \in Seq(Nat), NEW b \in Seq(Nat), Rising(a), Rising(b),
           \A x \in Covers(a), y \in Covers(b) : x < y
    PROVE  Rising(a \o b)
<1> DEFINE w == a \o b
<1>1. /\ Len(a) \in Nat /\ Len(b) \in Nat /\ DOMAIN w = 1 .. Len(a) + Len(b)
      /\ DOMAIN a = 1 .. Len(a) /\ DOMAIN b = 1 .. Len(b)
      /\ \A i \in 1 .. Len(a) : w[i] = a[i]
      /\ \A i \in Len(a) + 1 .. Len(a) + Len(b) : w[i] = b[i - Len(a)]
  OBVIOUS
<1> HIDE DEF w
<1> SUFFICES ASSUME NEW i \in DOMAIN w, NEW j \in DOMAIN w, i < j PROVE w[i] < w[j]
  BY DEF Rising, w
<1>2. CASE j <= Len(a)
  <2>1. i \in 1 .. Len(a) /\ j \in 1 .. Len(a)
    BY <1>1, <1>2
  <2> QED BY <1>1, <2>1 DEF Rising
<1>3. CASE i <= Len(a) /\ Len(a) < j
  <2>1. i \in 1 .. Len(a) /\ j \in Len(a) + 1 .. Len(a) + Len(b) /\ j - Len(a) \in 1 .. Len(b)
    BY <1>1, <1>3
  <2>2. a[i] \in Covers(a) /\ b[j - Len(a)] \in Covers(b)
    BY <1>1, <2>1 DEF Covers
  <2> QED BY <1>1, <2>1, <2>2
<1>4. CASE Len(a) < i
  <2>1. /\ i \in Len(a) + 1 .. Len(a) + Len(b) /\ j \in Len(a) + 1 .. Len(a) + Len(b)
        /\ i - Len(a) \in 1 .. Len(b) /\ j - Len(a) \in 1 .. Len(b) /\ i - Len(a) < j - Len(a)
    BY <1>1, <1>4
  <2>2. b[i - Len(a)] < b[j - Len(a)]
    BY <1>1, <2>1 DEF Rising
  <2> QED BY <1>1, <2>1, <2>2
<1> QED BY <1>1, <1>2, <1>3, <1>4

\* What rises over the same clusters is the same sequence, as far as both go.
LEMMA RisingAgree ==
    ASSUME NEW a \in Seq(Nat), NEW b \in Seq(Nat), Rising(a), Rising(b), Covers(a) = Covers(b)
    PROVE  \A i \in 1 .. Len(a) : i <= Len(b) => a[i] = b[i]
<1> DEFINE Bad == {i \in 1 .. Len(a) : i <= Len(b) /\ a[i] # b[i]}
<1> SUFFICES ASSUME Bad # {} PROVE FALSE
  OBVIOUS
<1>1. /\ Len(a) \in Nat /\ Len(b) \in Nat /\ DOMAIN a = 1 .. Len(a) /\ DOMAIN b = 1 .. Len(b)
      /\ \A i \in 1 .. Len(a) : a[i] \in Nat
      /\ \A i \in 1 .. Len(b) : b[i] \in Nat
  OBVIOUS
<1>r. /\ \A i, j \in 1 .. Len(a) : i < j => a[i] < a[j]
      /\ \A i, j \in 1 .. Len(b) : i < j => b[i] < b[j]
  BY <1>1 DEF Rising
<1>2. PICK m \in Bad : \A i \in Bad : m <= i
  <2>1. Bad \in SUBSET Nat
    BY <1>1
  <2> HIDE DEF Bad
  <2> QED BY <2>1, LeastNumber
<1>3. m \in 1 .. Len(a) /\ m \in 1 .. Len(b) /\ a[m] # b[m] /\ a[m] \in Nat /\ b[m] \in Nat
  BY <1>1, <1>2
<1>4. ASSUME NEW i \in 1 .. Len(a), i < m PROVE a[i] = b[i]
  <2>1. i \notin Bad /\ i <= Len(b)
    BY <1>1, <1>2, <1>3, <1>4
  <2> QED BY <2>1
<1>5. CASE a[m] < b[m]
  <2>1. a[m] \in Covers(b)
    BY <1>1, <1>3 DEF Covers
  <2>2. PICK j \in 1 .. Len(b) : b[j] = a[m]
    BY <1>1, <2>1 DEF Covers
  <2>3. j < m
    <3> SUFFICES ASSUME m <= j PROVE FALSE
      BY <1>1, <1>3, <2>2
    <3>1. m = j \/ b[m] < b[j]
      <4>1. m \in Int /\ j \in Int
        BY <1>1, <1>3, <2>2
      <4>2. m = j \/ m < j
        BY <4>1
      <4> QED BY <1>3, <1>r, <2>2, <4>2
    <3> QED BY <1>1, <1>3, <1>5, <2>2, <3>1
  <2>4. j \in 1 .. Len(a) /\ a[j] = b[j]
    BY <1>1, <1>3, <1>4, <2>2, <2>3
  <2>5. a[j] < a[m]
    BY <1>1, <1>3, <2>3, <2>4 DEF Rising
  <2> QED BY <1>3, <2>2, <2>4, <2>5
<1>6. CASE b[m] < a[m]
  <2>1. b[m] \in Covers(a)
    BY <1>1, <1>3 DEF Covers
  <2>2. PICK j \in 1 .. Len(a) : a[j] = b[m]
    BY <1>1, <2>1 DEF Covers
  <2>3. j < m
    <3> SUFFICES ASSUME m <= j PROVE FALSE
      BY <1>1, <1>3, <2>2
    <3>1. m = j \/ a[m] < a[j]
      <4>1. m \in Int /\ j \in Int
        BY <1>1, <1>3, <2>2
      <4>2. m = j \/ m < j
        BY <4>1
      <4> QED BY <1>3, <1>r, <2>2, <4>2
    <3> QED BY <1>1, <1>3, <1>6, <2>2, <3>1
  <2>4. j \in 1 .. Len(b) /\ a[j] = b[j]
    BY <1>1, <1>3, <1>4, <2>2, <2>3
  <2>5. b[j] < b[m]
    BY <1>1, <1>3, <2>3, <2>4 DEF Rising
  <2> QED BY <1>3, <2>2, <2>4, <2>5
<1> QED BY <1>3, <1>5, <1>6

\* A sequence without repetition is as long as its clusters are many.
LEMMA AsManyAsLong ==
    ASSUME NEW a \in Seq(Nat), IsInjective(a)
    PROVE  IsFiniteSet(Covers(a)) /\ Cardinality(Covers(a)) = Len(a)
<1>1. Len(a) \in Nat /\ DOMAIN a = 1 .. Len(a) /\ a = [i \in 1 .. Len(a) |-> a[i]]
  OBVIOUS
<1>2. IsFiniteSet(1 .. Len(a)) /\ Cardinality(1 .. Len(a)) = Len(a)
  <2>1. /\ IsFiniteSet(1 .. Len(a))
        /\ Cardinality(1 .. Len(a)) = IF 1 > Len(a) THEN 0 ELSE Len(a) - 1 + 1
    <3>1. 1 \in Int /\ Len(a) \in Int
      BY <1>1
    <3> QED BY <3>1, FS_Interval
  <2> QED BY <1>1, <2>1
<1>3. a \in [1 .. Len(a) -> Covers(a)] /\ \A y \in Covers(a) : \E i \in 1 .. Len(a) : a[i] = y
  BY <1>1 DEF Covers
<1>4. a \in Bijection(1 .. Len(a), Covers(a))
  BY <1>1, <1>3 DEF Bijection, Injection, Surjection, IsInjective
<1>5. ExistsBijection(1 .. Len(a), Covers(a))
  BY <1>4 DEF ExistsBijection
<1> QED BY <1>2, <1>5, FS_Bijection

LEMMA RisingIsInjective ==
    ASSUME NEW a \in Seq(Nat), Rising(a)
    PROVE  IsInjective(a)
<1>1. DOMAIN a = 1 .. Len(a) /\ Len(a) \in Nat /\ \A i \in 1 .. Len(a) : a[i] \in Nat
  OBVIOUS
<1> SUFFICES ASSUME NEW i \in 1 .. Len(a), NEW j \in 1 .. Len(a), a[i] = a[j], i # j PROVE FALSE
  BY <1>1 DEF IsInjective
<1>2. i < j \/ j < i
  OBVIOUS
<1> QED BY <1>1, <1>2 DEF Rising

LEMMA RisingSame ==
    ASSUME NEW a \in Seq(Nat), NEW b \in Seq(Nat), Rising(a), Rising(b), Covers(a) = Covers(b)
    PROVE  a = b
<1>1. Len(a) = Len(b)
  BY RisingIsInjective, AsManyAsLong
<1>2. \A i \in 1 .. Len(a) : a[i] = b[i]
  BY <1>1, RisingAgree
<1> QED BY <1>1, <1>2, SeqEqual

\* An entry of whole clusters covers these, in order.
LEMMA WholeStretch ==
    ASSUME NEW c \in Nat, NEW n \in Nat \ {0}, NEW e, NEW z, z = c + n,
           e = [cluster |-> c, blocks |-> BlocksPerCluster * n]
    PROVE  /\ e \in Entry /\ ClustersOf(e) = n /\ e.cluster = c
           /\ Covers(Stretch(e)) = c .. z - 1 /\ Rising(Stretch(e))
<1>1. BlocksPerCluster \in Nat \ {0} /\ BlocksPerCluster * n \in Nat
  BY RecoveryAssumption, ProductIsNat
<1>2. e.cluster = c /\ e.blocks = BlocksPerCluster * n /\ e \in Entry
  BY <1>1 DEF Entry
<1>3. ClustersOf(e) = n
  <2>1. BlocksPerCluster - 1 \in 0 .. BlocksPerCluster - 1
    BY <1>1
  <2>2. (n * BlocksPerCluster + (BlocksPerCluster - 1)) \div BlocksPerCluster = n
    BY <1>1, <2>1, QuotientIs
  <2>3. e.blocks + BlocksPerCluster - 1 = n * BlocksPerCluster + (BlocksPerCluster - 1)
    BY <1>1, <1>2, SMT
  <2> QED BY <2>2, <2>3 DEF ClustersOf
<1>4. Stretch(e) = [k \in 1 .. n |-> c + k - 1]
  BY <1>2, <1>3 DEF Stretch
<1>5. Rising(Stretch(e))
  BY <1>4 DEF Rising
<1>6. Covers(Stretch(e)) = c .. c + n - 1
  <2>1. ASSUME NEW x \in c .. c + n - 1 PROVE x \in Covers(Stretch(e))
    <3>1. x - c + 1 \in 1 .. n /\ c + (x - c + 1) - 1 = x
      OBVIOUS
    <3> QED BY <1>4, <3>1 DEF Covers
  <2>2. ASSUME NEW x \in Covers(Stretch(e)) PROVE x \in c .. c + n - 1
    <3>1. PICK k \in 1 .. n : x = c + k - 1
      BY <1>4 DEF Covers
    <3> QED BY <3>1
  <2> QED BY <2>1, <2>2
<1>7. c + n - 1 = z - 1
  OBVIOUS
<1> QED BY <1>2, <1>3, <1>5, <1>6, <1>7

\* The entries appended for lost clusters: all of these and no others, in
\* rising order, and whole clusters of blocks.
LEMMA RunEntriesCover ==
    ASSUME NEW O \in SUBSET Nat, IsFiniteSet(O)
    PROVE  /\ RunEntries(O) \in Tables
           /\ Rising(InOrder(RunEntries(O)))
           /\ CoverOf(RunEntries(O)) = O
           /\ BlocksInTable(RunEntries(O)) = BlocksPerCluster * Len(InOrder(RunEntries(O)))
<1> DEFINE t == RunEntries(O)
           n == Cardinality(Starts(O))
           Part(i) == {d \in O : i # 0 /\ d < Behind(O, i)}
           Good(i) == /\ Rising(Listed(t)[i]) /\ Covers(Listed(t)[i]) = Part(i)
                      /\ Counted(t)[i] = BlocksPerCluster * Len(Listed(t)[i])
           Bad == {i \in 0 .. n : ~Good(i)}
<1>1. t = [i \in 1 .. n |-> [cluster |-> First(O, i),
                            blocks |-> BlocksPerCluster * RunLength(O, First(O, i))]]
  BY DEF RunEntries, First, Starts
<1>2. n \in Nat
  BY RunsAre
<1> HIDE DEF t, n
<1>3. ASSUME NEW i \in 1 .. n
      PROVE  /\ t[i] \in Entry /\ ClustersOf(t[i]) = RunLength(O, First(O, i))
             /\ Rising(Stretch(t[i]))
             /\ Covers(Stretch(t[i])) = First(O, i) .. Behind(O, i) - 1
             /\ t[i].blocks = BlocksPerCluster * RunLength(O, First(O, i))
  <2>1. First(O, i) \in Nat /\ RunLength(O, First(O, i)) \in Nat \ {0}
    BY RunsAre DEF n
  <2>2. t[i] = [cluster |-> First(O, i), blocks |-> BlocksPerCluster * RunLength(O, First(O, i))]
    BY <1>1
  <2>3. Behind(O, i) = First(O, i) + RunLength(O, First(O, i))
    BY DEF Behind
  <2>4. /\ t[i] \in Entry /\ ClustersOf(t[i]) = RunLength(O, First(O, i))
        /\ Rising(Stretch(t[i]))
        /\ Covers(Stretch(t[i])) = First(O, i) .. Behind(O, i) - 1
    BY <2>1, <2>2, <2>3, WholeStretch
  <2>5. t[i].blocks = BlocksPerCluster * RunLength(O, First(O, i))
    BY <2>2
  <2> QED BY <2>4, <2>5
<1>4. t \in Tables /\ Len(t) = n
  BY <1>1, <1>2, <1>3 DEF Tables
<1>5. Good(0)
  <2>1. Listed(t)[0] = <<>> /\ Counted(t)[0] = 0
    BY <1>2, <1>4, Unfold
  <2>2. Rising(<<>>) /\ Covers(<<>>) = {} /\ Len(<<>>) = 0
    BY DEF Rising, Covers
  <2>3. BlocksPerCluster * 0 = 0
    BY RecoveryAssumption
  <2>4. Part(0) = {}
    OBVIOUS
  <2> QED BY <2>1, <2>2, <2>3, <2>4
<1>6. ASSUME NEW m \in 1 .. n, Good(m - 1) PROVE Good(m)
  <2>1. m - 1 \in 0 .. n /\ m \in 1 .. Len(t) /\ m - 1 \in 0 .. Len(t) /\ Len(t) \in Nat
    BY <1>2, <1>4
  <2> DEFINE a == Listed(t)[m - 1]
             b == Stretch(t[m])
  <2>2. Listed(t)[m] = a \o b /\ Counted(t)[m] = Counted(t)[m - 1] + t[m].blocks
    BY <2>1, Unfold
  <2>3. a \in Seq(Nat) /\ b \in Seq(Nat) /\ Len(b) = RunLength(O, First(O, m))
    BY <1>3, <1>4, <2>1, ListedType, StretchIs
  <2>4. /\ Rising(a) /\ Covers(a) = Part(m - 1)
        /\ Counted(t)[m - 1] = BlocksPerCluster * Len(a)
    BY <1>6
  <2>5. Rising(b) /\ Covers(b) = First(O, m) .. Behind(O, m) - 1
    BY <1>3
  <2>6. /\ First(O, m) \in O /\ First(O, m) \in Nat
        /\ RunLength(O, First(O, m)) \in Nat \ {0}
        /\ First(O, m) .. Behind(O, m) - 1 \subseteq O
        /\ Behind(O, m) \in Nat /\ Behind(O, m) \notin O
    BY RunsAre DEF n
  <2>7. First(O, m) < Behind(O, m)
    BY <2>6 DEF Behind
  <2>8. ASSUME NEW d \in Part(m - 1) PROVE d < First(O, m) /\ d \in O /\ d < Behind(O, m)
    <3>1. m # 1 /\ d \in O /\ d < Behind(O, m - 1)
      OBVIOUS
    <3>2. m - 1 \in 1 .. n - 1 /\ m - 1 \in 1 .. n /\ (m - 1) + 1 = m
      BY <1>2, <3>1
    <3>3. Behind(O, m - 1) < First(O, m) /\ Behind(O, m - 1) \in Nat
      BY <3>2, RunsAre DEF n
    <3> QED BY <2>6, <2>7, <3>1, <3>3
  <2>9. ASSUME NEW d \in O, d < First(O, m) PROVE d \in Part(m - 1)
    <3>1. m # 1
      <4> SUFFICES ASSUME m = 1 PROVE FALSE
        OBVIOUS
      <4>1. First(O, 1) <= d
        BY <1>2, RunsAre DEF n
      <4> QED BY <2>6, <2>9, <4>1
    <3>2. m - 1 \in 1 .. n - 1 /\ (m - 1) + 1 = m /\ m - 1 # 0
      BY <1>2, <3>1
    <3>3. d < Behind(O, m - 1)
      BY <2>9, <3>2, RunsAre DEF n
    <3> QED BY <3>2, <3>3
  <2>10. Part(m - 1) \cup (First(O, m) .. Behind(O, m) - 1) = Part(m)
    <3>1. ASSUME NEW d \in Part(m) PROVE d \in Part(m - 1) \/ d \in First(O, m) .. Behind(O, m) - 1
      <4>1. d \in O /\ d < Behind(O, m) /\ d \in Nat
        OBVIOUS
      <4>2. CASE d < First(O, m)
        BY <2>9, <4>1, <4>2
      <4>3. CASE ~(d < First(O, m))
        BY <2>6, <4>1, <4>3
      <4> QED BY <4>2, <4>3
    <3>2. ASSUME NEW d \in Part(m - 1) PROVE d \in Part(m)
      BY <2>8
    <3>3. ASSUME NEW d \in First(O, m) .. Behind(O, m) - 1 PROVE d \in Part(m)
      BY <2>6
    <3> HIDE DEF Part
    <3> QED BY <3>1, <3>2, <3>3
  <2> HIDE DEF a, b, Part
  <2>11. Covers(a \o b) = Part(m)
    BY <2>3, <2>4, <2>5, <2>10, CoversAppended
  <2>12. \A x \in Covers(a), y \in Covers(b) : x < y
    <3> SUFFICES ASSUME NEW x \in Covers(a), NEW y \in Covers(b) PROVE x < y
      OBVIOUS
    <3>1. x \in Part(m - 1) /\ y \in First(O, m) .. Behind(O, m) - 1
      BY <2>4, <2>5
    <3>2. x < First(O, m) /\ x \in Nat
      BY <2>8, <3>1
    <3> QED BY <2>6, <3>1, <3>2
  <2>13. Rising(a \o b)
    BY <2>3, <2>4, <2>5, <2>12, RisingAppended
  <2>14. Counted(t)[m] = BlocksPerCluster * Len(a \o b)
    <3>1. Len(a \o b) = Len(a) + RunLength(O, First(O, m)) /\ Len(a) \in Int
      BY <2>3
    <3>2. t[m].blocks = BlocksPerCluster * RunLength(O, First(O, m))
      BY <1>3
    <3>3. BlocksPerCluster * (Len(a) + RunLength(O, First(O, m)))
            = BlocksPerCluster * Len(a) + BlocksPerCluster * RunLength(O, First(O, m))
      BY <2>6, <3>1, RecoveryAssumption, SumOfProducts
    <3> QED BY <2>2, <2>4, <3>1, <3>2, <3>3
  <2> QED BY <2>2, <2>11, <2>13, <2>14
<1> HIDE DEF Good
<1>7. Good(n)
  <2> SUFFICES ASSUME ~Good(n) PROVE FALSE
    OBVIOUS
  <2>1. n \in Bad /\ Bad \in SUBSET Nat
    BY <1>2
  <2>2. PICK m \in Bad : \A i \in Bad : m <= i
    <3> HIDE DEF Bad
    <3> QED BY <2>1, LeastNumber
  <2>3. m \in 1 .. n /\ m - 1 \in 0 .. n
    BY <1>2, <1>5, <2>2
  <2>4. m - 1 \notin Bad
    BY <2>2, <2>3
  <2> QED BY <1>6, <2>2, <2>3, <2>4
<1>8. Part(n) = O
  <2>1. CASE n = 0
    BY <2>1, RunsAre DEF n
  <2>2. CASE n # 0
    <3>1. \A d \in O : d < Behind(O, n)
      BY <2>2, RunsAre DEF n
    <3> QED BY <2>2, <3>1
  <2> QED BY <2>1, <2>2
<1>9. InOrder(t) = Listed(t)[n] /\ BlocksInTable(t) = Counted(t)[n]
  BY <1>2, <1>4, Unfold
<1>10. CoverOf(t) = O
  BY <1>7, <1>8, <1>9, CoverOfIs DEF Good
<1> QED BY <1>4, <1>7, <1>9, <1>10 DEF Good, t

\* A table has no more blocks than its clusters have.
LEMMA BlocksFit ==
    ASSUME NEW t \in Tables
    PROVE  BlocksInTable(t) <= BlocksPerCluster * Len(InOrder(t))
<1> DEFINE Good(i) == Counted(t)[i] <= BlocksPerCluster * Len(Listed(t)[i])
           Bad == {i \in 0 .. Len(t) : ~Good(i)}
<1>1. Len(t) \in Nat /\ \A i \in 1 .. Len(t) : t[i] \in Entry
  BY DEF Tables
<1>2. Bad = {}
  <2> SUFFICES ASSUME Bad # {} PROVE FALSE
    OBVIOUS
  <2>1. Bad \in SUBSET Nat
    BY <1>1
  <2>2. PICK m \in Bad : \A i \in Bad : m <= i
    <3> HIDE DEF Bad
    <3> QED BY <2>1, LeastNumber
  <2>3. m # 0
    <3>1. Listed(t)[0] = <<>> /\ Counted(t)[0] = 0
      BY <1>1, Unfold
    <3>2. 0 <= BlocksPerCluster * 0 /\ Len(<<>>) = 0
      BY RecoveryAssumption
    <3> QED BY <2>2, <3>1, <3>2
  <2>4. m \in 1 .. Len(t) /\ m - 1 \in 0 .. Len(t) /\ m - 1 \notin Bad
    BY <1>1, <2>2, <2>3
  <2> DEFINE a == Listed(t)[m - 1]
             b == Stretch(t[m])
  <2>5. Listed(t)[m] = a \o b /\ Counted(t)[m] = Counted(t)[m - 1] + t[m].blocks
    BY <1>1, <2>4, Unfold
  <2>6. /\ a \in Seq(Nat) /\ Counted(t)[m - 1] \in Nat
        /\ b \in Seq(Nat) /\ Len(b) = ClustersOf(t[m])
        /\ t[m].blocks \in Nat /\ t[m].blocks <= BlocksPerCluster * ClustersOf(t[m])
        /\ ClustersOf(t[m]) \in Nat
    BY <1>1, <2>4, ListedType, StretchIs DEF Entry
  <2>7. Counted(t)[m - 1] <= BlocksPerCluster * Len(a)
    BY <2>4
  <2> HIDE DEF a, b, Bad
  <2>8. Len(a \o b) = Len(a) + Len(b) /\ Len(a) \in Nat /\ Len(b) \in Nat
    BY <2>6
  <2>9. PICK x \in Int : x = BlocksPerCluster * Len(a)
    BY <2>8, RecoveryAssumption, ProductIsNat
  <2>10. PICK y \in Int : y = BlocksPerCluster * Len(b)
    BY <2>8, RecoveryAssumption, ProductIsNat
  <2>11. BlocksPerCluster * (Len(a) + Len(b)) = x + y
    BY <2>8, <2>9, <2>10, RecoveryAssumption, SumOfProducts
  <2>12. Counted(t)[m] <= x + y
    BY <2>5, <2>6, <2>7, <2>9, <2>10
  <2>13. Good(m)
    BY <2>5, <2>8, <2>11, <2>12
  <2> QED BY <2>2, <2>13 DEF Bad
<1>3. Good(Len(t))
  BY <1>1, <1>2
<1> QED BY <1>1, <1>3, Unfold

\* A table falls in two parts.
LEMMA CutInTwo ==
    ASSUME NEW t \in Tables, NEW n \in Nat, n < Len(t)
    PROVE  /\ SubSeq(t, 1, n) \in Tables /\ SubSeq(t, n + 1, Len(t)) \in Tables
           /\ Len(SubSeq(t, 1, n)) = n
           /\ t = SubSeq(t, 1, n) \o SubSeq(t, n + 1, Len(t))
<1> DEFINE a == SubSeq(t, 1, n)
           b == SubSeq(t, n + 1, Len(t))
           w == a \o b
<1>1. Len(t) \in Nat /\ \A i \in 1 .. Len(t) : t[i] \in Entry
  BY DEF Tables
<1>2. a = [i \in 1 .. n |-> t[i]] /\ a \in Tables /\ Len(a) = n
  <2>1. a = [i \in 1 .. n |-> t[i]]
    BY <1>1 DEF Tables
  <2> QED BY <1>1, <2>1 DEF Tables
<1>3. b = [i \in 1 .. Len(t) - n |-> t[n + i]] /\ b \in Tables /\ Len(b) = Len(t) - n
  <2>1. b = [i \in 1 .. Len(t) - n |-> t[n + i]]
    BY <1>1 DEF Tables
  <2> HIDE DEF b
  <2> QED BY <1>1, <2>1 DEF Tables
<1> HIDE DEF a, b
<1>4. w \in Tables /\ Len(w) = Len(t)
  BY <1>1, <1>2, <1>3 DEF Tables
<1>5. ASSUME NEW i \in 1 .. Len(t) PROVE w[i] = t[i]
  <2>1. CASE i <= n
    <3>1. w[i] = a[i] /\ i \in 1 .. n
      BY <1>1, <1>2, <1>3, <2>1 DEF Tables
    <3> QED BY <1>2, <3>1
  <2>2. CASE ~(i <= n)
    <3>1. w[i] = b[i - n] /\ i - n \in 1 .. Len(t) - n /\ n + (i - n) = i
      BY <1>1, <1>2, <1>3, <2>2 DEF Tables
    <3> QED BY <1>3, <3>1
  <2> QED BY <2>1, <2>2
<1>6. w = t
  <2> HIDE DEF w
  <2> QED BY <1>4, <1>5, SeqEqual DEF Tables
<1> QED BY <1>2, <1>3, <1>6 DEF a, b

LEMMA RecordedTables == RecTables \subseteq Tables /\ <<>> \in Tables
<1>1. RecEntry \subseteq Entry
  <2>1. RecClusters \in Nat
    BY RecoveryAssumption
  <2>2. 0 .. RecClusters - 1 \subseteq Nat
    BY <2>1
  <2> QED BY <2>2 DEF RecEntry, Entry
<1>2. Seq(RecEntry) \subseteq Seq(Entry)
  BY <1>1
<1> QED BY <1>2, RecoveryAssumption DEF Tables

LEMMA NothingListed == CoverOf(<<>>) = {} /\ BlocksInTable(<<>>) = 0
<1>1. Len(<<>>) = 0
  OBVIOUS
<1>2. InOrder(<<>>) = Listed(<<>>)[0] /\ BlocksInTable(<<>>) = Counted(<<>>)[0]
      /\ Listed(<<>>)[0] = <<>> /\ Counted(<<>>)[0] = 0
  BY <1>1, Unfold
<1>3. Covers(<<>>) = {}
  BY DEF Covers
<1> QED BY <1>2, <1>3, CoverOfIs

------------------------------------------------------------------------------
(* The invariant. *)

\* The types of the state.
RecTypes ==
    /\ recDisk \in [RecSongs -> [table : Tables, blocks : Nat]]
    /\ recMade \in [RecSongs -> RecTables \cup {<<>>}]
    /\ recUsage \in SUBSET Nat /\ IsFiniteSet(recUsage)
    /\ recMem \in [song : RecSongs \cup {0}, table : Tables, blocks : Nat]
    /\ recAsking \in BOOLEAN

\* While the user is asked, the song to be saved has clusters of its own and
\* lost ones only, and claims the blocks it has.
AskedFits ==
    recAsking =>
      /\ recMem.song \in RecSongs
      /\ CoverOf(recMem.table) \subseteq CoverOf(recDisk[recMem.song].table) \cup Orphans
      /\ recMem.blocks = Capped(BlocksInTable(recMem.table))

\* A song that claims more blocks than it has is one the recorder cut short.
WasCut(s) ==
    /\ recMade[s] \in RecTables /\ Len(recMade[s]) > TableLimit
    /\ recDisk[s].table = SubSeq(recMade[s], 1, TableLimit)
    /\ recDisk[s].blocks = BlocksInTable(recMade[s])
ClaimsItsBlocks(r) ==
    r.blocks = BlocksInTable(r.table) \/ r.blocks = Capped(BlocksInTable(r.table))
DamageIsCut == \A s \in RecSongs : ClaimsItsBlocks(recDisk[s]) \/ WasCut(s)

RecInv == RecTypes /\ NoClusterShared /\ AskedFits /\ DamageIsCut

LEMMA CappedType ==
    ASSUME NEW n \in Nat, NEW m \in Nat, n <= m
    PROVE  Capped(n) \in Nat /\ Capped(n) <= Capped(m) /\ Capped(Capped(n)) = Capped(n)
<1>1. MaxBlocks \in Nat
  BY RecoveryAssumption
<1>2. Capped(n) \in Nat /\ Capped(n) <= Capped(m) /\ Capped(n) <= MaxBlocks
  BY <1>1 DEF Capped
<1>3. \A k \in Nat : k <= MaxBlocks => Capped(k) = k
  BY <1>1 DEF Capped
<1> QED BY <1>2, <1>3

LEMMA SongsAreNumbers == 0 \notin RecSongs
<1>1. Cardinality(RecSongs) \in Nat
  BY RecoveryAssumption, FS_CardinalityType
<1> QED BY <1>1, RecoveryAssumption

LEMMA RecInvInit == RecoveryInit => RecInv
<1> SUFFICES ASSUME RecoveryInit PROVE RecInv
  OBVIOUS
<1>1. IsFiniteSet({})
  BY FS_EmptySet
<1>2. RecTypes
  BY <1>1, RecordedTables DEF RecoveryInit, RecTypes, NoRecord, NotSelected
<1>3. NoClusterShared
  BY NothingListed DEF RecoveryInit, NoClusterShared, NoRecord
<1>4. DamageIsCut
  BY NothingListed DEF RecoveryInit, DamageIsCut, NoRecord, ClaimsItsBlocks
<1>5. AskedFits
  BY DEF RecoveryInit, AskedFits
<1> QED BY <1>2, <1>3, <1>4, <1>5 DEF RecInv

\* The lost clusters are in use and in no song.
LEMMA OrphansAre ==
    ASSUME RecTypes
    PROVE  /\ Orphans \subseteq recUsage /\ Orphans \in SUBSET Nat /\ IsFiniteSet(Orphans)
           /\ \A s \in RecSongs : Orphans \cap CoverOf(recDisk[s].table) = {}
<1>1. Orphans \subseteq recUsage
  BY DEF Orphans
<1>2. IsFiniteSet(Orphans)
  BY <1>1, FS_Subset DEF RecTypes
<1>3. \A s \in RecSongs : Orphans \cap CoverOf(recDisk[s].table) = {}
  BY DEF Orphans
<1> QED BY <1>1, <1>2, <1>3 DEF RecTypes

\* A recording takes clusters that are free.
LEMMA RecordKeeps ==
    ASSUME RecInv, NEW s \in RecSongs, NEW t \in RecTables, NEW cut \in BOOLEAN,
           RecordSong(s, t, cut)
    PROVE  RecInv'
<1> DEFINE new == IF cut THEN SubSeq(t, 1, TableLimit) ELSE t
<1>1. t \in Tables /\ TableLimit \in Nat
  BY RecordedTables, RecoveryAssumption
<1>2. new \in Tables /\ CoverOf(new) \subseteq CoverOf(t)
  <2>1. CASE cut
    <3>1. TableLimit < Len(t) /\ new = SubSeq(t, 1, TableLimit)
      BY <1>1, <2>1 DEF RecordSong, Tables
    <3> DEFINE rest == SubSeq(t, TableLimit + 1, Len(t))
    <3>2. new \in Tables /\ rest \in Tables /\ t = new \o rest
      BY <1>1, <3>1, CutInTwo
    <3> HIDE DEF new, rest
    <3>3. InOrder(t) = InOrder(new) \o InOrder(rest)
      BY <3>2, Appended
    <3>4. CoverOf(t) = CoverOf(new) \cup CoverOf(rest)
      BY <3>2, <3>3, ListedType, CoversAppended, CoverOfIs
    <3> QED BY <3>2, <3>4
  <2>2. CASE ~cut
    BY <1>1, <2>2
  <2> QED BY <2>1, <2>2
<1>3. /\ recDisk' = [recDisk EXCEPT ![s] = [table |-> new, blocks |-> BlocksInTable(t)]]
      /\ recUsage' = recUsage \cup CoverOf(t) /\ CoverOf(t) \cap recUsage = {}
      /\ recMade' = [recMade EXCEPT ![s] = t] /\ recMem' = NotSelected
      /\ ~recAsking' /\ recAsking' = recAsking
      /\ cut => Len(t) > TableLimit
  BY DEF RecordSong
<1>4. BlocksInTable(t) \in Nat /\ IsFiniteSet(CoverOf(t)) /\ CoverOf(t) \in SUBSET Nat
  BY <1>1, ListedType, CoverIsFinite
<1> HIDE DEF new
<1>5. /\ recDisk'[s] = [table |-> new, blocks |-> BlocksInTable(t)]
      /\ recDisk'[s].table = new /\ recDisk'[s].blocks = BlocksInTable(t)
      /\ \A u \in RecSongs : u # s => recDisk'[u] = recDisk[u]
      /\ recDisk' \in [RecSongs -> [table : Tables, blocks : Nat]]
  BY <1>2, <1>3, <1>4 DEF RecInv, RecTypes
<1>6. /\ recMade'[s] = t /\ \A u \in RecSongs : u # s => recMade'[u] = recMade[u]
      /\ recMade' \in [RecSongs -> RecTables \cup {<<>>}]
  BY <1>3 DEF RecInv, RecTypes
<1>7. RecTypes'
  <2>1. IsFiniteSet(recUsage') /\ recUsage' \in SUBSET Nat
    BY <1>3, <1>4, FS_Union DEF RecInv, RecTypes
  <2>2. recMem' \in [song : RecSongs \cup {0}, table : Tables, blocks : Nat]
    BY <1>3, RecordedTables DEF NotSelected
  <2> QED BY <1>3, <1>5, <1>6, <2>1, <2>2 DEF RecTypes, RecInv
<1>8. NoClusterShared'
  <2>1. ASSUME NEW u \in RecSongs PROVE CoverOf(recDisk'[u].table) \subseteq recUsage'
    BY <1>2, <1>3, <1>5 DEF RecInv, NoClusterShared
  <2>2. ASSUME NEW u \in RecSongs, NEW v \in RecSongs, u # v
        PROVE  CoverOf(recDisk'[u].table) \cap CoverOf(recDisk'[v].table) = {}
    <3>1. CASE u = s
      <4>1. CoverOf(recDisk'[v].table) \subseteq recUsage
        BY <1>5, <2>2, <3>1 DEF RecInv, NoClusterShared
      <4> QED BY <1>2, <1>3, <1>5, <3>1, <4>1
    <3>2. CASE v = s
      <4>1. CoverOf(recDisk'[u].table) \subseteq recUsage
        BY <1>5, <2>2, <3>2 DEF RecInv, NoClusterShared
      <4> QED BY <1>2, <1>3, <1>5, <3>2, <4>1
    <3>3. CASE u # s /\ v # s
      BY <1>5, <2>2, <3>3 DEF RecInv, NoClusterShared
    <3> QED BY <3>1, <3>2, <3>3
  <2> QED BY <2>1, <2>2 DEF NoClusterShared
<1>9. DamageIsCut'
  <2> SUFFICES ASSUME NEW u \in RecSongs
               PROVE  ClaimsItsBlocks(recDisk'[u]) \/ WasCut(u)'
    BY DEF DamageIsCut, ClaimsItsBlocks
  <2>1. CASE u = s /\ cut
    BY <1>3, <1>5, <1>6, <2>1 DEF WasCut, new
  <2>2. CASE u = s /\ ~cut
    BY <1>5, <2>2 DEF new, ClaimsItsBlocks
  <2>3. CASE u # s
    BY <1>5, <1>6, <2>3 DEF RecInv, DamageIsCut, WasCut
  <2> QED BY <2>1, <2>2, <2>3
<1>10. AskedFits'
  BY <1>3 DEF AskedFits
<1> QED BY <1>7, <1>8, <1>9, <1>10 DEF RecInv

\* What is in memory after a song was selected.
Given(s) == recDisk[s].table \o RunEntries(Orphans)

LEMMA GivenIs ==
    ASSUME RecTypes, NEW s \in RecSongs
    PROVE  /\ Given(s) \in Tables
           /\ InOrder(Given(s)) = InOrder(recDisk[s].table) \o InOrder(RunEntries(Orphans))
           /\ CoverOf(Given(s)) = CoverOf(recDisk[s].table) \cup Orphans
           /\ BlocksInTable(Given(s)) = BlocksInTable(recDisk[s].table)
                + BlocksPerCluster * Len(InOrder(RunEntries(Orphans)))
<1> DEFINE a == recDisk[s].table
           b == RunEntries(Orphans)
<1>1. a \in Tables
  BY DEF RecTypes
<1>2. /\ b \in Tables /\ CoverOf(b) = Orphans
      /\ BlocksInTable(b) = BlocksPerCluster * Len(InOrder(b))
  BY OrphansAre, RunEntriesCover
<1> HIDE DEF a, b
<1>3. /\ a \o b \in Tables /\ InOrder(a \o b) = InOrder(a) \o InOrder(b)
      /\ BlocksInTable(a \o b) = BlocksInTable(a) + BlocksInTable(b)
  BY <1>1, <1>2, Appended
<1>4. CoverOf(a \o b) = CoverOf(a) \cup CoverOf(b)
  BY <1>1, <1>2, <1>3, ListedType, CoversAppended, CoverOfIs
<1> QED BY <1>2, <1>3, <1>4 DEF a, b, Given

LEMMA SelectKeeps ==
    ASSUME RecInv, NEW s \in RecSongs, NEW maintenance \in BOOLEAN, SelectSong(s, maintenance)
    PROVE  RecInv'
<1>1. /\ recDisk' = recDisk /\ recUsage' = recUsage /\ recMade' = recMade
      /\ \/ /\ recMem' = [song |-> s, table |-> Given(s),
                           blocks |-> Capped(BlocksInTable(Given(s)))]
            /\ recAsking' = maintenance
         \/ /\ recMem' = [song |-> s, table |-> recDisk[s].table, blocks |-> recDisk[s].blocks]
            /\ ~recAsking' /\ recAsking' = recAsking
  BY DEF SelectSong, Given
<1>2. Given(s) \in Tables /\ CoverOf(Given(s)) = CoverOf(recDisk[s].table) \cup Orphans
      /\ Capped(BlocksInTable(Given(s))) \in Nat
  BY GivenIs, ListedType, CappedType DEF RecInv
<1>3. RecTypes'
  <2>1. recDisk[s].table \in Tables /\ recDisk[s].blocks \in Nat
    BY DEF RecInv, RecTypes
  <2>2. recMem' \in [song : RecSongs \cup {0}, table : Tables, blocks : Nat]
    BY <1>1, <1>2, <2>1
  <2>3. recAsking' \in BOOLEAN
    BY <1>1, Zenon DEF RecInv, RecTypes
  <2> QED BY <1>1, <2>2, <2>3 DEF RecInv, RecTypes
<1>4. Orphans' = Orphans
  BY <1>1 DEF Orphans
<1>5. AskedFits'
  <2> SUFFICES ASSUME recAsking'
               PROVE  /\ recMem'.song \in RecSongs
                      /\ CoverOf(recMem'.table)
                           \subseteq CoverOf(recDisk'[recMem'.song].table) \cup Orphans'
                      /\ recMem'.blocks = Capped(BlocksInTable(recMem'.table))
    BY DEF AskedFits
  <2>1. recMem' = [song |-> s, table |-> Given(s), blocks |-> Capped(BlocksInTable(Given(s)))]
    BY <1>1, Zenon
  <2>2. /\ recMem'.song = s /\ recMem'.table = Given(s)
        /\ recMem'.blocks = Capped(BlocksInTable(Given(s)))
    BY <2>1
  <2> QED BY <1>1, <1>2, <1>4, <2>2
<1>6. NoClusterShared' /\ DamageIsCut'
  BY <1>1 DEF RecInv, NoClusterShared, DamageIsCut, WasCut
<1> QED BY <1>3, <1>5, <1>6 DEF RecInv

LEMMA AnswerKeeps ==
    ASSUME RecInv, NEW yes \in BOOLEAN, AnswerSave(yes)
    PROVE  RecInv'
<1> DEFINE s == recMem.song
           new == [table |-> recMem.table, blocks |-> recMem.blocks]
<1>1. /\ s \in RecSongs /\ recMem.blocks = Capped(BlocksInTable(recMem.table))
      /\ CoverOf(recMem.table) \subseteq CoverOf(recDisk[s].table) \cup Orphans
  BY DEF RecInv, AskedFits, AnswerSave
<1>2. /\ recUsage' = recUsage /\ recMem' = recMem /\ recMade' = recMade /\ ~recAsking'
      /\ recAsking' \in BOOLEAN
      /\ yes => recDisk' = [recDisk EXCEPT ![s] = new]
      /\ ~yes => recDisk' = recDisk
  BY DEF AnswerSave
<1>3. AskedFits'
  BY <1>2 DEF AskedFits
<1>4. CASE ~yes
  BY <1>2, <1>3, <1>4 DEF RecInv, RecTypes, NoClusterShared, DamageIsCut, WasCut
<1>5. CASE yes
  <2>1. recMem.table \in Tables /\ recMem.blocks \in Nat
    BY DEF RecInv, RecTypes
  <2>2. /\ recDisk'[s].table = recMem.table /\ recDisk'[s].blocks = recMem.blocks
        /\ \A u \in RecSongs : u # s => recDisk'[u] = recDisk[u]
        /\ recDisk' \in [RecSongs -> [table : Tables, blocks : Nat]]
    BY <1>1, <1>2, <1>5, <2>1 DEF RecInv, RecTypes
  <2> HIDE DEF s, new
  <2>3. RecTypes'
    BY <1>2, <2>2 DEF RecInv, RecTypes
  <2>4. \A u \in RecSongs : u # s =>
           CoverOf(recDisk'[u].table) \cap CoverOf(recDisk'[s].table) = {}
    <3> SUFFICES ASSUME NEW u \in RecSongs, u # s
                 PROVE  CoverOf(recDisk[u].table) \cap CoverOf(recMem.table) = {}
      BY <2>2
    <3>1. Orphans \cap CoverOf(recDisk[u].table) = {}
      BY OrphansAre DEF RecInv
    <3>2. CoverOf(recDisk[u].table) \cap CoverOf(recDisk[s].table) = {}
      BY <1>1 DEF RecInv, NoClusterShared
    <3> QED BY <1>1, <3>1, <3>2
  <2>5. CoverOf(recDisk'[s].table) \subseteq recUsage
    <3>1. Orphans \subseteq recUsage /\ CoverOf(recDisk[s].table) \subseteq recUsage
      BY <1>1, OrphansAre DEF RecInv, NoClusterShared
    <3> QED BY <1>1, <2>2, <3>1
  <2>6. NoClusterShared'
    <3>1. ASSUME NEW u \in RecSongs PROVE CoverOf(recDisk'[u].table) \subseteq recUsage'
      BY <1>2, <2>2, <2>5 DEF RecInv, NoClusterShared
    <3>2. ASSUME NEW u \in RecSongs, NEW v \in RecSongs, u # v
          PROVE  CoverOf(recDisk'[u].table) \cap CoverOf(recDisk'[v].table) = {}
      <4>1. CASE u = s \/ v = s
        BY <2>4, <3>2, <4>1
      <4>2. CASE u # s /\ v # s
        BY <2>2, <3>2, <4>2 DEF RecInv, NoClusterShared
      <4> QED BY <4>1, <4>2
    <3> QED BY <3>1, <3>2 DEF NoClusterShared
  <2>7. DamageIsCut'
    <3> SUFFICES ASSUME NEW u \in RecSongs
                 PROVE  ClaimsItsBlocks(recDisk'[u]) \/ WasCut(u)'
      BY DEF DamageIsCut, ClaimsItsBlocks
    <3>1. CASE u = s
      BY <1>1, <2>2, <3>1 DEF ClaimsItsBlocks
    <3>2. CASE u # s
      BY <1>2, <2>2, <3>2 DEF RecInv, DamageIsCut, WasCut
    <3> QED BY <3>1, <3>2
  <2> QED BY <1>3, <2>3, <2>6, <2>7 DEF RecInv
<1> QED BY <1>4, <1>5

LEMMA DeleteKeeps ==
    ASSUME RecInv, DeleteSelected
    PROVE  RecInv'
<1> DEFINE s == recMem.song
<1>1. /\ s \in RecSongs /\ ~recAsking' /\ recAsking' = recAsking
      /\ recUsage' = recUsage \ CoverOf(recDisk[s].table)
      /\ recDisk' = [recDisk EXCEPT ![s] = NoRecord]
      /\ recMem' = NotSelected /\ recMade' = recMade
  BY DEF DeleteSelected, RecInv, RecTypes
<1>2. /\ recDisk'[s] = NoRecord
      /\ \A u \in RecSongs : u # s => recDisk'[u] = recDisk[u]
      /\ recDisk' \in [RecSongs -> [table : Tables, blocks : Nat]]
  BY <1>1, RecordedTables DEF RecInv, RecTypes, NoRecord
<1>3. CoverOf(recDisk'[s].table) = {} /\ recDisk'[s].blocks = BlocksInTable(recDisk'[s].table)
  BY <1>2, NothingListed DEF NoRecord
<1> HIDE DEF s
<1>4. RecTypes'
  <2>1. recUsage' \in SUBSET Nat /\ IsFiniteSet(recUsage')
    BY <1>1, FS_Subset DEF RecInv, RecTypes
  <2>2. recMem' \in [song : RecSongs \cup {0}, table : Tables, blocks : Nat]
    BY <1>1, RecordedTables DEF NotSelected
  <2> QED BY <1>1, <1>2, <2>1, <2>2 DEF RecInv, RecTypes
<1>5. NoClusterShared'
  <2>1. ASSUME NEW u \in RecSongs PROVE CoverOf(recDisk'[u].table) \subseteq recUsage'
    <3>1. CASE u = s
      BY <1>3, <3>1
    <3>2. CASE u # s
      <4>1. /\ CoverOf(recDisk[u].table) \subseteq recUsage
            /\ CoverOf(recDisk[u].table) \cap CoverOf(recDisk[s].table) = {}
        BY <1>1, <3>2 DEF RecInv, NoClusterShared
      <4> QED BY <1>1, <1>2, <3>2, <4>1
    <3> QED BY <3>1, <3>2
  <2>2. ASSUME NEW u \in RecSongs, NEW v \in RecSongs, u # v
        PROVE  CoverOf(recDisk'[u].table) \cap CoverOf(recDisk'[v].table) = {}
    <3>1. CASE u = s \/ v = s
      BY <1>3, <3>1
    <3>2. CASE u # s /\ v # s
      BY <1>2, <2>2, <3>2 DEF RecInv, NoClusterShared
    <3> QED BY <3>1, <3>2
  <2> QED BY <2>1, <2>2 DEF NoClusterShared
<1>6. DamageIsCut'
  <2> SUFFICES ASSUME NEW u \in RecSongs
               PROVE  ClaimsItsBlocks(recDisk'[u]) \/ WasCut(u)'
    BY DEF DamageIsCut, ClaimsItsBlocks
  <2>1. CASE u = s
    BY <1>3, <2>1 DEF ClaimsItsBlocks
  <2>2. CASE u # s
    BY <1>1, <1>2, <2>2 DEF RecInv, DamageIsCut, WasCut
  <2> QED BY <2>1, <2>2
<1>7. AskedFits'
  BY <1>1 DEF AskedFits
<1> QED BY <1>4, <1>5, <1>6, <1>7 DEF RecInv

LEMMA RecInvStep == RecInv /\ [RecoveryNext]_recVars => RecInv'
<1> SUFFICES ASSUME RecInv, [RecoveryNext]_recVars PROVE RecInv'
  OBVIOUS
<1>1. CASE \E s \in RecSongs, t \in RecTables, cut \in BOOLEAN : RecordSong(s, t, cut)
  BY <1>1, RecordKeeps
<1>2. CASE \E s \in RecSongs, maintenance \in BOOLEAN : SelectSong(s, maintenance)
  BY <1>2, SelectKeeps
<1>3. CASE \E yes \in BOOLEAN : AnswerSave(yes)
  BY <1>3, AnswerKeeps
<1>4. CASE DeleteSelected
  BY <1>4, DeleteKeeps
<1>5. CASE UNCHANGED recVars
  <2>1. recDisk' = recDisk /\ recUsage' = recUsage /\ recMem' = recMem
        /\ recAsking' = recAsking /\ recMade' = recMade
    BY <1>5 DEF recVars
  <2>2. RecTypes' /\ NoClusterShared' /\ DamageIsCut'
    BY <2>1 DEF RecInv, RecTypes, NoClusterShared, DamageIsCut, WasCut
  <2>3. AskedFits'
    BY <2>1 DEF RecInv, AskedFits, Orphans
  <2> QED BY <2>2, <2>3 DEF RecInv
<1> QED BY <1>1, <1>2, <1>3, <1>4, <1>5 DEF RecoveryNext

LEMMA RecInvariant == RecoverySpec => []RecInv
BY RecInvInit, RecInvStep, PTL DEF RecoverySpec

\* However many songs are damaged, in whatever order they are recovered, saved
\* and deleted, on a drive of any size: no cluster comes to belong to two
\* songs, and none that belongs to a song is free (appendorphanclusters gives
\* away only what findorphanclusters found in no song).
THEOREM LostClustersGoToOne == RecoverySpec => []NoClusterShared
<1>1. RecInv => NoClusterShared
  BY DEF RecInv
<1> QED BY <1>1, RecInvariant, PTL

------------------------------------------------------------------------------
(* What a damaged song is given back. *)

\* The entries of a table that is cut, and those behind the cut.
Kept(t) == SubSeq(t, 1, TableLimit)
CutOff(t) == SubSeq(t, TableLimit + 1, Len(t))

\* No cluster is in both, as a recording takes each cluster once.
LEMMA CutTable ==
    ASSUME NEW t \in RecTables, Len(t) > TableLimit
    PROVE  /\ Kept(t) \in Tables /\ CutOff(t) \in Tables /\ Len(Kept(t)) = TableLimit
           /\ InOrder(t) = InOrder(Kept(t)) \o InOrder(CutOff(t))
           /\ BlocksInTable(t) = BlocksInTable(Kept(t)) + BlocksInTable(CutOff(t))
           /\ IsInjective(InOrder(Kept(t))) /\ IsInjective(InOrder(CutOff(t)))
           /\ CoverOf(t) = CoverOf(Kept(t)) \cup CoverOf(CutOff(t))
           /\ CoverOf(Kept(t)) \cap CoverOf(CutOff(t)) = {}
<1> DEFINE a == Kept(t)
           b == CutOff(t)
           x == InOrder(a)
           y == InOrder(b)
           w == x \o y
<1>1. t \in Tables /\ TableLimit \in Nat
  BY RecordedTables, RecoveryAssumption
<1>2. a \in Tables /\ b \in Tables /\ Len(a) = TableLimit /\ t = a \o b
  <2>1. TableLimit < Len(t)
    BY <1>1 DEF Tables
  <2> QED BY <1>1, <2>1, CutInTwo DEF Kept, CutOff
<1> HIDE DEF a, b
<1>3. InOrder(t) = w /\ BlocksInTable(t) = BlocksInTable(a) + BlocksInTable(b)
  BY <1>2, Appended
<1>4. x \in Seq(Nat) /\ y \in Seq(Nat)
  BY <1>2, ListedType
<1>5. IsInjective(w)
  BY <1>3, RecordingAssumption
<1>6. CoverOf(a) = Covers(x) /\ CoverOf(b) = Covers(y) /\ CoverOf(t) = Covers(w)
  BY <1>3, CoverOfIs
<1> HIDE DEF x, y
<1>7. /\ Len(x) \in Nat /\ Len(y) \in Nat /\ DOMAIN x = 1 .. Len(x) /\ DOMAIN y = 1 .. Len(y)
      /\ DOMAIN w = 1 .. Len(x) + Len(y)
      /\ \A i \in 1 .. Len(x) : w[i] = x[i]
      /\ \A i \in Len(x) + 1 .. Len(x) + Len(y) : w[i] = y[i - Len(x)]
  BY <1>4
<1> HIDE DEF w
<1>8. ASSUME NEW i \in 1 .. Len(y)
      PROVE  Len(x) + i \in 1 .. Len(x) + Len(y) /\ w[Len(x) + i] = y[i]
  <2>1. Len(x) + i \in Len(x) + 1 .. Len(x) + Len(y) /\ (Len(x) + i) - Len(x) = i
    BY <1>7
  <2>2. w[Len(x) + i] = y[(Len(x) + i) - Len(x)]
    BY <1>7, <2>1
  <2> QED BY <1>7, <2>1, <2>2
<1>9. ASSUME NEW i \in 1 .. Len(x) PROVE i \in 1 .. Len(x) + Len(y) /\ w[i] = x[i]
  BY <1>7
<1>10. IsInjective(x)
  BY <1>5, <1>7, <1>9 DEF IsInjective
<1>11. IsInjective(y)
  <2> SUFFICES ASSUME NEW i \in 1 .. Len(y), NEW j \in 1 .. Len(y), y[i] = y[j] PROVE i = j
    BY <1>7 DEF IsInjective
  <2>1. w[Len(x) + i] = w[Len(x) + j] /\ Len(x) + i \in DOMAIN w /\ Len(x) + j \in DOMAIN w
    BY <1>7, <1>8
  <2>2. Len(x) + i = Len(x) + j
    BY <1>5, <2>1 DEF IsInjective
  <2> QED BY <1>7, <2>2
<1>12. Covers(x) \cap Covers(y) = {}
  <2> SUFFICES ASSUME NEW i \in 1 .. Len(x), NEW j \in 1 .. Len(y), x[i] = y[j] PROVE FALSE
    BY <1>7 DEF Covers
  <2>1. w[i] = w[Len(x) + j] /\ i \in DOMAIN w /\ Len(x) + j \in DOMAIN w
    BY <1>7, <1>8, <1>9
  <2>2. i = Len(x) + j
    BY <1>5, <2>1 DEF IsInjective
  <2> QED BY <1>7, <2>2
<1>13. Covers(w) = Covers(x) \cup Covers(y)
  BY <1>4, CoversAppended DEF w
<1>14. InOrder(t) = InOrder(a) \o InOrder(b)
  BY <1>3 DEF w, x, y
<1> QED BY <1>2, <1>3, <1>6, <1>10, <1>11, <1>12, <1>13, <1>14 DEF a, b, x, y

\* What a damaged song is given when it has lost all the lost clusters.
LEMMA GivenAllBack ==
    ASSUME RecInv, NEW s \in RecSongs, Fixable(recDisk[s]), Orphans = LostBy(s)
    PROVE  /\ CoverOf(Given(s)) = CoverOf(recMade[s])
           /\ SubSeq(Given(s), 1, TableLimit) = recDisk[s].table
           /\ LostInOrder(s) => InOrder(Given(s)) = InOrder(recMade[s])
           /\ BlocksInTable(Given(s)) >= BlocksInTable(recMade[s])
           /\ BlocksInTable(Given(s)) \in Nat /\ BlocksInTable(recMade[s]) \in Nat
<1> DEFINE t == recMade[s]
           a == recDisk[s].table
           b == CutOff(t)
           u == RunEntries(Orphans)
           x == InOrder(a)
           y == InOrder(b)
           z == InOrder(u)
<1>1. WasCut(s)
  <2>1. BlocksInTable(a) \in Nat /\ recDisk[s].blocks \in Nat
    BY ListedType DEF RecInv, RecTypes
  <2>2. ~ClaimsItsBlocks(recDisk[s])
    BY <2>1, CappedType DEF Fixable, ClaimsItsBlocks
  <2> QED BY <2>2 DEF RecInv, DamageIsCut
<1>2. t \in RecTables /\ Len(t) > TableLimit /\ a = Kept(t)
  BY <1>1 DEF WasCut, Kept
<1>3. /\ a \in Tables /\ b \in Tables /\ Len(a) = TableLimit
      /\ InOrder(t) = x \o y
      /\ BlocksInTable(t) = BlocksInTable(a) + BlocksInTable(b)
      /\ IsInjective(x) /\ IsInjective(y)
      /\ CoverOf(t) = CoverOf(a) \cup CoverOf(b)
      /\ CoverOf(a) \cap CoverOf(b) = {}
  BY <1>2, CutTable
<1> HIDE DEF t, a, b
<1>4. Orphans = CoverOf(b)
  <2>1. LostBy(s) = CoverOf(t) \ CoverOf(a)
    BY DEF LostBy, t, a
  <2> QED BY <1>3, <2>1
<1>5. /\ Given(s) = a \o u /\ Given(s) \in Tables
      /\ InOrder(Given(s)) = x \o z
      /\ CoverOf(Given(s)) = CoverOf(a) \cup Orphans
      /\ BlocksInTable(Given(s)) = BlocksInTable(a) + BlocksPerCluster * Len(z)
  BY GivenIs DEF RecInv, Given, a
<1>6. u \in Tables /\ Rising(z) /\ CoverOf(u) = Orphans
  BY OrphansAre, RunEntriesCover DEF RecInv
<1> HIDE DEF u
<1>7. x \in Seq(Nat) /\ y \in Seq(Nat) /\ z \in Seq(Nat)
  BY <1>3, <1>6, ListedType
<1>8. Covers(y) = Orphans /\ Covers(z) = Orphans
  BY <1>4, <1>6, CoverOfIs
<1>9. BlocksInTable(b) <= BlocksPerCluster * Len(y)
  BY <1>3, BlocksFit
<1>10. /\ BlocksInTable(b) \in Nat /\ BlocksInTable(a) \in Nat
       /\ BlocksInTable(Given(s)) \in Nat /\ BlocksInTable(t) \in Nat
  BY <1>3, <1>5, ListedType
<1> HIDE DEF x, y, z
<1>11. Len(y) = Len(z)
  BY <1>3, <1>6, <1>7, <1>8, RisingIsInjective, AsManyAsLong
<1>12. CoverOf(Given(s)) = CoverOf(t)
  BY <1>3, <1>4, <1>5
<1>13. SubSeq(Given(s), 1, TableLimit) = a
  <2>1. a \in Seq(Entry) /\ u \in Seq(Entry)
    BY <1>3, <1>6 DEF Tables
  <2>2. /\ Len(a) \in Nat /\ Len(u) \in Nat /\ Len(a \o u) = Len(a) + Len(u)
        /\ \A i \in 1 .. Len(a) : (a \o u)[i] = a[i]
    BY <2>1
  <2>3. SubSeq(a \o u, 1, Len(a)) = [i \in 1 .. Len(a) |-> (a \o u)[i]]
    BY <2>1, <2>2
  <2>4. a = [i \in 1 .. Len(a) |-> a[i]]
    BY <2>1
  <2>5. SubSeq(a \o u, 1, Len(a)) = a
    BY <2>2, <2>3, <2>4
  <2> QED BY <1>3, <1>5, <2>5
<1>14. LostInOrder(s) => InOrder(Given(s)) = InOrder(t)
  <2> SUFFICES ASSUME LostInOrder(s) PROVE y = z
    BY <1>3, <1>5
  <2>1. \A i, j \in DOMAIN (x \o y) : Len(x) < i /\ i < j => (x \o y)[i] < (x \o y)[j]
    BY <1>3 DEF LostInOrder, t, a, x
  <2>2. /\ Len(x) \in Nat /\ Len(y) \in Nat /\ DOMAIN y = 1 .. Len(y)
        /\ DOMAIN (x \o y) = 1 .. Len(x) + Len(y)
        /\ \A i \in Len(x) + 1 .. Len(x) + Len(y) : (x \o y)[i] = y[i - Len(x)]
    BY <1>7
  <2>3. ASSUME NEW i \in 1 .. Len(y), NEW j \in 1 .. Len(y), i < j PROVE y[i] < y[j]
    <3>1. /\ Len(x) + i \in Len(x) + 1 .. Len(x) + Len(y) /\ (Len(x) + i) - Len(x) = i
          /\ Len(x) + j \in Len(x) + 1 .. Len(x) + Len(y) /\ (Len(x) + j) - Len(x) = j
          /\ Len(x) + i \in 1 .. Len(x) + Len(y) /\ Len(x) + j \in 1 .. Len(x) + Len(y)
          /\ Len(x) < Len(x) + i /\ Len(x) + i < Len(x) + j
      BY <2>2, <2>3
    <3>2. (x \o y)[Len(x) + i] < (x \o y)[Len(x) + j]
      BY <2>1, <2>2, <3>1
    <3>3. (x \o y)[Len(x) + i] = y[i] /\ (x \o y)[Len(x) + j] = y[j]
      BY <2>2, <3>1
    <3> QED BY <3>2, <3>3
  <2>4. Rising(y)
    BY <2>2, <2>3 DEF Rising
  <2> QED BY <1>6, <1>7, <1>8, <2>4, RisingSame
<1>15. BlocksInTable(Given(s)) >= BlocksInTable(t)
  <2>1. PICK k \in Int : k = BlocksPerCluster * Len(y)
    BY <1>7, RecoveryAssumption, ProductIsNat
  <2> QED BY <1>3, <1>5, <1>9, <1>10, <1>11, <2>1
<1> QED BY <1>10, <1>12, <1>13, <1>14, <1>15 DEF t, a

\* What RecoveryIsExact says of one song in one step.
GivenBack(s) ==
    (recMem'.song = s /\ recMem' # recMem /\ Fixable(recDisk[s]) /\ Orphans = LostBy(s)) =>
      /\ CoverOf(recMem'.table) = CoverOf(recMade[s])
      /\ SubSeq(recMem'.table, 1, TableLimit) = recDisk[s].table
      /\ LostInOrder(s) => InOrder(recMem'.table) = InOrder(recMade[s])
      /\ ~UnexpectedEnd(recMem')
      /\ recMem'.blocks >= Capped(BlocksInTable(recMade[s]))

LEMMA RecoveryStep ==
    ASSUME RecInv, RecoveryNext, NEW s \in RecSongs
    PROVE  GivenBack(s)
<1> SUFFICES ASSUME recMem'.song = s, recMem' # recMem,
                    Fixable(recDisk[s]), Orphans = LostBy(s)
             PROVE  /\ CoverOf(recMem'.table) = CoverOf(recMade[s])
                    /\ SubSeq(recMem'.table, 1, TableLimit) = recDisk[s].table
                    /\ LostInOrder(s) => InOrder(recMem'.table) = InOrder(recMade[s])
                    /\ ~UnexpectedEnd(recMem')
                    /\ recMem'.blocks >= Capped(BlocksInTable(recMade[s]))
  BY DEF GivenBack
<1>1. recMem' # NotSelected
  BY SongsAreNumbers DEF NotSelected
<1>2. PICK u \in RecSongs, maintenance \in BOOLEAN : SelectSong(u, maintenance)
  BY <1>1 DEF RecoveryNext, RecordSong, AnswerSave, DeleteSelected
<1>3. u = s
  BY <1>2 DEF SelectSong
<1>4. recMem' = [song |-> s, table |-> Given(s), blocks |-> Capped(BlocksInTable(Given(s)))]
  BY <1>2, <1>3 DEF SelectSong, Given
<1>5. recMem'.table = Given(s) /\ recMem'.blocks = Capped(BlocksInTable(Given(s)))
  BY <1>4
<1>6. /\ Capped(BlocksInTable(Given(s))) \in Nat
      /\ Capped(BlocksInTable(recMade[s])) \in Nat
      /\ Capped(BlocksInTable(recMade[s])) <= Capped(BlocksInTable(Given(s)))
  BY GivenAllBack, CappedType
<1>7. ~UnexpectedEnd(recMem')
  BY <1>5, <1>6 DEF UnexpectedEnd
<1> QED BY <1>5, <1>6, <1>7, GivenAllBack

\* For tables and drives of any size: when one damaged song is the only reason
\* for clusters that belong to no song, selecting it gives back all it lost
\* and nothing else, behind what it still had, in the order of the recording
\* if the lost part led upwards, and it can be read to the end again.
THEOREM DamagedSongIsRestored == RecoverySpec => RecoveryIsExact
<1>1. RecInv /\ [RecoveryNext]_recVars => [\A s \in RecSongs : GivenBack(s)]_recVars
  BY RecoveryStep
<1>2. RecoverySpec => [][\A s \in RecSongs : GivenBack(s)]_recVars
  BY <1>1, RecInvariant, PTL DEF RecoverySpec
<1> QED BY <1>2 DEF RecoveryIsExact, GivenBack
=============================================================================
