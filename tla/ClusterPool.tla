----------------------------- MODULE ClusterPool -----------------------------
(***************************************************************************)
(* What the drive usage table of an HD24 drive promises to the songs on    *)
(* it: every audio cluster is free, belongs to exactly one song, or is     *)
(* lost (marked as used, but listed by no song).  A song only ever gains   *)
(* clusters nobody else has, and gives all of them back when it is         *)
(* deleted.  SongAlloc, which follows the code, implements this module.    *)
(***************************************************************************)
CONSTANTS
    Clusters,     \* the audio clusters of the drive
    Owners        \* the song sectors, each of which can hold one song

CONSTANTS
    Free, Lost    \* the two ways of not belonging to a song

VARIABLE owner            \* who has each cluster, according to the disk

TypeOK == owner \in [Clusters -> Owners \cup {Free, Lost}]

\* The clusters marked as used by writing the usage table after a failed
\* lengthening were claimed by nobody: they are lost.
Strand(own, L) == [c \in Clusters |-> IF c \in L THEN Lost ELSE own[c]]

OwnedBy(s) == {c \in Clusters : owner[c] = s}
FreeClusters == OwnedBy(Free)

Init == owner \in [Clusters -> {Free, Lost}]

\* Song s gets the free clusters S, while the free clusters L get lost.
Claim(s, S, L) ==
    /\ S \subseteq FreeClusters /\ L \subseteq FreeClusters \ S
    /\ owner' = Strand([c \in Clusters |-> IF c \in S THEN s ELSE owner[c]], L)

\* Song s gives back every cluster it has, while the free clusters L get lost.
Release(s, L) ==
    /\ L \subseteq FreeClusters
    /\ owner' = Strand([c \in Clusters |-> IF owner[c] = s THEN Free ELSE owner[c]], L)

Next ==
    \E L \in SUBSET FreeClusters : \E s \in Owners :
        \/ \E S \in SUBSET (FreeClusters \ L) : Claim(s, S, L)
        \/ Release(s, L)

Spec == Init /\ [][Next]_owner
==============================================================================
