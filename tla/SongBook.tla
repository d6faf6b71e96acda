------------------------------ MODULE SongBook ------------------------------
(***************************************************************************)
(* What the catalog of a drive promises: a song belongs to one project or  *)
(* to none, and one step adds a song to a project, takes one away or gives *)
(* one more space; no step moves a song to another project, touches two    *)
(* songs, or gives away space that another song of a project has.          *)
(***************************************************************************)
EXTENDS Integers

CONSTANTS
  Songs,     \* the places for song records
  Projects,  \* the places for projects
  Clusters,  \* the units of audio space
  NoProject  \* the project of an unused place

VARIABLES
  owner,  \* the project of each song
  space   \* the clusters in the allocation table of each song

vars == <<owner, space>>

TakenBy(s) == IF owner[s] = NoProject THEN {} ELSE space[s]

Init ==
  /\ owner = [s \in Songs |-> NoProject]
  /\ space \in [Songs -> SUBSET Clusters]

Add(s, p) ==
  /\ owner[s] = NoProject
  /\ \A t \in Songs \ {s} : TakenBy(t) \cap space[s] = {}
  /\ owner' = [owner EXCEPT ![s] = p]
  /\ UNCHANGED space

Remove(s) ==
  /\ owner[s] # NoProject
  /\ owner' = [owner EXCEPT ![s] = NoProject]
  /\ UNCHANGED space

Grow(s, C) ==
  /\ owner[s] # NoProject
  /\ \A t \in Songs : TakenBy(t) \cap C = {}
  /\ space' = [space EXCEPT ![s] = @ \cup C]
  /\ UNCHANGED owner

\* The record of a song that belongs to no project is of no account.
Clear(s) ==
  /\ owner[s] = NoProject
  /\ space' = [space EXCEPT ![s] = {}]
  /\ UNCHANGED owner

Next ==
  \E s \in Songs :
    \/ \E p \in Projects : Add(s, p)
    \/ Remove(s)
    \/ \E C \in SUBSET Clusters : Grow(s, C)
    \/ Clear(s)

Spec == Init /\ [][Next]_vars
=============================================================================
