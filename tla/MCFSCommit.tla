----------------------------- MODULE MCFSCommit -----------------------------
(* Drives for FSCommit: one that the recorder left, one of another system. *)
EXTENDS FSCommit

CONSTANTS c1, c2

OnBackup(s) == s > LastSector - FSSectors /\ s >= DataStart

\* A drive as the recorder leaves it.
Formatted == [s \in Sectors |-> IF s < FSSectors \/ OnBackup(s) THEN c1 ELSE Junk]

\* A drive that held something else.
Foreign ==
  [s \in Sectors |->
     IF s = 0 THEN Junk ELSE IF s < FSSectors THEN c1 ELSE IF OnBackup(s) THEN c2 ELSE Junk]

\* A header file whose superblock only has been filled in.
HeaderFile == [s \in Sectors |-> IF s = 0 THEN c1 ELSE Junk]

OnlyHeaderFile == {HeaderFile}
OnlyFormatted == {Formatted}
OnlyForeign == {Foreign}
AnyDrive == {Formatted, Foreign}
=============================================================================
