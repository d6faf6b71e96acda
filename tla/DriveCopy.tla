----------------------------- MODULE DriveCopy -----------------------------
(***************************************************************************)
(* Copies of the sectors of a drive: drive images, empty images, header    *)
(* files; and header mode, in which the program works on the file system   *)
(* in a header file and on the audio of the drive.                         *)
(*                                                                         *)
(* The content of sector s of the drive is <<s, v>>, v the number of the   *)
(* write it is from.  While an image is saved the user interface goes on   *)
(* and may write to the drive.                                             *)
(***************************************************************************)
EXTENDS Integers, FiniteSets

CONSTANTS
    LastSector,     \* of the drive
    HeaderEnd,      \* the last sector a header file is made of (0x700)
    MultiSector,    \* sectors of an empty image written at once (100)
    MaxDriveWrites, \* bound: writes by the program
    MaxErrors       \* bound: sectors of a copy that meet an error

Sectors == 0 .. LastSector

ASSUME CopyAssumption ==
    /\ LastSector \in Nat /\ HeaderEnd \in Sectors
    /\ MultiSector \in Nat \ {0} /\ MaxDriveWrites \in Nat /\ MaxErrors \in Nat

VARIABLES
    cpDrive,    \* the drive: sector -> write
    cpJob,      \* savedrivesectors: what it makes, where it is
    cpBuf,      \* its buffer
    cpFile,     \* the files: kind -> (sector -> content); the header in use is "used"
    cpHeader,   \* headersectors; 0: not in header mode
    cpWrites,   \* writes so far
    cpBad,      \* the sectors of the last copy that met an error
    cpSince,    \* history: the drive when the last copy began
    cpHeld      \* history: what the program may expect of each sector

copyVars == <<cpDrive, cpJob, cpBuf, cpFile, cpHeader, cpWrites, cpBad, cpSince, cpHeld>>

Zeros == <<-1, 0>>
NoCopy == [of |-> "none", at |-> 0, end |-> -1, result |-> 0]

\* A file is as long as its last sector; what was never written is zeros.
FileSize(file) == IF DOMAIN file = {} THEN 0
                  ELSE 1 + CHOOSE s \in DOMAIN file : \A t \in DOMAIN file : t <= s
InFile(file, s) == IF s \in DOMAIN file THEN file[s] ELSE Zeros
Written(file, new) ==
    [s \in DOMAIN file \cup DOMAIN new |-> IF s \in DOMAIN new THEN new[s] ELSE file[s]]

OnDrive(s) == <<s, cpDrive[s]>>

------------------------------------------------------------------------------
(* savedrivesectors. *)

CopyInit ==
    /\ cpDrive = [s \in Sectors |-> 0]
    /\ cpJob = NoCopy /\ cpBuf = Zeros
    /\ cpFile = [k \in {"image", "header", "new", "used"} |-> <<>>]
    /\ cpHeader = 0 /\ cpWrites = 0 /\ cpBad = {}
    /\ cpSince = cpDrive
    /\ cpHeld = [s \in Sectors |-> OnDrive(s)]

\* savedriveimage, saveheader, newdriveimage up to the loop.  The file is
\* made empty.  Assumption on the user: it is another file than the header
\* file in use.  Nothing in the code checks that, and saving on top of the
\* header in use would replace what the program has written to it.
BeginCopy(of) ==
    /\ cpJob.of = "none"
    /\ cpJob' = [of |-> of, at |-> 0, result |-> 0,
                 end |-> IF of = "header" THEN HeaderEnd ELSE LastSector]
    /\ cpFile' = [cpFile EXCEPT ![of] = <<>>]
    /\ cpBuf' = Zeros /\ cpBad' = {} /\ cpSince' = cpDrive
    /\ UNCHANGED <<cpDrive, cpHeader, cpWrites, cpHeld>>

\* Mutant: the last run may be longer than what is left.
MutRun == IF cpJob.of = "new" THEN MultiSector ELSE 1

\* How many sectors are written at once: runs of zeros for an empty image.
Run == IF cpJob.of = "new" /\ cpJob.end - cpJob.at >= MultiSector THEN MultiSector ELSE 1

\* A turn of the loop.  Sectors are read from the drive even in header mode.
\* A failed read leaves the buffer as it was.  A write that fails is an error
\* only when it returns 0, not when it returns -1.
CopyRun(read, write) ==
    /\ cpJob.of # "none" /\ cpJob.result = 0 /\ cpJob.at <= cpJob.end
    /\ cpBuf' = IF cpJob.of # "new" /\ read = "all" THEN OnDrive(cpJob.at) ELSE cpBuf
    /\ LET piece == cpJob.at .. cpJob.at + Run - 1
       IN  /\ cpFile' = IF write = "all"
                        THEN [cpFile EXCEPT ![cpJob.of] = Written(@, [s \in piece |-> cpBuf'])]
                        ELSE cpFile
           /\ cpBad' = IF read = "all" /\ write = "all" THEN cpBad ELSE cpBad \cup piece
    /\ cpJob' = [cpJob EXCEPT !.at = IF write = "none" THEN @ ELSE @ + Run,
                              !.result = IF write = "none" THEN 1 ELSE 0]
    /\ UNCHANGED <<cpDrive, cpHeader, cpWrites, cpSince, cpHeld>>

CopySector ==
    \E read \in {"all", "error"}, write \in {"all", "error", "none"} :
      /\ cpJob.of = "new" => read = "all"
      /\ Cardinality(cpBad) >= MaxErrors => read = "all" /\ write = "all"
      /\ CopyRun(read, write)

\* The file is closed; images are of no further interest.
EndCopy ==
    /\ cpJob.of # "none" /\ (cpJob.result # 0 \/ cpJob.at > cpJob.end)
    /\ cpJob' = NoCopy /\ cpBuf' = Zeros /\ cpBad' = {}
    /\ cpSince' = [s \in Sectors |-> 0]
    /\ cpFile' = [cpFile EXCEPT !["image"] = <<>>, !["new"] = <<>>]
    /\ UNCHANGED <<cpDrive, cpHeader, cpWrites, cpHeld>>

------------------------------------------------------------------------------
(* The program. *)

\* While a copy is made only a saved image lets the user interface go on.
Free == cpJob.of = "none" \/ (cpJob.of = "image" /\ cpJob.at > 0)

\* useheaderfile: the file says how many sectors are taken from it.
UseHeader ==
    /\ cpJob.of = "none" /\ cpFile["header"] # <<>>
    /\ cpHeader' = FileSize(cpFile["header"])
    /\ cpFile' = [cpFile EXCEPT !["used"] = cpFile["header"]]
    /\ cpHeld' = [s \in Sectors |-> IF s < cpHeader' THEN InFile(cpFile["header"], s)
                                    ELSE OnDrive(s)]
    /\ UNCHANGED <<cpDrive, cpJob, cpBuf, cpWrites, cpBad, cpSince>>

\* Mutant: header mode does not refuse writes to the audio.
MutWriteTo(s) == IF s < cpHeader THEN "header" ELSE "drive"

\* Where writesectors writes a request from sector s on: all of it there.
WriteTo(s) == IF cpHeader = 0 THEN "drive" ELSE IF s < cpHeader THEN "header" ELSE "nowhere"

\* Where readsectors reads it from.
ReadFrom(s) == IF s < cpHeader THEN "header" ELSE "drive"

WriteSectors(s, n) ==
    /\ Free /\ cpWrites < MaxDriveWrites /\ s + n - 1 \in Sectors
    /\ LET piece == s .. s + n - 1
           new   == cpWrites + 1
       IN  /\ cpWrites' = new
           /\ cpDrive' = IF WriteTo(s) = "drive"
                         THEN [t \in Sectors |-> IF t \in piece THEN new ELSE cpDrive[t]]
                         ELSE cpDrive
           /\ cpFile' = IF WriteTo(s) = "header"
                        THEN [cpFile EXCEPT !["used"] = Written(@, [t \in piece |-> <<t, new>>])]
                        ELSE cpFile
           /\ cpHeld' = [t \in Sectors |->
                IF t \in piece /\ (cpHeader = 0 \/ t < cpHeader) THEN <<t, new>> ELSE cpHeld[t]]
    /\ UNCHANGED <<cpJob, cpBuf, cpHeader, cpBad, cpSince>>

CopyNext ==
    \/ \E of \in {"image", "header", "new"} : BeginCopy(of)
    \/ CopySector \/ EndCopy \/ UseHeader
    \/ \E s \in Sectors, n \in 1 .. 2 : WriteSectors(s, n)

CopySpec == CopyInit /\ [][CopyNext]_copyVars

------------------------------------------------------------------------------
(* Properties. *)

\* A copy that has come to sector `at`: each sector before it that met no
\* error is the drive's sector of that number, as it was at some time since
\* the copy began, or zeros in an empty image; the file is never longer than
\* the range copied, and reported to be complete only when it was gone
\* through to the end.  (A sector that cannot be read is a copy of the one
\* before it, a sector that cannot be written is skipped, both in silence.)
CopyIsExact ==
    cpJob.of # "none" =>
      LET file == cpFile[cpJob.of]
      IN  /\ FileSize(file) <= cpJob.end + 1
          /\ cpJob.at <= cpJob.end + 1
          /\ \A s \in 0 .. cpJob.at - 1 : s \notin cpBad =>
               IF cpJob.of = "new" THEN s \in DOMAIN file /\ file[s] = Zeros
               ELSE /\ InFile(file, s)[1] = s
                    /\ InFile(file, s)[2] \in {v \in 0 .. cpDrive[s] : v >= cpSince[s]}

\* As long as no copy is saved on top of the header file in use (BeginCopy):
\* in header mode the drive does not change, and reads that stay on one side
\* of the end of the header give what was written last, or what the header
\* had when it was taken into use, or what is on the drive.
HeaderModeIsSafe ==
    /\ cpHeader # 0 => \A s \in Sectors : s >= cpHeader => OnDrive(s) = cpHeld[s]
    /\ \A s \in Sectors, n \in 1 .. 2 :
         (s + n - 1 \in Sectors /\ (s < cpHeader <=> s + n - 1 < cpHeader)) =>
           \A t \in s .. s + n - 1 :
             cpHeld[t] = IF ReadFrom(s) = "header" THEN InFile(cpFile["used"], t) ELSE OnDrive(t)
=============================================================================
