----------------------------- MODULE DriveScan -----------------------------
(***************************************************************************)
(* Finding hd24 drives among the devices of the computer.  Names are tried *)
(* in order: system devices, then image files.  A first pass takes what    *)
(* has a superblock in its first sector; only if it finds nothing a second *)
(* one tries harder and looks at the end of each device.                   *)
(*                                                                         *)
(* The objects that scan remember a smart image they met: `smart` tells    *)
(* what they read through it - nothing, the device they have open ("own"), *)
(* or what was opened under the handle of a closed device ("probe"), which *)
(* is the next device they try: the lowest free descriptor is used again,  *)
(* as on Linux and Mac OS.                                                 *)
(***************************************************************************)
EXTENDS Integers, Sequences, FiniteSets

CONSTANTS
    ScanNames,     \* number of device names
    MaxReplugs     \* bound: devices replaced while the program runs

\* What a name stands for: nothing that can be opened; no hd24 drive; a drive;
\* one whose first sector is damaged; another one that ends like a drive, but
\* whose second sector and its backup differ; a smart image with a drive in it.
DeviceKinds == {"absent", "other", "adat", "backup", "stale", "smart"}

Devices == 1 .. ScanNames

ASSUME ScanAssumption == ScanNames \in Nat \ {0} /\ MaxReplugs \in Nat

VARIABLES
    scDevices,  \* what is there: name -> kind
    scDefault,  \* defaulthd24: its device, and what it reads through
    scChosen,   \* currenthd24, when it is another one
    scList,     \* the drive list: what was opened for each entry
    scReplugs   \* replaced devices so far

scanVars == <<scDevices, scDefault, scChosen, scList, scReplugs>>

NoDrive == [dev |-> 0, smart |-> "none"]

------------------------------------------------------------------------------
(* One device. *)

\* What readsectors_noheader makes of a device of a kind: through a smart
\* image on the wrong device there is nothing to recognise.
Seen(kind, smart, own) ==
    LET file == IF smart = "own" THEN own ELSE kind
    IN  IF smart = "none" THEN IF kind = "smart" THEN "image" ELSE kind
        ELSE IF file = "smart" THEN "adat" ELSE "other"

\* Mutant: on trying harder the superblock at the end is enough.
MutIsDrive(seen, hard) ==
    IF hard THEN seen \in {"adat", "backup", "stale"} ELSE seen \in {"adat", "image"}

\* findhd24device: whether it takes what it sees for a drive.  A smart image
\* is known by its first sector only.
IsDrive(seen, hard) ==
    IF hard THEN seen \in {"adat", "backup"} ELSE seen \in {"adat", "image"}

------------------------------------------------------------------------------
(* Scans. *)

\* The first n probes of both passes by an object that reads through `smart`
\* and has a device of kind `own` open: the drives found, and what the object
\* reads through after them.
Probes(devices, n, smart, own) ==
    LET after[k \in 0 .. 2 * ScanNames] ==
          IF k = 0 THEN [found |-> <<>>, smart |-> smart]
          ELSE LET hard == k > ScanNames
                   dev  == IF hard THEN k - ScanNames ELSE k
                   was  == after[k - 1]
                   seen == Seen(devices[dev], was.smart, own)
                   now  == IF seen = "image" /\ ~hard THEN "probe" ELSE "none"
               IN  IF devices[dev] = "absent" THEN was
                   ELSE [smart |-> now,
                         found |-> IF IsDrive(seen, hard)
                                   THEN Append(was.found,
                                          [dev |-> dev,
                                           smart |-> IF now = "probe" THEN "own" ELSE "none"])
                                   ELSE was.found]
    IN  after[n]

\* hd24devicecount: the second pass only when the first finds nothing.
Counting(devices, object) ==
    LET own    == IF object.dev = 0 THEN "absent" ELSE devices[object.dev]
        first  == Probes(devices, ScanNames, object.smart, own)
    IN  IF first.found # <<>> THEN first
        ELSE Probes(devices, 2 * ScanNames, object.smart, own)

\* What a new hd24fs object for the n-th drive, from 0, has open: both passes
\* are searched, the count of drives goes on from one to the other.
Opened(devices, n) ==
    LET found == Probes(devices, 2 * ScanNames, "none", "absent").found
    IN  IF n + 1 \in DOMAIN found THEN found[n + 1] ELSE NoDrive

------------------------------------------------------------------------------
ScanInit ==
    /\ scDevices = [d \in Devices |-> "absent"]
    /\ scDefault = NoDrive /\ scChosen = NoDrive
    /\ scList = <<>> /\ scReplugs = 0

\* A device appears, goes away or is replaced; not one that is open.
Replug(d, kind) ==
    /\ scReplugs < MaxReplugs /\ scDevices[d] # kind
    /\ d \notin {scDefault.dev, scChosen.dev}
    /\ scDevices' = [scDevices EXCEPT ![d] = kind]
    /\ scReplugs' = scReplugs + 1
    /\ UNCHANGED <<scDefault, scChosen, scList>>

\* Start, and Detect HD24 drives: the first drive is opened.
Detect ==
    /\ scDefault' = Opened(scDevices, 0)
    /\ scChosen' = NoDrive
    /\ UNCHANGED <<scDevices, scList, scReplugs>>

\* populate_drivelist: the default object counts, and a new object is made for
\* each number; one entry if there is none.
Populate ==
    /\ LET count == Counting(scDevices, scDefault)
           n     == IF count.found = <<>> THEN 1 ELSE Len(count.found)
       IN  /\ scList' = [i \in 1 .. n |-> Opened(scDevices, i - 1)]
           /\ scDefault' = [scDefault EXCEPT !.smart = count.smart]
    /\ UNCHANGED <<scDevices, scChosen, scReplugs>>

\* drivename_callback: the chosen entry's number is looked up again.
Choose(i) ==
    /\ scChosen' = Opened(scDevices, i - 1)
    /\ UNCHANGED <<scDevices, scDefault, scList, scReplugs>>

ScanNext ==
    \/ \E d \in Devices, kind \in DeviceKinds : Replug(d, kind)
    \/ Detect \/ Populate
    \/ \E i \in DOMAIN scList : Choose(i)

ScanSpec == ScanInit /\ [][ScanNext]_scanVars

------------------------------------------------------------------------------
(* Properties. *)

\* Right behind a smart image, with nothing that can be opened in between.
BehindSmart(d) ==
    \E e \in 1 .. d - 1 : /\ scDevices[e] = "smart"
                          /\ \A c \in e + 1 .. d - 1 : scDevices[c] = "absent"

Drives == {d \in Devices : scDevices[d] \in {"adat", "smart"}}
Damaged == {d \in Devices : scDevices[d] = "backup"}
Healthy(d) == [dev |-> d, smart |-> IF scDevices[d] = "smart" THEN "own" ELSE "none"]

\* When the default object reads through nothing, the drive list has each
\* drive once, opened for what it is, in the order of the names, and nothing
\* else; the damaged ones only if there are no others; and the default object
\* still reads its own drive.  The exceptions are devices right behind a smart
\* image, and the default object after a smart image that is the last device.
ListIsRight ==
    [][Populate /\ scDefault.smart = "none" =>
         LET wanted == IF Drives # {} THEN Drives ELSE Damaged
             list   == scList'
         IN  /\ \A d \in wanted : ~BehindSmart(d) =>
                  Cardinality({i \in DOMAIN list : list[i] = Healthy(d)}) = 1
             /\ \A i \in DOMAIN list :
                  \/ list[i].dev \in wanted
                  \/ wanted = {} /\ list = <<NoDrive>>
             /\ \A i, j \in DOMAIN list : i < j => list[i].dev < list[j].dev
             /\ (\A d \in Drives : scDevices[d] # "smart") => scDefault'.smart = "none"
      ]_scanVars
=============================================================================
