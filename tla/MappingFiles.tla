---------------------------- MODULE MappingFiles ----------------------------
(***************************************************************************)
(* The mapping files of a repository directory, and the service that       *)
(* writes them.  The writer is not part of this repository: it is modelled *)
(* from what both readers rely on (three files, the largest version is     *)
(* current, the FirstID of an entry repeats that of its header) and from   *)
(* the files of src/python-cim/tests/repos.  Those show that the files are *)
(* written in turn with a FirstID one larger each time, that a save with   *)
(* no change since the last repeats its version, and that two files of one *)
(* version map the same pages.                                             *)
(*                                                                         *)
(* A file is the sequence of its pieces in the order they lie in it: for   *)
(* objects.data and then for index.btr a header, the entries and a tail    *)
(* (free list and end signature), and one dword after both.  Of a piece    *)
(* only the save that wrote it matters, so a piece IS the number of that   *)
(* save, its FirstID.  A save that is cut short leaves the file truncated, *)
(* or new up to some piece and old after it.                               *)
(***************************************************************************)
EXTENDS Integers, Sequences

CONSTANTS
  DataEntries,   \* entries of the map of objects.data
  IndexEntries,  \* entries of the map of index.btr
  MaxSaves,      \* bound: saves begun
  MaxCrashes,    \* bound: saves cut short
  ABSENT         \* a file that does not exist

ASSUME DataEntriesAssumption  == DataEntries \in Nat \ {0}
ASSUME IndexEntriesAssumption == IndexEntries \in Nat \ {0}
ASSUME AbsentAssumption       == ABSENT \notin Seq(Nat)

Slots      == 1 .. 3                              \* MAX_MAPPING_FILES
DataHead   == 1
DataTail   == DataHead + DataEntries + 1
IndexHead  == DataTail + 1
IndexTail  == IndexHead + IndexEntries + 1
FileLength == IndexTail + 1

VARIABLES
  xp,       \* the repository is of the XP format, with no FirstID
  dir,      \* dir[s]: the pieces of Mapping<s>.map, or ABSENT
  version,  \* version[n]: the version in the header the n-th save writes
  writer,   \* "idle", "saving", or "stopped" while the readers run
  last,     \* the last save that was completed, 0 if none was
  slot,     \* the slot of the save begun last
  at,       \* pieces that save has written
  crashes   \* saves cut short so far

storeVars == <<xp, dir, version, writer, last, slot, at, crashes>>

StoreInit ==
  /\ xp \in BOOLEAN
  /\ dir = [s \in Slots |-> ABSENT]
  /\ version = <<>>
  /\ writer = "idle"
  /\ last = 0 /\ slot = 3 /\ at = 0 /\ crashes = 0

(* The next save goes to the slot after that of the last completed one.    *)
NextSlot ==
  IF version = <<>> \/ at = FileLength THEN (slot % 3) + 1 ELSE slot

BeginSave ==
  /\ writer = "idle" /\ Len(version) < MaxSaves
  /\ writer' = "saving"
  /\ \E change \in {0, 1} :
       version' = Append(version,
                    (IF last = 0 THEN 1 ELSE version[last]) + change)
  /\ slot' = NextSlot
  /\ at' = 0
  /\ \E kept \in {dir[NextSlot], <<>>} :
       dir' = [dir EXCEPT ![NextSlot] = IF kept = ABSENT THEN <<>> ELSE kept]
  /\ UNCHANGED <<xp, last, crashes>>

WritePiece ==
  /\ writer = "saving" /\ at < FileLength
  /\ at' = at + 1
  /\ dir' = [dir EXCEPT ![slot] =
               IF at < Len(@) THEN [@ EXCEPT ![at + 1] = Len(version)]
               ELSE Append(@, Len(version))]
  /\ UNCHANGED <<xp, version, writer, last, slot, crashes>>

EndSave ==
  /\ writer = "saving" /\ at = FileLength
  /\ writer' = "idle"
  /\ last' = Len(version)
  /\ UNCHANGED <<xp, dir, version, slot, at, crashes>>

(* A save is cut short: the service resumes from the last complete file.   *)
Crash ==
  /\ writer = "saving" /\ at < FileLength /\ crashes < MaxCrashes
  /\ writer' = "idle"
  /\ crashes' = crashes + 1
  /\ UNCHANGED <<xp, dir, version, last, slot, at>>

(* The directory is handed to the readers, which only read it.             *)
Stop ==
  /\ writer = "idle"
  /\ writer' = "stopped"
  /\ UNCHANGED <<xp, dir, version, last, slot, at, crashes>>

(* What the readers' properties are about.                                 *)
HasHeader(s)     == dir[s] # ABSENT /\ Len(dir[s]) >= DataHead
VersionOf(s)     == version[dir[s][DataHead]]
WrittenInFull(s) ==
  /\ HasHeader(s) /\ Len(dir[s]) = FileLength
  /\ \A k \in 1 .. FileLength : dir[s][k] = dir[s][DataHead]
Newest(s)        ==
  HasHeader(s) /\ \A r \in Slots : HasHeader(r) => VersionOf(r) <= VersionOf(s)
=============================================================================
