--------------------------- MODULE MappingReaders ---------------------------
(***************************************************************************)
(* One directory, its writer, and both readers on what the writer left.    *)
(* The readers share nothing and only read, so the python reader runs      *)
(* after that of WMIParser.                                                *)
(***************************************************************************)
EXTENDS CppMapping, PyMapping

vars == <<storeVars, cppVars, pyVars>>

Init == StoreInit /\ CppInit /\ PyInit

Write == /\ BeginSave \/ WritePiece \/ EndSave \/ Crash \/ Stop
         /\ UNCHANGED <<cppVars, pyVars>>
Cpp   == writer = "stopped" /\ CppNext /\ UNCHANGED <<storeVars, pyVars>>
Py    == writer = "stopped" /\ CppDone /\ PyNext /\ UNCHANGED <<storeVars, cppVars>>
Next  == Write \/ Cpp \/ Py
Spec  == Init /\ [][Next]_vars

-----------------------------------------------------------------------------
(* What FindCurrentMappingFile is for: the file WMIParser picks has the    *)
(* newest header of the directory.  It does not always: two files of one   *)
(* version end the scan before a newer third.                              *)
CppPicksNewest == cpc \in {"data", "index", "loaded"} => Newest(cindex)

(* The file either reader picks has the newest header of the directory,    *)
(* WMIParser's unless a later file repeats the version it picked: otherwise*)
(* stopping the scan at the first version that does not grow loses         *)
(* nothing, because the files are written in turn (FindCurrentMappingFile, *)
(* _current_mapping_file).                                                 *)
RepeatsAfter(s) ==
  \E r \in Slots : r > s /\ HasHeader(r) /\ VersionOf(r) = VersionOf(s)
PicksNewest ==
  /\ cpc \in {"data", "index", "loaded"} =>
       Newest(cindex) \/ RepeatsAfter(cindex)
  /\ ppc \in {"parse", "loaded"} => Newest(pindex)

(* When the last save was completed and no file is left cut short, both    *)
(* readers load both maps, every entry of them as of that version.         *)
LastSaveLoaded ==
  CppDone /\ PyDone /\ last = Len(version) /\ last # 0
    /\ (\A s \in Slots : dir[s] # ABSENT => WrittenInFull(s)) =>
    /\ cpc = "loaded" /\ ppc = "loaded"
    /\ \A map \in {"data", "index"} :
         /\ \A k \in DOMAIN calloc[map] : calloc[map][k] # NOPAGE /\
              (version[calloc[map][k]] = version[last] \/ RepeatsAfter(cindex))
         /\ \A k \in DOMAIN pmaps[map] : version[pmaps[map][k]] = version[last]

(* Outside XP the FirstID check keeps the pages of an interrupted save     *)
(* apart: no map WMIParser loads has pages of two saves                    *)
(* (ParseMappingRecords), and the root page of the index is that of the    *)
(* index map unless its first entry was left to another save, although the *)
(* same member is set from the map of objects.data before.                 *)
MapsOfOneSave ==
  ~ xp =>
    /\ \A map \in {"data", "index"} : \A j, k \in DOMAIN calloc[map] :
         NOPAGE \in {calloc[map][j], calloc[map][k]} \/ calloc[map][j] = calloc[map][k]
    /\ cpc = "loaded" =>
         croot = <<dir[cindex][IndexHead], "index">> \/ calloc.index[1] = NOPAGE

(* WMIParser finds no mapping only when there is none, or when the newest  *)
(* header is of a save that was cut short: there is no older file it can   *)
(* fall back to.  It never fails on a newest file that is complete, but    *)
(* for a tie: a file before it has the same version, and so is the one     *)
(* taken, or is not there at all.                                          *)
FailsOnlyIfTorn ==
  cpc = "failed" => \A s \in Slots :
    Newest(s) /\ WrittenInFull(s) =>
      \E r \in Slots : r < s /\ (dir[r] = ABSENT \/ Newest(r))
=============================================================================
