----------------------------- MODULE CppMapping -----------------------------
(***************************************************************************)
(* MappingFileClass of WMIParser: FindCurrentMappingFile opens the mapping *)
(* files and picks one, Parse reads the map of objects.data and the map of *)
(* index.btr out of it.  An alloc map is kept as the saves its pages come  *)
(* from; NOPAGE is an entry that the code turns into MAPPING_PAGE_UNAVAIL. *)
(***************************************************************************)
EXTENDS MappingFiles

CONSTANTS NOPAGE, NOROOT
ASSUME NoPageAssumption == NOPAGE \notin Nat
ASSUME NoRootAssumption == NOROOT \notin Nat \X {"data", "index"}

VARIABLES
  cpc,      \* "open", "scan", "data", "index", "loaded" or "failed"
  ci,       \* i of the open loop, then ii of the scan, both counted from 1
  ccount,   \* dwMappingFileCount
  cmax,     \* maxVersion
  cindex,   \* index, 0 while no file is chosen
  calloc,   \* m_aAlocatedDataPages and m_aAlocatedIndexPages
  croot     \* m_dwIndexRootPage: the save and the map it was taken from

cppVars == <<cpc, ci, ccount, cmax, cindex, calloc, croot>>

CppInit ==
  /\ cpc = "open" /\ ci = 1 /\ ccount = 3
  /\ cmax = 0 /\ cindex = 0
  /\ calloc = [data |-> <<>>, index |-> <<>>]
  /\ croot = NOROOT

(* The open loop ends at the first file that is not there.                 *)
CppOpen ==
  /\ cpc = "open"
  /\ IF ci \in Slots /\ dir[ci] # ABSENT
     THEN /\ ci' = ci + 1 /\ UNCHANGED <<cpc, ccount>>
     ELSE /\ ccount' = ci - 1 /\ ci' = 1 /\ cpc' = "scan"
  /\ UNCHANGED <<cmax, cindex, calloc, croot>>

(* ReadVersion: a header is there and more of the file than its first half.*)
CppReadable(s) == HasHeader(s) /\ VersionOf(s) # 0

(* Mutant: a file with no header ends the scan.                            *)
CppUnreadableEnds ==
  /\ cpc = "scan" /\ ci <= ccount /\ ~ CppReadable(ci)
  /\ cpc' = IF cindex = 0 THEN "failed" ELSE "data"
  /\ UNCHANGED <<ci, ccount, cmax, cindex, calloc, croot>>

CppUnreadable ==
  /\ cpc = "scan" /\ ci <= ccount /\ ~ CppReadable(ci)
  /\ ci' = ci + 1
  /\ UNCHANGED <<cpc, ccount, cmax, cindex, calloc, croot>>

CppNewer ==
  /\ cpc = "scan" /\ ci <= ccount /\ CppReadable(ci)
  /\ VersionOf(ci) > cmax
  /\ cmax' = VersionOf(ci) /\ cindex' = ci /\ ci' = ci + 1
  /\ UNCHANGED <<cpc, ccount, calloc, croot>>

(* The end of the scan: the files are used up, or one is not newer than    *)
(* those before it.                                                        *)
CppChosen ==
  /\ cpc = "scan"
  /\ ci <= ccount => CppReadable(ci) /\ VersionOf(ci) <= cmax
  /\ cpc' = IF cindex = 0 THEN "failed" ELSE "data"
  /\ UNCHANGED <<ci, ccount, cmax, cindex, calloc, croot>>

(* ParseMappingRecords on the map whose header is piece `head`: the pages  *)
(* of its n entries.  An entry of another FirstID is unavailable.          *)
(* Mutant: FirstID is not compared.                                        *)
CppOwnAny(f, head, k) == TRUE

CppOwn(f, head, k) == xp \/ f[head + k] = f[head]
CppEntries(f, head, n) ==
  [k \in 1 .. n |-> IF CppOwn(f, head, k) THEN f[head + k] ELSE NOPAGE]
CppHasEntries(f, head, n) == Len(f) > head + n
(* Mutant: one dword more is wanted after the tail.                        *)
CppCompleteMore(f, tail)  == Len(f) > tail + 1

CppComplete(f, tail)      == Len(f) > tail

CppRoot(f, head, map) ==
  IF ~ xp /\ CppOwn(f, head, 1) THEN <<f[head + 1], map>> ELSE croot

CppData ==
  /\ cpc = "data"
  /\ LET f == dir[cindex]
     IN  /\ IF CppHasEntries(f, DataHead, DataEntries)
            THEN /\ calloc' = [calloc EXCEPT !.data =
                                 CppEntries(f, DataHead, DataEntries)]
                 /\ croot' = CppRoot(f, DataHead, "data")
            ELSE UNCHANGED <<calloc, croot>>
         /\ cpc' = IF CppComplete(f, DataTail) THEN "index" ELSE "failed"
  /\ UNCHANGED <<ci, ccount, cmax, cindex>>

CppIndex ==
  /\ cpc = "index"
  /\ LET f == dir[cindex]
     IN  /\ IF CppHasEntries(f, IndexHead, IndexEntries)
            THEN /\ calloc' = [calloc EXCEPT !.index =
                                 CppEntries(f, IndexHead, IndexEntries)]
                 /\ croot' = CppRoot(f, IndexHead, "index")
            ELSE UNCHANGED <<calloc, croot>>
         /\ cpc' = IF CppComplete(f, IndexTail) THEN "loaded" ELSE "failed"
  /\ UNCHANGED <<ci, ccount, cmax, cindex>>

CppNext == CppOpen \/ CppUnreadable \/ CppNewer \/ CppChosen \/ CppData \/ CppIndex
CppDone == cpc \in {"loaded", "failed"}
=============================================================================
