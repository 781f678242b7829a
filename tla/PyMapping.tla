----------------------------- MODULE PyMapping ------------------------------
(***************************************************************************)
(* CIM.from_path, _current_mapping_file and mappings of python-cim: the    *)
(* format is guessed from MAPPING1.MAP, the header of every mapping file   *)
(* that exists is read, and both maps are parsed out of the one chosen.    *)
(* The guess itself (a comparison of counts in the header) is taken to be  *)
(* right; that it needs MAPPING1.MAP, and 0x18 bytes of it, is kept.       *)
(***************************************************************************)
EXTENDS MappingFiles

VARIABLES
  ppc,     \* "guess", "scan", "parse", "loaded" or "raised"
  pi,      \* i of the scan, counted from 1
  pmax,    \* max_version
  pindex,  \* the file of mapping_file_path, 0 for None
  pmaps    \* the entries of the maps returned, as the saves they come from

pyVars == <<ppc, pi, pmax, pindex, pmaps>>

PyInit ==
  /\ ppc = "guess" /\ pi = 1
  /\ pmax = 0 /\ pindex = 0
  /\ pmaps = [data |-> <<>>, index |-> <<>>]

(* 0x18 bytes: the whole header, or that of XP and two entries more.       *)
GuessPieces == IF xp THEN 3 ELSE 1

PyGuess ==
  /\ ppc = "guess"
  /\ ppc' = IF dir[1] # ABSENT /\ Len(dir[1]) >= GuessPieces
            THEN "scan" ELSE "raised"
  /\ UNCHANGED <<pi, pmax, pindex, pmaps>>

PyMissing ==
  /\ ppc = "scan" /\ pi \in Slots /\ dir[pi] = ABSENT
  /\ pi' = pi + 1
  /\ UNCHANGED <<ppc, pmax, pindex, pmaps>>

(* A file too short for a header ends the scan with an exception.          *)
PyShort ==
  /\ ppc = "scan" /\ pi \in Slots /\ dir[pi] # ABSENT /\ ~ HasHeader(pi)
  /\ ppc' = "raised"
  /\ UNCHANGED <<pi, pmax, pindex, pmaps>>

(* Mutant: the last file read is taken.                                    *)
PyTakesLast(v) == v # 0

PyTakes(v) == v > pmax

PyHeader ==
  /\ ppc = "scan" /\ pi \in Slots /\ HasHeader(pi)
  /\ pi' = pi + 1
  /\ IF PyTakes(VersionOf(pi))
     THEN pmax' = VersionOf(pi) /\ pindex' = pi
     ELSE UNCHANGED <<pmax, pindex>>
  /\ UNCHANGED <<ppc, pmaps>>

PyChosen ==
  /\ ppc = "scan" /\ pi \notin Slots
  /\ ppc' = IF pindex = 0 THEN "raised" ELSE "parse"
  /\ UNCHANGED <<pi, pmax, pindex, pmaps>>

(* Both maps are parsed to the end of the second, whatever saves they are  *)
(* of: FirstID and the signatures are read and not compared.               *)
PyParse ==
  /\ ppc = "parse"
  /\ LET f == dir[pindex]
     IN  IF Len(f) >= IndexTail
         THEN /\ pmaps' = [data  |-> SubSeq(f, DataHead + 1, DataHead + DataEntries),
                           index |-> SubSeq(f, IndexHead + 1, IndexHead + IndexEntries)]
              /\ ppc' = "loaded"
         ELSE ppc' = "raised" /\ UNCHANGED pmaps
  /\ UNCHANGED <<pi, pmax, pindex>>

PyNext == PyGuess \/ PyMissing \/ PyShort \/ PyHeader \/ PyChosen \/ PyParse
PyDone == ppc \in {"loaded", "raised"}
=============================================================================
