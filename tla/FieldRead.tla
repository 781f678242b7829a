----------------------------- MODULE FieldRead -----------------------------
(***************************************************************************)
(* WMIParser: the fields of an accepted record.  A parser works on the     *)
(* buffer, but it keeps no bytes of it: for each field it asks             *)
(* CreateFieldExtents (Helper.cpp) which parts of the record's extents     *)
(* hold it, and when the field is printed GetBufferFromExtents reads these *)
(* parts from the file again.  The module runs after RecordRead, for any   *)
(* field (offset, size) that a parser may ask for.                         *)
(***************************************************************************)
EXTENDS RecordRead

CONSTANTS
  FieldOffsets, FieldSizes   \* the fields asked for

ASSUME FieldAssumption == FieldOffsets \subseteq Nat /\ FieldSizes \subseteq Nat

VARIABLES
  fpc,          \* "idle", "cut", "fetch" or "fetched"
  field,        \* the field asked for: [off, size]
  ext,          \* it: the extent looked at
  recoffset, recsize, currentOff,   \* parameters and locals of the loop
  recextents,   \* the parts found
  nextPart,     \* the part GetBufferFromExtents reads next
  value         \* its data up to index, and whether it returns them

loop      == <<ext, recoffset, recsize, currentOff, recextents>>
fieldVars == <<fpc, field, loop, nextPart, value>>
allVars   == <<vars, fieldVars>>

NoValue == [ok |-> FALSE, bytes |-> <<>>]

FieldInit ==
  /\ Init
  /\ fpc = "idle"
  /\ field = [off |-> 0, size |-> 0]
  /\ ext = 1
  /\ recoffset = 0 /\ recsize = 0 /\ currentOff = 0
  /\ recextents = <<>>
  /\ nextPart = 1
  /\ value = NoValue

(* The parser asks for a field: the entry of CreateFieldExtents.           *)
AskField ==
  /\ pc = "parse"
  /\ fpc \in {"idle", "fetched"}
  /\ \E off \in FieldOffsets, size \in FieldSizes :
       /\ field' = [off |-> off, size |-> size]
       /\ recoffset' = off
       /\ recsize' = size
  /\ fpc' = "cut"
  /\ ext' = 1
  /\ currentOff' = 0
  /\ recextents' = <<>>
  /\ nextPart' = 1
  /\ value' = NoValue
  /\ UNCHANGED vars

InLoop == fpc = "cut" /\ ext <= Len(extents) /\ recsize > 0

(* The record offset looked for lies in this extent, whose first byte is   *)
(* taken to be at currentOff.                                              *)
Hit ==
  /\ currentOff + extents[ext].count > recoffset
  /\ recoffset >= currentOff

Inside  == recoffset - currentOff
(* Mutant: the part is not cut at the end of the extent.                   *)
CursizeUncut == recsize
Cursize ==
  IF Inside + recsize > extents[ext].count THEN extents[ext].count - Inside
                                           ELSE recsize

(* Mutant: the offset stays where it was in the first extent.              *)
CutHitKeepsOffset ==
  /\ InLoop
  /\ Hit
  /\ recextents' = Append(recextents, [page  |-> extents[ext].page,
                                       at    |-> extents[ext].at + Inside,
                                       count |-> Cursize])
  /\ recsize' = recsize - Cursize
  /\ currentOff' = currentOff + Cursize
  /\ ext' = ext + 1
  /\ UNCHANGED <<vars, fpc, field, recoffset, nextPart, value>>

(* A part of the field is in this extent.  After it, currentOff and        *)
(* recoffset are equal and no longer offsets in the record: only their     *)
(* difference matters from here on.                                        *)
CutHit ==
  /\ InLoop
  /\ Hit
  /\ recextents' = Append(recextents, [page  |-> extents[ext].page,
                                       at    |-> extents[ext].at + Inside,
                                       count |-> Cursize])
  /\ recsize' = recsize - Cursize
  /\ currentOff' = currentOff + Cursize
  /\ recoffset' = currentOff'
  /\ ext' = ext + 1
  /\ UNCHANGED <<vars, fpc, field, nextPart, value>>

(* Mutant: an extent passed over does not move currentOff.                 *)
CutMissStays ==
  /\ InLoop
  /\ ~ Hit
  /\ ext' = ext + 1
  /\ UNCHANGED <<vars, fpc, field, recoffset, recsize, currentOff, recextents, nextPart, value>>

CutMiss ==
  /\ InLoop
  /\ ~ Hit
  /\ currentOff' = currentOff + extents[ext].count
  /\ ext' = ext + 1
  /\ UNCHANGED <<vars, fpc, field, recoffset, recsize, recextents, nextPart, value>>

CutEnd ==
  /\ fpc = "cut"
  /\ ~ InLoop
  /\ fpc' = "fetch"
  /\ UNCHANGED <<vars, field, loop, nextPart, value>>

PartReadable ==
  nextPart <= Len(recextents) /\ Readable(recextents[nextPart].page)

(* One turn of GetBufferFromExtents, when the value is printed: the next   *)
(* part is read after the others.                                          *)
FetchPart ==
  /\ fpc = "fetch"
  /\ PartReadable
  /\ value' = [value EXCEPT !.bytes = @ \o ExtentBytes(recextents[nextPart])]
  /\ nextPart' = nextPart + 1
  /\ UNCHANGED <<vars, fpc, field, loop>>

(* Its end: index == size if no read fell short, and otherwise there is no *)
(* value.                                                                  *)
FetchEnd ==
  /\ fpc = "fetch"
  /\ ~ PartReadable
  /\ value' = IF nextPart > Len(recextents) THEN [value EXCEPT !.ok = TRUE] ELSE NoValue
  /\ fpc' = "fetched"
  /\ UNCHANGED <<vars, field, loop, nextPart>>

FieldNext ==
  \/ Next /\ UNCHANGED fieldVars
  \/ AskField \/ CutHit \/ CutMiss \/ CutEnd \/ FetchPart \/ FetchEnd

FieldSpec == FieldInit /\ [][FieldNext]_allVars
-----------------------------------------------------------------------------
FieldTypeOK ==
  /\ fpc \in {"idle", "cut", "fetch", "fetched"}
  /\ field \in [off : Nat, size : Nat]
  /\ ext \in 1 .. Len(extents) + 1
  /\ recoffset \in Nat
  /\ recsize \in Nat
  /\ currentOff \in Nat
  /\ recextents \in Seq(Extents)
  /\ nextPart \in Nat \ {0}
  /\ value \in [ok : BOOLEAN, bytes : Seq(PageNumbers \X PageOffsets)]

(* The place in the record of the first byte of the j-th extent.           *)
ExtentStart(j) == IF j = 1 THEN 0 ELSE (j - 1) * PageSize - entry.Offset

(* The extents that hold the field are consecutive: the parts end just     *)
(* before extent ext.                                                      *)
FirstExt == ext - Len(recextents)

(* The parts lie in consecutive extents of the record; the first starts at *)
(* the field's offset, each next one where its extent starts; and every    *)
(* part but the last runs to the end of its extent.                        *)
PartsInOrder ==
  \A j \in DOMAIN recextents :
    LET i == FirstExt + j - 1
    IN  /\ i \in DOMAIN extents
        /\ recextents[j].page = extents[i].page
        /\ recextents[j].at - extents[i].at =
             IF j = 1 THEN field.off - ExtentStart(i) ELSE 0
        /\ recextents[j].at + recextents[j].count <= extents[i].at + extents[i].count
        /\ j < Len(recextents) =>
             recextents[j].at + recextents[j].count = extents[i].at + extents[i].count

(* Where in the record the parts found so far end.                         *)
PartsEnd ==
  IF recextents = <<>> THEN field.off
  ELSE LET i == ext - 1
           p == recextents[Len(recextents)]
       IN  ExtentStart(i) + (p.at - extents[i].at) + p.count

(* No byte of the field is skipped or counted twice: where the parts end   *)
(* and what is still to find (recsize) always add up to the field's end.   *)
FieldConserved ==
  fpc \in {"cut", "fetch"} => PartsEnd + recsize = field.off + field.size

(* What is found is all the record has of the field: when the loop ends    *)
(* with some of the field missing, the record ends there.                  *)
FieldMaximal ==
  fpc = "fetch" /\ recsize > 0 => PartsEnd >= ListedBytes

(* A field is printed as it was parsed: for a record that was read whole,  *)
(* a field inside the record has a value, and it is the slice of the very  *)
(* buffer the parser looked at.                                            *)
ValueIsParsedSlice ==
  fpc = "fetched" /\ strict /\ field.off + field.size <= ls.Size =>
    value = [ok |-> TRUE,
             bytes |-> SubSeq(buffer, field.off + 1, field.off + field.size)]
=============================================================================
