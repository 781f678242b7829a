----------------------------- MODULE TwoReaders -----------------------------
(***************************************************************************)
(* Both readers of a record over one store: python-cim (ObjectBuffer)      *)
(* reads it, then WMIParser does (RecordRead, with the fields of FieldRead *)
(* after it).  Neither writes anything the other reads, so this order is   *)
(* as good as any.  Each reader is shown to be a fetch (RecordFetch), and  *)
(* the two are compared.                                                   *)
(***************************************************************************)
EXTENDS FieldRead

VARIABLES pyPc, data, i   \* of ObjectBuffer

Py == INSTANCE ObjectBuffer WITH mapping <- allocMap, key <- ls, pc <- pyPc

PyRead == pyPc \in {"returned", "raised"}

BothInit == FieldInit /\ Py!Init
BothNext ==
  \/ Py!Next /\ UNCHANGED <<strict, pc, collect, it, buffer, fieldVars>>
  \/ PyRead /\ FieldNext /\ UNCHANGED <<pyPc, data, i>>

BothSpec == BothInit /\ [][BothNext]_<<allVars, pyPc, data, i>>
-----------------------------------------------------------------------------
(* A strict read is a fetch: it hands the parser the whole record or       *)
(* nothing, and nothing only when the record cannot be had.  What a caller *)
(* that is not strict does is not a fetch, and never counts as an answer;  *)
(* nor does a run that a read behind the buffer ends.                      *)
First == CHOOSE m \in Hits : \A n \in Hits : m <= n

(* A TOC entry larger than the index says, whose reads stop at just the    *)
(* size the index gives: that is the end of a page, and the next page is   *)
(* not mapped or not in the file.                                          *)
CutAtSize ==
  LET end  == toc[First].Offset + ls.Size
      next == ls.LogicalID + end \div PageSize
  IN  /\ toc[First].Size > ls.Size
      /\ end % PageSize = 0
      /\ ~ (next \in LogicalPages /\ Readable(allocMap[next]))

(* GetRecordExtents only reports a TOC size that is not the index's, and   *)
(* the strict caller counts the bytes it read: these are the sizes it      *)
(* parses.                                                                 *)
SizeAccepted == toc[First].Size = ls.Size \/ CutAtSize

RecordFetched == INSTANCE RecordFetch WITH
  map    <- allocMap,
  found  <- Located /\ SizeAccepted,
  place  <- IF Located THEN [page |-> ls.LogicalID, at |-> toc[First].Offset, size |-> ls.Size]
                       ELSE [page |-> ls.LogicalID, at |-> 0, size |-> 0],
  status <- CASE strict /\ pc = "parse"   -> "bytes"
              [] strict /\ pc = "refused" -> "none"
              [] OTHER -> "pending",
  bytes  <- IF strict /\ pc = "parse" THEN buffer ELSE <<>>

ImplementsFetch == RecordFetched!Spec

(* A call of get_object_buffer is a fetch: the first data_length bytes it  *)
(* returns are those of the object, and it raises only when there is no    *)
(* TOC entry of at least that size or a page of the object is missing.     *)
ObjectFetched == INSTANCE RecordFetch WITH
  map    <- allocMap,
  found  <- Py!FirstDataOK,
  place  <- [page |-> ls.LogicalID,
             at   |-> IF Py!FirstDataOK THEN Py!Entry.Offset ELSE 0,
             size |-> ls.Size],
  status <- CASE pyPc = "returned" -> "bytes" [] pyPc = "raised" -> "none" [] OTHER -> "pending",
  bytes  <- IF pyPc = "returned" THEN SubSeq(data, 1, ls.Size) ELSE <<>>

PyImplementsFetch == ObjectFetched!Spec

(* Where both take every entry of the table for valid, a strict caller of  *)
(* WMIParser parses a record exactly if python-cim returns the object and  *)
(* the TOC entry has the size the index gives (or is a larger one that the *)
(* reads cut there), and they have the same bytes.  A larger entry is the  *)
(* one difference: python-cim returns the object, and the strict caller    *)
(* refuses it, if the program lives on after reading behind its buffer.    *)
BothValid == LocationValid /\ \A n \in DOMAIN toc : IsValid(toc[n]) /\ PyIsValid(toc[n])

ReadersAgree ==
  strict /\ BothValid /\ pc \in {"parse", "refused"} =>
    /\ (pc = "parse") <=> (pyPc = "returned" /\ SizeAccepted)
    /\ pc = "parse" => buffer = SubSeq(data, 1, ls.Size)
=============================================================================
