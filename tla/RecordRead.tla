----------------------------- MODULE RecordRead -----------------------------
(***************************************************************************)
(* WMIParser: from an index location to the bytes of a record.             *)
(* GetRecordExtents (Helper.cpp) finds the TOC entry on the record's first *)
(* page and lists the extents, one per logical page; the caller then reads *)
(* the extents one by one into a buffer of ls.Size bytes, whatever the TOC *)
(* entry's size is: a larger entry overruns the buffer.  Strict callers    *)
(* (EventConsumer, EventFilter, binding, ObjectReferenceClass) parse the   *)
(* buffer only if all of it was read; the class-definition and instance    *)
(* parsers do not look at how much was read.                               *)
(***************************************************************************)
EXTENDS RecordStore

CONSTANTS
  Tocs,       \* the tables of contents tried on the record's first page
  Targets     \* the locations tried

ASSUME TocsAssumption    == Tocs \subseteq Seq(TocEntries)
ASSUME TargetsAssumption == Targets \subseteq Locations

VARIABLES
  allocMap,   \* the data mapping, as ParseMappingRecords left it
  toc,        \* the TOC entries before the zero entry, on the first page
  ls,         \* the location asked for
  strict,     \* does the caller compare the bytes read with ls.Size?
  pc,         \* "locate", "collect", "read", "parse", "refused" or "undefined"
  extents,    \* recordExtents
  entry,      \* foundtoc
  logicalpage, inpageOffset, currentSize,   \* locals of GetRecordExtents
  it,         \* the extent to read next
  buffer      \* the bytes read so far: recBuf up to currentIndex, and what
              \* was written behind it

inputs  == <<allocMap, toc, ls, strict>>
collect == <<extents, entry, logicalpage, inpageOffset, currentSize>>
vars    == <<inputs, pc, collect, it, buffer>>

(* The positions of the valid entries with the wanted id: the scan stops   *)
(* at the first.                                                           *)
Hits == {i \in DOMAIN toc : IsValid(toc[i]) /\ toc[i].RecordID = ls.RecordID}

NoEntry == [RecordID |-> 0, Offset |-> 0, Size |-> 0]

Init ==
  /\ allocMap \in AllocMaps
  /\ toc \in Tocs
  /\ ls \in Targets
  /\ strict \in BOOLEAN
  /\ pc = "locate"
  /\ extents = <<>>
  /\ entry = NoEntry
  /\ logicalpage = ls.LogicalID
  /\ inpageOffset = 0
  /\ currentSize = 0
  /\ it = 1
  /\ buffer = <<>>

-----------------------------------------------------------------------------
FirstPageReadable ==
  ls.LogicalID \in LogicalPages /\ Readable(allocMap[ls.LogicalID])

(* ls.IsValid(): a zero record id or size names no record.                 *)
LocationValid == ls.RecordID # 0 /\ ls.Size # 0

Located == LocationValid /\ FirstPageReadable /\ Hits # {}

(* allocMap.at(), reading the first page, or the TOC scan fails.           *)
Refuse ==
  /\ pc = "locate"
  /\ ~ Located
  /\ pc' = "refused"
  /\ UNCHANGED <<inputs, collect, it, buffer>>

(* The TOC entry is found; a size that differs from ls.Size is only        *)
(* reported.                                                               *)
Locate ==
  /\ pc = "locate"
  /\ Located
  /\ \E i \in Hits :
       /\ \A j \in Hits : i <= j
       /\ entry' = toc[i]
       /\ currentSize' = toc[i].Size
       /\ inpageOffset' = toc[i].Offset
  /\ pc' = "collect"
  /\ UNCHANGED <<inputs, extents, logicalpage, it, buffer>>

-----------------------------------------------------------------------------
(* Mutant: the chunk is not cut at the end of the page.                    *)
ChunkUncut == currentSize

(* PAGE_SIZE - inpageOffset, or what is left of the record.                *)
Chunk ==
  IF currentSize < PageSize - inpageOffset THEN currentSize
                                           ELSE PageSize - inpageOffset

(* Mutant: inpageOffset keeps the first page's offset.                     *)
CollectNoReset ==
  /\ pc = "collect"
  /\ extents' = Append(extents, [page  |-> allocMap[logicalpage],
                                 at    |-> inpageOffset,
                                 count |-> Chunk])
  /\ currentSize' = currentSize - Chunk
  /\ IF currentSize' = 0 THEN UNCHANGED logicalpage
                         ELSE logicalpage' = logicalpage + 1
  /\ pc' = IF currentSize' > 0 /\ logicalpage' \in LogicalPages
             THEN "collect" ELSE "read"
  /\ UNCHANGED <<inputs, entry, inpageOffset, it, buffer>>

(* One turn of while (currentSize).  When the next logical page is outside *)
(* the mapping the loop breaks, and GetRecordExtents still returns true.   *)
Collect ==
  /\ pc = "collect"
  /\ extents' = Append(extents, [page  |-> allocMap[logicalpage],
                                 at    |-> inpageOffset,
                                 count |-> Chunk])
  /\ currentSize' = currentSize - Chunk
  /\ inpageOffset' = 0
  /\ IF currentSize' = 0 THEN UNCHANGED logicalpage
                         ELSE logicalpage' = logicalpage + 1
  /\ pc' = IF currentSize' > 0 /\ logicalpage' \in LogicalPages
             THEN "collect" ELSE "read"
  /\ UNCHANGED <<inputs, entry, it, buffer>>

-----------------------------------------------------------------------------
ExtentReadable == it <= Len(extents) /\ Readable(extents[it].page)

(* Mutant: the loop goes on after an extent that cannot be read.           *)
ReadExtentContinuing ==
  /\ pc = "read"
  /\ it <= Len(extents)
  /\ buffer' = IF ExtentReadable THEN buffer \o ExtentBytes(extents[it]) ELSE buffer
  /\ it' = it + 1
  /\ UNCHANGED <<inputs, pc, collect>>

(* One turn of the caller's read loop, over the extents not yet read.  It  *)
(* breaks at the first extent whose SetFilePointer or ReadFile falls short. *)
ReadExtent ==
  /\ pc = "read"
  /\ ExtentReadable
  /\ buffer' = buffer \o ExtentBytes(extents[it])
  /\ it' = it + 1
  /\ UNCHANGED <<inputs, pc, collect>>

(* recBuf has ls.Size bytes, and an extent that does not fit is written    *)
(* over what lies behind it.  That is undefined: either the loop goes on   *)
(* as if nothing were (ReadExtent), or nothing can be said of the program  *)
(* any more.                                                               *)
Overrun ==
  /\ pc = "read"
  /\ ExtentReadable
  /\ Len(buffer) + extents[it].count > ls.Size
  /\ pc' = "undefined"
  /\ UNCHANGED <<inputs, collect, it, buffer>>

(* if (currentIndex == Size), made by the strict callers only.             *)
Complete == Len(buffer) = ls.Size

(* Mutant: a strict caller does not compare the sizes.                     *)
AcceptAny ==
  /\ pc = "read"
  /\ ~ ExtentReadable
  /\ pc' = "parse"
  /\ UNCHANGED <<inputs, collect, it, buffer>>

Accept ==
  /\ pc = "read"
  /\ ~ ExtentReadable
  /\ strict => Complete
  /\ pc' = "parse"
  /\ UNCHANGED <<inputs, collect, it, buffer>>

Reject ==
  /\ pc = "read"
  /\ ~ ExtentReadable
  /\ strict /\ ~ Complete
  /\ pc' = "refused"
  /\ UNCHANGED <<inputs, collect, it, buffer>>

Next == Refuse \/ Locate \/ Collect \/ ReadExtent \/ Overrun \/ Accept \/ Reject

Spec == Init /\ [][Next]_vars
-----------------------------------------------------------------------------
TypeOK ==
  /\ allocMap \in AllocMaps
  /\ toc \in Tocs
  /\ ls \in Targets
  /\ strict \in BOOLEAN
  /\ pc \in {"locate", "collect", "read", "parse", "refused", "undefined"}
  /\ extents \in Seq(Extents)
  /\ entry \in TocEntries
  /\ logicalpage \in Nat
  /\ inpageOffset \in PageOffsets
  /\ currentSize \in Nat
  /\ it \in Nat \ {0}
  /\ buffer \in Seq(PageNumbers \X PageOffsets)

(* The extents list the record front to back without a gap: the j-th one   *)
(* lies on the j-th logical page counted from the record's, starts at the  *)
(* TOC offset on the first page and at the page's start on the others, and *)
(* every one but the last runs to the end of its page.                     *)
ExtentsInOrder ==
  \A j \in DOMAIN extents :
    /\ ls.LogicalID + j - 1 \in LogicalPages
    /\ extents[j].page = allocMap[ls.LogicalID + j - 1]
    /\ extents[j].at = IF j = 1 THEN entry.Offset ELSE 0
    /\ j < Len(extents) => extents[j].at + extents[j].count = PageSize

(* Nothing of the record is lost or listed twice: the bytes listed and the *)
(* bytes still to list (currentSize) make up the TOC size, at every turn   *)
(* of the loop.  The bytes listed end where the last extent ends.          *)
ListedBytes ==
  IF extents = <<>> THEN 0
  ELSE (Len(extents) - 1) * PageSize - entry.Offset
         + extents[Len(extents)].at + extents[Len(extents)].count

SizeConserved == pc \notin {"refused", "locate"} =>
                   ListedBytes + currentSize = entry.Size

(* The bytes in the buffer are the record's bytes, in order, from its      *)
(* first: whatever the map does, no byte of another place gets in.         *)
BufferIsRecordPrefix ==
  buffer = RecordBytes(allocMap, ls.LogicalID, entry.Offset, Len(buffer))
=============================================================================
