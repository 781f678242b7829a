---------------------------- MODULE ObjectBuffer ----------------------------
(***************************************************************************)
(* python-cim: LogicalDataStore.get_object_buffer (cim.py), from an index  *)
(* key to the bytes of an object.  The first page is fetched and its TOC   *)
(* parsed, all of it or none; the slice at the TOC entry is the first      *)
(* part; following logical pages are appended until data_length bytes are  *)
(* there.  Every failure is an exception out of the call.                  *)
(***************************************************************************)
EXTENDS RecordStore

VARIABLES
  mapping,    \* the data mapping
  toc,        \* the entries before the empty entry, on the first page
  key,        \* the key: LogicalID, RecordID, Size stand for its three parts
  pc,         \* "page", "append", "returned" or "raised"
  data,       \* the bytes gathered: b"".join(data)
  i           \* the next page, counted from the first

vars == <<mapping, toc, key, pc, data, i>>

Init ==
  /\ pc = "page"
  /\ data = <<>>
  /\ i = 1

(* TOC.vsParse: one entry that is not valid and the whole table counts as  *)
(* empty.                                                                  *)
ParsedToc ==
  IF \A n \in DOMAIN toc : PyIsValid(toc[n]) THEN toc ELSE <<>>

Hits == {n \in DOMAIN ParsedToc : ParsedToc[n].RecordID = key.RecordID}

(* get_logical_page_buffer returns: the page is mapped, and in the file.   *)
HasBuffer(l) == l \in LogicalPages /\ Readable(mapping[l])

(* DataPage.get_data_by_key: buf[offset:offset + size], which Python cuts  *)
(* at the end of the page.                                                 *)
FirstSlice(e) ==
  [k \in 1 .. (IF e.Offset + e.Size < PageSize THEN e.Offset + e.Size ELSE PageSize) - e.Offset
     |-> <<mapping[key.LogicalID], e.Offset + k - 1>>]

Entry == ParsedToc[CHOOSE n \in Hits : \A m \in Hits : n <= m]

(* Mutant: the TOC size is not compared with the key's.                    *)
FirstDataOKAnySize == HasBuffer(key.LogicalID) /\ Hits # {}

FirstDataOK == HasBuffer(key.LogicalID) /\ Hits # {} /\ Entry.Size >= key.Size

(* get_page or get_data_by_key raises: UnmappedPage, IndexError,           *)
(* IndexKeyNotFoundError, or RuntimeError for a TOC entry that is smaller. *)
FirstRaises ==
  /\ pc = "page"
  /\ ~ FirstDataOK
  /\ pc' = "raised"
  /\ UNCHANGED <<mapping, toc, key, data, i>>

(* The common case, first_data has the target length, and the case where   *)
(* it is longer already: both return it.                                   *)
FirstSuffices ==
  /\ pc = "page"
  /\ FirstDataOK
  /\ Len(FirstSlice(Entry)) >= key.Size
  /\ data' = FirstSlice(Entry)
  /\ pc' = "returned"
  /\ UNCHANGED <<mapping, toc, key, i>>

FirstPart ==
  /\ pc = "page"
  /\ FirstDataOK
  /\ Len(FirstSlice(Entry)) < key.Size
  /\ data' = FirstSlice(Entry)
  /\ pc' = "append"
  /\ UNCHANGED <<mapping, toc, key, i>>

-----------------------------------------------------------------------------
(* Mutant: the first page is taken again.                                  *)
NextPageFromZero == key.LogicalID + i - 1

NextPage == key.LogicalID + i

PageBytes(l) == [k \in 1 .. PageSize |-> <<mapping[l], k - 1>>]

AppendPage ==
  /\ pc = "append"
  /\ HasBuffer(NextPage)
  /\ data' = data \o (IF Len(data) + PageSize > key.Size
                        THEN SubSeq(PageBytes(NextPage), 1, key.Size - Len(data))
                        ELSE PageBytes(NextPage))
  /\ i' = i + 1
  /\ pc' = IF Len(data') < key.Size THEN "append" ELSE "returned"
  /\ UNCHANGED <<mapping, toc, key>>

AppendRaises ==
  /\ pc = "append"
  /\ ~ HasBuffer(NextPage)
  /\ pc' = "raised"
  /\ UNCHANGED <<mapping, toc, key, data, i>>

Next == FirstRaises \/ FirstSuffices \/ FirstPart \/ AppendPage \/ AppendRaises

Spec == Init /\ [][Next]_vars
=============================================================================
