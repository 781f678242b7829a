-------------------------- MODULE TwoReadersProofs --------------------------
(***************************************************************************)
(* Proofs about the readers of a record, for every page size, mapping,     *)
(* file, table of contents and location: GetRecordExtents and the read     *)
(* loop as RecordRead models them; CreateFieldExtents and                  *)
(* GetBufferFromExtents as FieldRead does, for every record these can list *)
(* and every field; and that WMIParser and python-cim each fetch the       *)
(* record, and agree.                                                      *)
(***************************************************************************)
EXTENDS TwoReaders, TLAPS, SequenceTheorems, WellFoundedInduction

USE PageSizeAssumption, MapSizeAssumption, TargetsAssumption

(* A place q pages and r bytes further: division finds q and r again.      *)
LEMMA DivisionUnique ==
  ASSUME NEW q \in Nat, NEW r \in PageOffsets
  PROVE  /\ (q * PageSize + r) \div PageSize = q
         /\ (q * PageSize + r) % PageSize = r
BY SMTT(30) DEF PageOffsets

(* A part that ends a page ends where the next page starts.                *)
LEMMA PageEnd ==
  ASSUME NEW q \in Int, NEW off \in Int, NEW a \in Int, NEW c \in Int,
         a + c = PageSize
  PROVE  (q - 1) * PageSize - off + a + c = q * PageSize - off
<1>1. (q - 1) * PageSize = q * PageSize - PageSize /\ q * PageSize \in Int
  OBVIOUS
<1> QED
  BY <1>1

-----------------------------------------------------------------------------
(* The inductive invariant.  While extents are collected the next one is   *)
(* known to start where the last one ended; once they are read, the buffer *)
(* ends where the extents read so far end.                                 *)
EntryOK ==
  pc \in {"collect", "read", "parse"} =>
    /\ ls.LogicalID \in LogicalPages
    /\ entry.Offset \in 1 .. PageSize - 1
    /\ entry.Size \in Nat \ {0}

Fresh == extents = <<>> /\ currentSize = 0 /\ logicalpage = ls.LogicalID

NothingRead == it = 1 /\ buffer = <<>>

CollectInv ==
  pc = "collect" =>
    /\ NothingRead
    /\ currentSize > 0
    /\ logicalpage \in LogicalPages
    /\ logicalpage = ls.LogicalID + Len(extents)
    /\ inpageOffset = IF extents = <<>> THEN entry.Offset ELSE 0
    /\ extents # <<>> =>
         extents[Len(extents)].at + extents[Len(extents)].count = PageSize

(* The record bytes in the first n extents.                                *)
BytesIn(n) ==
  IF n = 0 THEN 0
  ELSE (n - 1) * PageSize - entry.Offset + extents[n].at + extents[n].count

ReadInv ==
  /\ it \in 1 .. Len(extents) + 1
  /\ Len(buffer) = BytesIn(it - 1)
  /\ \A k \in 1 .. Len(buffer) :
       buffer[k] = ByteOf(allocMap, ls.LogicalID, entry.Offset, k)

IInv ==
  /\ TypeOK
  /\ EntryOK
  /\ pc = "locate" => Fresh /\ NothingRead
  /\ CollectInv
  /\ ExtentsInOrder
  /\ SizeConserved
  /\ ReadInv

-----------------------------------------------------------------------------
(* The initial states satisfy the invariant.                               *)
LEMMA InitIInv == Init => IInv
<1> SUFFICES ASSUME Init PROVE IInv
  OBVIOUS
<1>1. ls \in Locations /\ ls.LogicalID \in Nat
  BY DEF Init, Locations
<1>2. TypeOK
  BY <1>1 DEF Init, TypeOK, NoEntry, TocEntries, PageOffsets
<1>3. EntryOK /\ CollectInv /\ SizeConserved /\ ExtentsInOrder
  BY DEF Init, EntryOK, CollectInv, SizeConserved, ExtentsInOrder
<1>4. ReadInv
  BY DEF Init, ReadInv, BytesIn
<1> QED
  BY <1>2, <1>3, <1>4 DEF IInv, Init, Fresh, NothingRead

(* Finding the TOC entry.                                                  *)
LEMMA LocateIInv == IInv /\ Locate => IInv'
<1> SUFFICES ASSUME IInv, Locate PROVE IInv'
  OBVIOUS
<1> USE DEF IInv
<1>1. PICK u \in Hits : /\ entry' = toc[u]
                        /\ currentSize' = toc[u].Size
                        /\ inpageOffset' = toc[u].Offset
  BY DEF Locate
<1>2. toc \in Seq(TocEntries) /\ u \in DOMAIN toc /\ IsValid(toc[u])
  BY TocsAssumption DEF TypeOK, Hits
<1>3. toc[u] \in TocEntries
  BY <1>2
<1>4. toc[u].Offset \in 1 .. PageSize - 1 /\ toc[u].Size \in Nat \ {0}
  BY <1>2, <1>3 DEF IsValid, TocEntries
<1>5. /\ pc' = "collect" /\ extents' = <<>> /\ buffer' = <<>> /\ it' = 1
      /\ ls' = ls /\ allocMap' = allocMap /\ toc' = toc /\ strict' = strict
      /\ logicalpage' = ls.LogicalID /\ ls.LogicalID \in LogicalPages
  BY DEF Locate, Fresh, NothingRead, inputs, Located, FirstPageReadable
<1>6. TypeOK'
  <2>1. logicalpage' \in Nat /\ inpageOffset' \in PageOffsets /\ currentSize' \in Nat
    BY <1>1, <1>4, <1>5 DEF LogicalPages, PageOffsets
  <2>2. extents' \in Seq(Extents) /\ buffer' \in Seq(PageNumbers \X PageOffsets)
    BY <1>5
  <2> QED
    BY <1>1, <1>3, <1>5, <2>1, <2>2 DEF TypeOK
<1>7. EntryOK' /\ CollectInv' /\ SizeConserved' /\ ExtentsInOrder'
  <2>1. Len(extents') = 0
    BY <1>5
  <2>2. ls.LogicalID \in Nat
    BY DEF TypeOK, Locations
  <2> QED
    BY <1>1, <1>4, <1>5, <2>1, <2>2
    DEF EntryOK, CollectInv, SizeConserved, ExtentsInOrder, NothingRead, ListedBytes
<1>8. ReadInv'
  BY <1>5 DEF ReadInv, BytesIn
<1> QED
  BY <1>5, <1>6, <1>7, <1>8

(* One extent more.                                                        *)
LEMMA CollectIInv == IInv /\ Collect => IInv'
<1> SUFFICES ASSUME IInv, Collect PROVE IInv'
  OBVIOUS
<1> USE DEF IInv
<1> DEFINE e == [page |-> allocMap[logicalpage], at |-> inpageOffset, count |-> Chunk]
           n == Len(extents)
<1>1. /\ pc = "collect" /\ NothingRead /\ currentSize \in Nat \ {0}
      /\ logicalpage \in LogicalPages /\ logicalpage = ls.LogicalID + n
      /\ inpageOffset \in PageOffsets
      /\ inpageOffset = IF extents = <<>> THEN entry.Offset ELSE 0
      /\ extents \in Seq(Extents) /\ n \in Nat
      /\ ls.LogicalID \in LogicalPages /\ ls.LogicalID \in Nat
      /\ entry.Offset \in 1 .. PageSize - 1 /\ entry.Size \in Nat \ {0}
      /\ allocMap \in AllocMaps
  BY DEF Collect, CollectInv, TypeOK, EntryOK, LogicalPages
<1>2. /\ Chunk \in 1 .. PageSize /\ inpageOffset + Chunk <= PageSize
      /\ currentSize - Chunk \in Nat
      /\ currentSize - Chunk > 0 => inpageOffset + Chunk = PageSize
  BY <1>1 DEF Chunk, PageOffsets
<1>3. e \in Extents
  BY <1>1, <1>2 DEF Extents, AllocMaps
<1>4. /\ extents' = Append(extents, e) /\ currentSize' = currentSize - Chunk
      /\ inpageOffset' = 0 /\ entry' = entry /\ buffer' = buffer /\ it' = it
      /\ ls' = ls /\ allocMap' = allocMap /\ toc' = toc /\ strict' = strict
      /\ logicalpage' = IF currentSize' = 0 THEN logicalpage ELSE logicalpage + 1
      /\ pc' = IF currentSize' > 0 /\ logicalpage' \in LogicalPages
                 THEN "collect" ELSE "read"
  BY DEF Collect, inputs
<1>5. /\ extents' \in Seq(Extents) /\ Len(extents') = n + 1
      /\ extents'[n + 1] = e /\ extents' # <<>>
      /\ \A j \in 1 .. n : extents'[j] = extents[j]
  BY <1>1, <1>3, <1>4
<1>6. TypeOK'
  <2> HIDE DEF e
  <2>1. /\ inpageOffset' \in PageOffsets /\ logicalpage' \in Nat /\ currentSize' \in Nat
        /\ pc' \in {"locate", "collect", "read", "parse", "refused", "undefined"}
    BY ONLY <1>1, <1>2, <1>4, PageSizeAssumption DEF PageOffsets, LogicalPages
  <2>2. /\ allocMap' \in AllocMaps /\ toc' \in Tocs /\ ls' \in Targets /\ strict' \in BOOLEAN
        /\ entry' \in TocEntries /\ it' \in Nat \ {0}
        /\ buffer' \in Seq(PageNumbers \X PageOffsets)
    <3>1. TypeOK
      OBVIOUS
    <3> QED
      BY ONLY <1>4, <3>1 DEF TypeOK
  <2> QED
    BY ONLY <1>5, <2>1, <2>2 DEF TypeOK
<1>7. EntryOK'
  BY <1>1, <1>4 DEF EntryOK
<1>8. CollectInv'
  <2> SUFFICES ASSUME pc' = "collect" PROVE CollectInv'
    BY DEF CollectInv
  <2>1. currentSize' > 0 /\ logicalpage' \in LogicalPages /\ logicalpage' = logicalpage + 1
    BY <1>2, <1>4
  <2>2. logicalpage' = ls.LogicalID + (n + 1)
    <3>1. logicalpage = ls.LogicalID + n /\ ls.LogicalID \in Nat /\ n \in Nat
      BY <1>1
    <3>2. logicalpage' = logicalpage + 1
      BY <2>1
    <3> HIDE DEF n
    <3> QED
      BY ONLY <3>1, <3>2
  <2>3. extents'[n + 1].at = inpageOffset /\ extents'[n + 1].count = Chunk
    BY <1>5
  <2>4. inpageOffset + Chunk = PageSize
    BY <1>2, <1>4, <2>1
  <2> HIDE DEF e
  <2> QED
    BY <1>1, <1>4, <1>5, <2>1, <2>2, <2>3, <2>4 DEF CollectInv, NothingRead
<1>9. ExtentsInOrder'
  <2>1. \A j \in 1 .. n :
          /\ ls.LogicalID + j - 1 \in LogicalPages
          /\ extents[j].page = allocMap[ls.LogicalID + j - 1]
          /\ extents[j].at = IF j = 1 THEN entry.Offset ELSE 0
          /\ extents[j].at + extents[j].count = PageSize
    <3>1. n > 0 => extents[n].at + extents[n].count = PageSize
      BY <1>1 DEF CollectInv
    <3>2. DOMAIN extents = 1 .. n
      BY <1>1
    <3> QED
      BY <1>1, <3>1, <3>2 DEF ExtentsInOrder
  <2>2. ls.LogicalID + (n + 1) - 1 = logicalpage
    BY <1>1
  <2>3. inpageOffset = IF n + 1 = 1 THEN entry.Offset ELSE 0
    BY <1>1
  <2>4. DOMAIN extents' = 1 .. n + 1
    BY <1>5
  <2> SUFFICES ASSUME NEW j \in 1 .. n + 1
               PROVE  /\ ls.LogicalID + j - 1 \in LogicalPages
                      /\ extents'[j].page = allocMap[ls.LogicalID + j - 1]
                      /\ extents'[j].at = IF j = 1 THEN entry.Offset ELSE 0
                      /\ j < n + 1 => extents'[j].at + extents'[j].count = PageSize
    BY <1>4, <1>5, <2>4 DEF ExtentsInOrder
  <2>5. CASE j = n + 1
    <3>1. extents'[j].page = allocMap[logicalpage] /\ extents'[j].at = inpageOffset
      BY <1>5, <2>5
    <3> QED
      BY <1>1, <2>2, <2>3, <2>5, <3>1
  <2>6. CASE j \in 1 .. n
    BY <1>5, <2>1, <2>6
  <2> QED
    BY <1>1, <2>5, <2>6
<1>10. SizeConserved'
  <2>1. ListedBytes + currentSize = entry.Size
    BY <1>1 DEF SizeConserved
  <2>2. ListedBytes' = n * PageSize - entry.Offset + inpageOffset + Chunk
    BY <1>4, <1>5 DEF ListedBytes
  <2>3. CASE extents = <<>>
    <3>1. n = 0 /\ n * PageSize = 0
      BY <1>1, <2>3
    <3> QED
      BY <1>1, <1>2, <1>4, <2>1, <2>2, <2>3, <3>1 DEF ListedBytes, SizeConserved
  <2>4. CASE extents # <<>>
    <3>1. /\ extents[n].at + extents[n].count = PageSize
          /\ extents[n].at \in Int /\ extents[n].count \in Int
      BY <1>1, <2>4 DEF CollectInv, Extents, PageOffsets
    <3>2. ListedBytes = n * PageSize - entry.Offset
      <4>1. n \in Int /\ entry.Offset \in Int
        BY <1>1
      <4> QED
        BY <2>4, <3>1, <4>1, PageEnd DEF ListedBytes
    <3>3. n * PageSize \in Int
      BY <1>1
    <3> QED
      BY <1>1, <1>2, <1>4, <2>1, <2>2, <2>4, <3>2, <3>3 DEF SizeConserved
  <2> QED
    BY <2>3, <2>4
<1>11. ReadInv'
  BY <1>1, <1>4, <1>5 DEF ReadInv, NothingRead, BytesIn
<1> QED
  BY <1>4, <1>6, <1>7, <1>8, <1>9, <1>10, <1>11

(* One extent read: its bytes are the record's next bytes.                 *)
LEMMA ReadExtentIInv == IInv /\ ReadExtent => IInv'
<1> SUFFICES ASSUME IInv, ReadExtent PROVE IInv'
  OBVIOUS
<1> USE DEF IInv
<1> DEFINE e == extents[it]
           m == Len(buffer)
           bytes == ExtentBytes(e)
<1>1. /\ pc = "read" /\ pc' = "read" /\ it \in 1 .. Len(extents)
      /\ buffer' = buffer \o bytes /\ it' = it + 1
      /\ UNCHANGED <<inputs, collect>>
  BY DEF ReadExtent, ExtentReadable, TypeOK, ReadInv
<1>2. /\ extents \in Seq(Extents) /\ Len(extents) \in Nat
      /\ e \in Extents /\ e.count \in 1 .. PageSize /\ e.at \in PageOffsets
      /\ e.page \in PageNumbers /\ e.at + e.count <= PageSize
  BY <1>1 DEF TypeOK, Extents
<1>3. /\ e.page = allocMap[ls.LogicalID + it - 1]
      /\ e.at = IF it = 1 THEN entry.Offset ELSE 0
      /\ it > 1 => extents[it - 1].at + extents[it - 1].count = PageSize
      /\ ls.LogicalID \in Nat /\ entry.Offset \in Nat
  <2>1. it \in DOMAIN extents /\ (it > 1 => it - 1 \in DOMAIN extents /\ it - 1 < Len(extents))
    BY <1>1, <1>2
  <2>2. ls.LogicalID \in Nat /\ entry.Offset \in Nat
    BY DEF TypeOK, Locations, TocEntries
  <2> QED
    BY <2>1, <2>2 DEF ExtentsInOrder
<1>4. /\ buffer \in Seq(PageNumbers \X PageOffsets) /\ m \in Nat
      /\ m = BytesIn(it - 1)
      /\ \A k \in 1 .. m : buffer[k] = ByteOf(allocMap, ls.LogicalID, entry.Offset, k)
  BY DEF TypeOK, ReadInv
<1>5. m + entry.Offset = (it - 1) * PageSize + e.at
  <2>1. CASE it = 1
    BY <1>3, <1>4, <2>1 DEF BytesIn
  <2>2. CASE it > 1
    <3>1. m = (it - 2) * PageSize - entry.Offset + extents[it - 1].at + extents[it - 1].count
      BY <1>1, <1>4, <2>2 DEF BytesIn
    <3>2. extents[it - 1] \in Extents
      BY <1>1, <1>2, <2>2
    <3>3. m = (it - 2) * PageSize - entry.Offset + PageSize
      BY <1>1, <1>3, <2>2, <3>1, <3>2 DEF Extents, PageOffsets
    <3> QED
      BY <1>1, <1>3, <2>2, <3>3
  <2> QED
    BY <1>1, <2>1, <2>2
<1>6. /\ bytes \in Seq(PageNumbers \X PageOffsets) /\ Len(bytes) = e.count
      /\ \A k \in 1 .. e.count : bytes[k] = <<e.page, e.at + k - 1>>
  <2>1. bytes = [k \in 1 .. e.count |-> <<e.page, e.at + k - 1>>]
    BY DEF ExtentBytes
  <2>2. \A k \in 1 .. e.count : <<e.page, e.at + k - 1>> \in PageNumbers \X PageOffsets
    BY <1>2 DEF PageOffsets
  <2>3. bytes \in [1 .. e.count -> PageNumbers \X PageOffsets]
    BY <2>1, <2>2
  <2>4. e.count \in Nat
    BY <1>2
  <2>5. \A k \in 1 .. e.count : bytes[k] = <<e.page, e.at + k - 1>>
    BY <2>1
  <2> HIDE DEF bytes, e
  <2> QED
    BY <2>3, <2>4, <2>5
<1> HIDE DEF bytes, m, e
<1>7. /\ buffer' \in Seq(PageNumbers \X PageOffsets) /\ Len(buffer') = m + e.count
      /\ \A k \in 1 .. m : buffer'[k] = buffer[k]
      /\ \A k \in 1 .. e.count : buffer'[m + k] = bytes[k]
  <2>1. /\ buffer \o bytes \in Seq(PageNumbers \X PageOffsets)
        /\ Len(buffer \o bytes) = m + e.count
        /\ \A k \in 1 .. m + e.count :
             (buffer \o bytes)[k] = IF k <= m THEN buffer[k] ELSE bytes[k - m]
    <3>1. /\ buffer \in Seq(PageNumbers \X PageOffsets)
          /\ bytes \in Seq(PageNumbers \X PageOffsets)
          /\ Len(buffer) = m /\ Len(bytes) = e.count
      BY <1>4, <1>6 DEF m
    <3>2. /\ buffer \o bytes \in Seq(PageNumbers \X PageOffsets)
          /\ Len(buffer \o bytes) = Len(buffer) + Len(bytes)
          /\ \A k \in 1 .. Len(buffer) + Len(bytes) :
               (buffer \o bytes)[k] = IF k <= Len(buffer) THEN buffer[k] ELSE bytes[k - Len(buffer)]
      BY ONLY <3>1, ConcatProperties
    <3> QED
      BY ONLY <3>1, <3>2
  <2>2. e.count \in Nat /\ m \in Nat
    BY <1>2, <1>4
  <2>3. \A k \in 1 .. e.count : m + k \in 1 .. m + e.count /\ ~ (m + k <= m) /\ (m + k) - m = k
    BY <2>2
  <2>4. \A k \in 1 .. m : k \in 1 .. m + e.count /\ k <= m
    BY <2>2
  <2>5. buffer' = buffer \o bytes
    BY <1>1 DEF bytes, e
  <2> QED
    BY <2>1, <2>3, <2>4, <2>5
<1>8. \A k \in 1 .. e.count :
        buffer'[m + k] = ByteOf(allocMap, ls.LogicalID, entry.Offset, m + k)
  <2> SUFFICES ASSUME NEW k \in 1 .. e.count
               PROVE  <<e.page, e.at + k - 1>> = ByteOf(allocMap, ls.LogicalID, entry.Offset, m + k)
    BY <1>6, <1>7
  <2>1. it - 1 \in Nat /\ e.at + k - 1 \in PageOffsets
    BY <1>1, <1>2 DEF PageOffsets
  <2>2. entry.Offset + (m + k) - 1 = (it - 1) * PageSize + (e.at + k - 1)
    <3>1. (it - 1) * PageSize \in Int
      BY <1>1
    <3> QED
      BY <1>2, <1>3, <1>4, <1>5, <3>1 DEF PageOffsets
  <2>3. /\ (entry.Offset + (m + k) - 1) \div PageSize = it - 1
        /\ (entry.Offset + (m + k) - 1) % PageSize = e.at + k - 1
    BY <2>1, <2>2, DivisionUnique
  <2>4. ls.LogicalID + (it - 1) = ls.LogicalID + it - 1
    BY <1>1, <1>3
  <2> QED
    BY <1>3, <2>3, <2>4 DEF ByteOf
<1>9. ReadInv'
  <2>1. it' \in 1 .. Len(extents) + 1
    BY <1>1
  <2>2. Len(buffer') = BytesIn(it)
    <3>1. BytesIn(it) = (it - 1) * PageSize - entry.Offset + e.at + e.count
      BY <1>1 DEF BytesIn, e
    <3>2. (it - 1) * PageSize \in Int
      BY <1>1
    <3> QED
      BY <1>1, <1>2, <1>3, <1>4, <1>5, <1>7, <3>1, <3>2 DEF PageOffsets
  <2>3. \A k \in 1 .. Len(buffer') :
          buffer'[k] = ByteOf(allocMap, ls.LogicalID, entry.Offset, k)
    <3> SUFFICES ASSUME NEW k \in 1 .. m + e.count
                 PROVE  buffer'[k] = ByteOf(allocMap, ls.LogicalID, entry.Offset, k)
      BY <1>7
    <3>1. CASE k <= m
      BY <1>4, <1>7, <3>1
    <3>2. CASE k > m
      <4>1. k - m \in 1 .. e.count /\ m + (k - m) = k
        BY <1>2, <1>4, <3>2
      <4> QED
        BY <1>8, <4>1
    <3> QED
      BY <1>2, <1>4, <3>1, <3>2
  <2> QED
    <3>1. it' - 1 = it
      BY <1>1
    <3>2. BytesIn(it - 1)' = BytesIn(it)
      BY <1>1, <3>1 DEF BytesIn, collect
    <3> QED
      BY <1>1, <2>1, <2>2, <2>3, <3>2 DEF ReadInv, inputs, collect, ByteOf
<1>10. TypeOK'
  BY <1>1, <1>7 DEF TypeOK, inputs, collect
<1> QED
  BY <1>1, <1>9, <1>10
  DEF EntryOK, CollectInv, ExtentsInOrder, SizeConserved, ListedBytes, inputs, collect

(* The steps that only move pc.                                            *)
LEMMA OtherIInv ==
  IInv /\ (Refuse \/ Overrun \/ Accept \/ Reject \/ UNCHANGED vars) => IInv'
<1> SUFFICES ASSUME IInv,
                    \/ Refuse \/ Overrun \/ Accept \/ Reject
                    \/ UNCHANGED vars
             PROVE  IInv'
  OBVIOUS
<1>1. UNCHANGED <<inputs, collect, it, buffer>>
  BY DEF Refuse, Overrun, Accept, Reject, vars
<1>2. \/ pc' = "refused"
      \/ pc = "read" /\ pc' \in {"parse", "undefined"}
      \/ pc' = pc
  BY DEF Refuse, Overrun, Accept, Reject, vars
<1> QED
  BY <1>1, <1>2
  DEF IInv, TypeOK, EntryOK, CollectInv, ExtentsInOrder, SizeConserved, ReadInv,
      Fresh, NothingRead, ListedBytes, BytesIn, ByteOf, inputs, collect

(* IInv is an invariant of reading a record.                               *)
THEOREM Invariance == Spec => []IInv
<1>1. IInv /\ [Next]_vars => IInv'
  BY LocateIInv, CollectIInv, ReadExtentIInv, OtherIInv DEF Next
<1> QED
  BY InitIInv, <1>1, PTL DEF Spec

(* Type correctness: no extent ever crosses a page or has no bytes.        *)
THEOREM TypeCorrect == Spec => []TypeOK
BY Invariance, PTL DEF IInv

(* GetRecordExtents lists a record's pages in order and without a gap.     *)
THEOREM ExtentsCorrect == Spec => []ExtentsInOrder
BY Invariance, PTL DEF IInv

(* GetRecordExtents neither loses nor repeats a byte of the record.        *)
THEOREM SizeCorrect == Spec => []SizeConserved
BY Invariance, PTL DEF IInv

LEMMA PrefixHolds == IInv => BufferIsRecordPrefix
<1> SUFFICES ASSUME IInv PROVE BufferIsRecordPrefix
  OBVIOUS
<1>1. /\ buffer \in Seq(PageNumbers \X PageOffsets)
      /\ \A k \in 1 .. Len(buffer) :
           buffer[k] = ByteOf(allocMap, ls.LogicalID, entry.Offset, k)
  BY DEF IInv, TypeOK, ReadInv
<1>2. buffer = [k \in 1 .. Len(buffer) |-> buffer[k]]
  BY <1>1
<1> QED
  BY <1>1, <1>2 DEF BufferIsRecordPrefix, RecordBytes

(* Whatever the mapping and the file, the buffer a parser gets holds the   *)
(* record's own bytes, in order, from its first.                           *)
THEOREM BufferCorrect == Spec => []BufferIsRecordPrefix
BY Invariance, PrefixHolds, PTL

-----------------------------------------------------------------------------
(* What a strict caller gets.  The record can be had: its TOC entry has    *)
(* the size the index gives, or is cut there, and every page the record    *)
(* touches is in the file.                                                 *)
LEMMA LeastNatural ==
  ASSUME NEW S \in SUBSET Nat, S # {}
  PROVE  \E m \in S : \A n \in S : m <= n
<1>1. PICK m \in S : \A n \in S : ~ (<<n, m>> \in OpToRel(<, Nat))
  BY NatLessThanWellFounded, WFMin
<1>2. \A n \in S : ~ (n < m)
  BY <1>1 DEF OpToRel
<1> QED
  BY <1>2

Wanted(m) == m \in Hits /\ \A n \in Hits : m <= n

HasPage(p) == p \in LogicalPages /\ Readable(allocMap[p])

CutIn(e) ==
  /\ e.Size > ls.Size
  /\ (e.Offset + ls.Size) % PageSize = 0
  /\ ~ HasPage(ls.LogicalID + (e.Offset + ls.Size) \div PageSize)

CanBeHad ==
  /\ Located
  /\ \E m : /\ Wanted(m)
            /\ toc[m].Size = ls.Size \/ CutIn(toc[m])
            /\ WholeRecord(allocMap, ls.LogicalID, toc[m].Offset, ls.Size)

(* It depends on what is read only.                                        *)
LEMMA HadFrame ==
  ASSUME UNCHANGED <<allocMap, toc, ls>>
  PROVE  /\ Hits' = Hits /\ Located' = Located
         /\ \A m : Wanted(m)' = Wanted(m)
         /\ CanBeHad' = CanBeHad
<1>1. Hits' = Hits /\ Located' = Located
  BY DEF Hits, Located, LocationValid, FirstPageReadable
<1>2. \A m : Wanted(m)' = Wanted(m)
  BY <1>1 DEF Wanted
<1>3. \A m : CutIn(toc[m])' = CutIn(toc[m])
  BY DEF CutIn, HasPage
<1> QED
  BY <1>1, <1>2, <1>3 DEF CanBeHad

LEMMA WantedOnce ==
  ASSUME toc \in Seq(TocEntries)
  PROVE  /\ Hits # {} => \E m : Wanted(m)
         /\ \A m, n : Wanted(m) /\ Wanted(n) => m = n
<1>1. Hits \in SUBSET Nat
  BY DEF Hits
<1>2. Hits # {} => \E m \in Hits : \A n \in Hits : m <= n
  BY <1>1, LeastNatural
<1>3. ASSUME NEW m, NEW n, Wanted(m), Wanted(n) PROVE m = n
  <2>1. m \in Nat /\ n \in Nat /\ m <= n /\ n <= m
    BY <1>1, <1>3 DEF Wanted
  <2> QED
    BY <2>1
<1> QED
  BY <1>2, <1>3 DEF Wanted

LEMMA DivAtLeast ==
  ASSUME NEW a \in Nat, NEW q \in Nat, a >= q * PageSize
  PROVE  a \div PageSize \in Nat /\ a \div PageSize >= q
BY SMTT(30)

LEMMA DivAtMost ==
  ASSUME NEW a \in Nat, NEW q \in Nat, a < q * PageSize + PageSize
  PROVE  a \div PageSize \in Nat /\ a \div PageSize <= q
BY SMTT(30)

LEMMA TimesMonotone ==
  ASSUME NEW a \in Nat, NEW b \in Nat, a <= b
  PROVE  a * PageSize <= b * PageSize /\ a * PageSize \in Nat /\ b * PageSize \in Nat
BY SMTT(30)

(* Besides IInv: the entry is the first hit; the extents read are in the   *)
(* file; the extents listed stop short of the record only where the        *)
(* mapping ends; and a strict caller parses or refuses for a reason.       *)
RInv ==
  /\ pc \in {"collect", "read", "parse"} =>
       Located /\ \E m : Wanted(m) /\ entry = toc[m]
  /\ \A j \in 1 .. it - 1 : Readable(extents[j].page)
  /\ pc \in {"read", "parse"} /\ currentSize > 0 =>
       /\ ls.LogicalID + Len(extents) \notin LogicalPages
       /\ extents # <<>>
       /\ extents[Len(extents)].at + extents[Len(extents)].count = PageSize
  /\ strict /\ pc = "parse" => Complete /\ ~ ExtentReadable
  /\ strict /\ pc = "refused" => ~ CanBeHad

(* The place of the record where the n-th of the extents ends, in bytes    *)
(* from the start of its first page.                                       *)
LEMMA PlaceInRecord ==
  ASSUME IInv, pc \in {"collect", "read", "parse"}, NEW n \in 1 .. Len(extents)
  PROVE  /\ extents[n] \in Extents
         /\ extents[n].at \in PageOffsets /\ extents[n].count \in 1 .. PageSize
         /\ extents[n].at + extents[n].count <= PageSize
         /\ ls.LogicalID + n - 1 \in LogicalPages
         /\ extents[n].page = allocMap[ls.LogicalID + n - 1]
         /\ (n - 1) * PageSize \in Nat
         /\ BytesIn(n - 1) \in Int /\ BytesIn(n) \in Int
         /\ entry.Offset + BytesIn(n - 1) = (n - 1) * PageSize + extents[n].at
         /\ entry.Offset + BytesIn(n) = (n - 1) * PageSize + extents[n].at + extents[n].count
<1>1. /\ extents \in Seq(Extents) /\ Len(extents) \in Nat /\ n \in DOMAIN extents
      /\ entry.Offset \in Nat
  BY DEF IInv, TypeOK, TocEntries
<1>2. extents[n] \in Extents
  BY <1>1
<1>3. /\ extents[n].at \in PageOffsets /\ extents[n].count \in 1 .. PageSize
      /\ extents[n].at + extents[n].count <= PageSize
  BY <1>2 DEF Extents
<1>4. /\ ls.LogicalID + n - 1 \in LogicalPages
      /\ extents[n].page = allocMap[ls.LogicalID + n - 1]
      /\ extents[n].at = IF n = 1 THEN entry.Offset ELSE 0
      /\ n > 1 => extents[n - 1].at + extents[n - 1].count = PageSize
  <2>1. n > 1 => n - 1 \in DOMAIN extents /\ n - 1 < Len(extents)
    BY <1>1
  <2> QED
    BY <1>1, <2>1 DEF IInv, ExtentsInOrder
<1>5. (n - 1) * PageSize \in Nat
  BY <1>1, TimesMonotone
<1>6. /\ entry.Offset + BytesIn(n - 1) = (n - 1) * PageSize + extents[n].at
      /\ BytesIn(n - 1) \in Int
  <2>1. CASE n = 1
    BY <1>1, <1>3, <1>4, <2>1 DEF BytesIn
  <2>2. CASE n > 1
    <3>1. BytesIn(n - 1) = (n - 1 - 1) * PageSize - entry.Offset
                             + extents[n - 1].at + extents[n - 1].count
      BY <2>2 DEF BytesIn
    <3>2. extents[n - 1].at \in Int /\ extents[n - 1].count \in Int
      <4>1. extents[n - 1] \in Extents
        BY <1>1, <2>2
      <4> QED
        BY <4>1 DEF Extents, PageOffsets
    <3>3. PICK q \in Int : q = n - 1
      BY <1>1
    <3>4. entry.Offset \in Int /\ extents[n - 1].at + extents[n - 1].count = PageSize
      BY <1>1, <1>4, <2>2
    <3>5. (q - 1) * PageSize - entry.Offset + extents[n - 1].at + extents[n - 1].count
            = q * PageSize - entry.Offset
      BY <3>2, <3>4, PageEnd
    <3>6. BytesIn(n - 1) = (n - 1) * PageSize - entry.Offset
      BY <3>1, <3>3, <3>5
    <3>7. extents[n].at = 0
      BY <1>1, <1>4, <2>2
    <3> QED
      BY <1>1, <1>5, <3>6, <3>7
  <2> QED
    BY <1>1, <2>1, <2>2
<1>7. /\ entry.Offset + BytesIn(n) = (n - 1) * PageSize + extents[n].at + extents[n].count
      /\ BytesIn(n) \in Int
  <2>1. BytesIn(n) = (n - 1) * PageSize - entry.Offset + extents[n].at + extents[n].count
    BY <1>1 DEF BytesIn
  <2>2. PICK x \in Nat : x = (n - 1) * PageSize
    BY <1>5
  <2>3. BytesIn(n) = x - entry.Offset + extents[n].at + extents[n].count
    BY <2>1, <2>2
  <2>4. extents[n].at \in Nat /\ extents[n].count \in Nat
    BY <1>3 DEF PageOffsets
  <2>5. entry.Offset + BytesIn(n) = x + extents[n].at + extents[n].count /\ BytesIn(n) \in Int
    BY <1>1, <2>3, <2>4
  <2> QED
    BY <2>2, <2>5
<1> QED
  BY <1>2, <1>3, <1>4, <1>5, <1>6, <1>7

(* The same with a name for the product.                                   *)
LEMMA Place ==
  ASSUME IInv, pc \in {"collect", "read", "parse"}, NEW n \in 1 .. Len(extents),
         NEW x, x = (n - 1) * PageSize
  PROVE  /\ extents[n].at \in Nat /\ extents[n].at < PageSize
         /\ extents[n].count \in Nat \ {0}
         /\ extents[n].at + extents[n].count <= PageSize
         /\ x \in Nat /\ entry.Offset \in Nat
         /\ BytesIn(n - 1) \in Int /\ BytesIn(n) \in Int
         /\ entry.Offset + BytesIn(n - 1) = x + extents[n].at
         /\ entry.Offset + BytesIn(n) = x + extents[n].at + extents[n].count
<1>1. /\ extents[n].at \in PageOffsets /\ extents[n].count \in 1 .. PageSize
      /\ extents[n].at + extents[n].count <= PageSize
      /\ x \in Nat
      /\ BytesIn(n - 1) \in Int /\ BytesIn(n) \in Int
      /\ entry.Offset + BytesIn(n - 1) = x + extents[n].at
      /\ entry.Offset + BytesIn(n) = x + extents[n].at + extents[n].count
  BY PlaceInRecord
<1>2. /\ extents[n].at \in Nat /\ extents[n].at < PageSize
      /\ extents[n].count \in Nat \ {0}
  <2>1. PICK a, c : a = extents[n].at /\ c = extents[n].count
    OBVIOUS
  <2>2. a \in 0 .. PageSize - 1 /\ c \in 1 .. PageSize
    BY <1>1, <2>1 DEF PageOffsets
  <2>3. a \in Nat /\ a < PageSize /\ c \in Nat \ {0}
    BY ONLY <2>2, PageSizeAssumption
  <2> QED
    BY <2>1, <2>3
<1>3. entry.Offset \in Nat
  BY DEF IInv, TypeOK, TocEntries
<1> QED
  BY <1>1, <1>2, <1>3

(* An extent more is some bytes more.                                      *)
LEMMA BytesGrow ==
  ASSUME IInv, pc \in {"collect", "read", "parse"}, NEW n \in 1 .. Len(extents)
  PROVE  BytesIn(n - 1) < BytesIn(Len(extents))
<1>1. PICK c \in Nat : c = Len(extents) /\ c \in 1 .. Len(extents) /\ n \in 1 .. c
  BY DEF IInv, TypeOK
<1>2. PICK x : x = (n - 1) * PageSize
  OBVIOUS
<1>3. PICK y : y = (c - 1) * PageSize
  OBVIOUS
<1>4. /\ extents[n].at \in Nat /\ extents[n].at < PageSize /\ x \in Nat
      /\ BytesIn(n - 1) \in Int /\ entry.Offset \in Nat
      /\ entry.Offset + BytesIn(n - 1) = x + extents[n].at
  BY <1>2, Place
<1>5. /\ extents[c].at \in Nat /\ extents[c].count \in Nat \ {0} /\ y \in Nat
      /\ BytesIn(c) \in Int
      /\ entry.Offset + BytesIn(c) = y + extents[c].at + extents[c].count
  BY <1>1, <1>3, Place
<1>6. n = c \/ x + PageSize <= y
  <2> SUFFICES ASSUME n < c PROVE x + PageSize <= y
    BY <1>1
  <2>1. n * PageSize <= (c - 1) * PageSize
    <3>1. n \in Nat /\ c - 1 \in Nat /\ n <= c - 1
      BY <1>1
    <3> QED
      BY <3>1, TimesMonotone
  <2>2. n * PageSize = (n - 1) * PageSize + PageSize
    <3>1. n \in Int /\ PageSize \in Int
      BY <1>1
    <3> QED
      BY <3>1
  <2> QED
    BY <1>2, <1>3, <2>1, <2>2
<1>7. CASE n = c
  <2>1. x = y
    BY <1>2, <1>3, <1>7
  <2> QED
    BY <1>1, <1>4, <1>5, <1>7, <2>1
<1>8. CASE x + PageSize <= y
  <2>1. PICK b \in Int, d \in Int : b = BytesIn(n - 1) /\ d = BytesIn(c)
    BY <1>4, <1>5
  <2>2. entry.Offset + b < x + PageSize
    BY <1>4, <2>1
  <2>3. entry.Offset + d > y
    BY <1>5, <2>1
  <2>4. b < d
    BY <1>4, <1>5, <1>8, <2>2, <2>3
  <2> QED
    BY <1>1, <2>1, <2>4
<1> QED
  BY <1>6, <1>7, <1>8

(* Where the reads stop: n extents were read, and each of their pages is   *)
(* in the file.  Either the record was read whole, or the bytes end with   *)
(* a page and the next one cannot be had.                                  *)
LEMMA Stopped ==
  ASSUME IInv, RInv, pc \in {"read", "parse"}, ~ ExtentReadable
  PROVE  \E n \in Nat \ {0}, x \in Nat, b \in Nat, o \in Nat :
           /\ n = it - 1 /\ x = (n - 1) * PageSize /\ b = Len(buffer) /\ o = entry.Offset
           /\ x < o + b /\ o + b <= x + PageSize
           /\ ListedBytes \in Int /\ b <= ListedBytes
           /\ \A q \in 0 .. n - 1 : HasPage(ls.LogicalID + q)
           /\ \/ b = entry.Size
              \/ b < entry.Size /\ o + b = x + PageSize /\ ~ HasPage(ls.LogicalID + n)
<1>1. /\ extents \in Seq(Extents) /\ Len(extents) \in Nat
      /\ (extents = <<>>) <=> (Len(extents) = 0)
      /\ it \in 1 .. Len(extents) + 1 /\ currentSize \in Nat
      /\ entry.Size \in Nat \ {0} /\ entry.Offset \in Nat /\ ls.LogicalID \in Nat
      /\ Len(buffer) \in Nat
      /\ Len(buffer) = BytesIn(it - 1) /\ ListedBytes + currentSize = entry.Size
  BY DEF IInv, TypeOK, EntryOK, ReadInv, SizeConserved, TocEntries, Locations
<1>2. Len(extents) > 0
  <2> SUFFICES ASSUME extents = <<>> PROVE FALSE
    BY <1>1
  <2>1. ListedBytes = 0
    BY DEF ListedBytes
  <2> QED
    BY <1>1, <2>1 DEF RInv
<1>3. it # 1
  <2> SUFFICES ASSUME it = 1 PROVE FALSE
    OBVIOUS
  <2>1. 1 \in 1 .. Len(extents) /\ ls.LogicalID + 1 - 1 = ls.LogicalID
    BY <1>1, <1>2
  <2>2. extents[1].page = allocMap[ls.LogicalID]
    BY <2>1, PlaceInRecord
  <2> QED
    BY <1>1, <1>2, <2>2 DEF RInv, Located, FirstPageReadable, ExtentReadable
<1>4. PICK n \in Nat \ {0} : n = it - 1 /\ n \in 1 .. Len(extents)
  BY <1>1, <1>3
<1>5. PICK x \in Nat : x = (n - 1) * PageSize
  <2>1. n - 1 \in Nat
    BY <1>4
  <2> QED
    BY <2>1, TimesMonotone
<1>6. /\ extents[n].at \in Nat /\ extents[n].count \in Nat \ {0}
      /\ extents[n].at + extents[n].count <= PageSize
      /\ entry.Offset + BytesIn(n) = x + extents[n].at + extents[n].count
  BY <1>4, <1>5, Place
<1>7. PICK b \in Nat, o \in Nat : b = Len(buffer) /\ o = entry.Offset
  BY <1>1
<1>8. PICK e \in Nat \ {0} : /\ e = extents[n].at + extents[n].count
                           /\ e <= PageSize /\ o + b = x + e
  <2>1. PICK f \in Nat \ {0} : f = extents[n].at + extents[n].count
    BY <1>6
  <2>2. f <= PageSize
    BY <1>6, <2>1
  <2>3. b = BytesIn(n)
    BY <1>1, <1>4, <1>7
  <2>4. o + b = x + f
    BY <1>6, <1>7, <2>1, <2>3
  <2> QED
    BY <2>1, <2>2, <2>4
<1>9. ListedBytes = BytesIn(Len(extents)) /\ BytesIn(Len(extents)) \in Int
  <2>1. Len(extents) \in 1 .. Len(extents)
    BY <1>1, <1>2
  <2>2. BytesIn(Len(extents)) \in Int
    BY <2>1, PlaceInRecord
  <2> QED
    BY <1>1, <1>2, <2>2 DEF ListedBytes, BytesIn
<1>10. ASSUME NEW q \in 0 .. n - 1 PROVE HasPage(ls.LogicalID + q)
  <2>1. PICK j \in 1 .. n : j = q + 1
    BY <1>4
  <2>2. j \in 1 .. Len(extents) /\ j \in 1 .. it - 1 /\ ls.LogicalID + j - 1 = ls.LogicalID + q
    BY <1>1, <1>4, <2>1
  <2>3. ls.LogicalID + q \in LogicalPages /\ extents[j].page = allocMap[ls.LogicalID + q]
    BY <2>2, PlaceInRecord
  <2> QED
    BY <2>2, <2>3 DEF RInv, HasPage
<1>11. PICK t \in Int, z \in Nat, c \in Nat :
         /\ t = ListedBytes /\ z = entry.Size /\ c = currentSize /\ t + c = z
  BY <1>1, <1>9
<1>12. /\ b <= t
       /\ b = z \/ (b < z /\ o + b = x + PageSize /\ ~ HasPage(ls.LogicalID + n))
  <2>1. CASE n = Len(extents)
    <3>1. b = t
      BY <1>1, <1>4, <1>7, <1>9, <1>11, <2>1
    <3>2. ASSUME c > 0 PROVE e = PageSize /\ ~ HasPage(ls.LogicalID + n)
      BY <1>8, <1>11, <2>1, <3>2 DEF RInv, HasPage
    <3> QED
      BY <1>8, <1>11, <3>1, <3>2
  <2>2. CASE n < Len(extents)
    <3>1. it \in 1 .. Len(extents) /\ it - 1 = n /\ ls.LogicalID + it - 1 = ls.LogicalID + n
      BY <1>1, <1>4, <2>2
    <3>2. b < t
      <4>1. BytesIn(it - 1) < BytesIn(Len(extents))
        BY <3>1, BytesGrow
      <4> QED
        BY <1>1, <1>7, <1>9, <1>11, <4>1
    <3>3. ~ HasPage(ls.LogicalID + n)
      <4>1. extents[it].page = allocMap[ls.LogicalID + n]
        BY <3>1, PlaceInRecord
      <4> QED
        BY <3>1, <4>1 DEF ExtentReadable, HasPage
    <3>4. e = PageSize
      BY <1>1, <1>4, <1>8, <2>2 DEF IInv, ExtentsInOrder
    <3> QED
      BY <1>8, <1>11, <3>2, <3>3, <3>4
  <2> QED
    BY <1>1, <1>4, <2>1, <2>2
<1>13. /\ x < o + b /\ o + b <= x + PageSize
       /\ n = it - 1 /\ x = (n - 1) * PageSize /\ b = Len(buffer) /\ o = entry.Offset
  BY <1>4, <1>5, <1>6, <1>7, <1>8
<1> WITNESS n \in Nat \ {0}, x \in Nat, b \in Nat, o \in Nat
<1> QED
  BY <1>9, <1>10, <1>11, <1>12, <1>13

(* A strict caller that has as many bytes as the index says has the record *)
(* the index means.                                                        *)
LEMMA CompleteCanBeHad ==
  ASSUME IInv, RInv, pc \in {"read", "parse"}, ~ ExtentReadable, Complete
  PROVE  CanBeHad
<1>1. PICK m : Located /\ Wanted(m) /\ entry = toc[m]
  BY DEF RInv
<1>2. PICK n \in Nat \ {0}, x \in Nat, s \in Nat, o \in Nat :
        /\ x = (n - 1) * PageSize /\ s = Len(buffer) /\ o = entry.Offset
        /\ x < o + s /\ o + s <= x + PageSize
        /\ \A q \in 0 .. n - 1 : HasPage(ls.LogicalID + q)
        /\ \/ s = entry.Size
           \/ s < entry.Size /\ o + s = x + PageSize /\ ~ HasPage(ls.LogicalID + n)
  BY Stopped
<1>3. s = ls.Size /\ entry.Size \in Nat /\ ls.LogicalID \in Nat
  BY <1>2 DEF Complete, IInv, TypeOK, TocEntries, Locations
<1>4. (o + s - 1) \div PageSize = n - 1
  <2>1. PICK r \in PageOffsets : o + s - 1 = x + r
    <3>1. o + s - 1 - x \in PageOffsets /\ o + s - 1 = x + (o + s - 1 - x)
      BY <1>2 DEF PageOffsets
    <3> QED
      BY <3>1
  <2>2. n - 1 \in Nat /\ o + s - 1 = (n - 1) * PageSize + r
    BY <1>2, <2>1
  <2> QED
    BY <2>2, DivisionUnique
<1>5. ASSUME NEW p \in ls.LogicalID .. ls.LogicalID + (n - 1) PROVE HasPage(p)
  <2>1. p - ls.LogicalID \in 0 .. n - 1 /\ p = ls.LogicalID + (p - ls.LogicalID)
    BY <1>3
  <2> QED
    BY <1>2, <2>1
<1>6. WholeRecord(allocMap, ls.LogicalID, entry.Offset, ls.Size)
  BY <1>2, <1>3, <1>4, <1>5 DEF WholeRecord, HasPage
<1>7. entry.Size = ls.Size \/ CutIn(entry)
  <2> SUFFICES ASSUME s < entry.Size, o + s = x + PageSize, ~ HasPage(ls.LogicalID + n)
               PROVE  CutIn(entry)
    BY <1>2, <1>3
  <2>1. o + s = n * PageSize + 0
    <3>1. n \in Int /\ PageSize \in Int
      OBVIOUS
    <3>2. n * PageSize \in Int /\ n * PageSize = (n - 1) * PageSize + PageSize
      BY <3>1
    <3> QED
      BY <1>2, <3>2
  <2>2. (o + s) \div PageSize = n /\ (o + s) % PageSize = 0
    <3>1. 0 \in PageOffsets /\ n \in Nat
      BY DEF PageOffsets
    <3>2. PICK z \in PageOffsets : z = 0
      BY <3>1
    <3>3. o + s = n * PageSize + z
      BY <2>1, <3>2
    <3> QED
      BY <3>1, <3>2, <3>3, DivisionUnique
  <2> QED
    BY <1>2, <1>3, <2>2 DEF CutIn
<1> QED
  BY <1>1, <1>6, <1>7 DEF CanBeHad

(* When its reads stop with another number of bytes than the index says,   *)
(* the record cannot be had.                                               *)
LEMMA IncompleteCannot ==
  ASSUME IInv, RInv, pc = "read", ~ ExtentReadable, ~ Complete
  PROVE  ~ CanBeHad
<1> SUFFICES ASSUME CanBeHad PROVE FALSE
  OBVIOUS
<1>1. /\ entry.Size = ls.Size \/ CutIn(entry)
      /\ WholeRecord(allocMap, ls.LogicalID, entry.Offset, ls.Size)
  <2>1. PICK m : /\ Wanted(m)
                 /\ toc[m].Size = ls.Size \/ CutIn(toc[m])
                 /\ WholeRecord(allocMap, ls.LogicalID, toc[m].Offset, ls.Size)
    BY DEF CanBeHad
  <2>2. PICK k : Wanted(k) /\ entry = toc[k]
    BY DEF RInv
  <2>3. toc \in Seq(TocEntries)
    BY TocsAssumption DEF IInv, TypeOK
  <2>4. k = m
    BY <2>1, <2>2, <2>3, WantedOnce
  <2> QED
    BY <2>1, <2>2, <2>4
<1>2. PICK n \in Nat \ {0}, x \in Nat, b \in Nat, o \in Nat :
        /\ x = (n - 1) * PageSize /\ b = Len(buffer) /\ o = entry.Offset
        /\ x < o + b /\ o + b <= x + PageSize
        /\ \A q \in 0 .. n - 1 : HasPage(ls.LogicalID + q)
        /\ \/ b = entry.Size
           \/ b < entry.Size /\ o + b = x + PageSize /\ ~ HasPage(ls.LogicalID + n)
  BY Stopped
<1>3. PICK s \in Nat, l \in Nat : s = ls.Size /\ l = ls.LogicalID
  BY DEF IInv, TypeOK, Locations
<1>4. b # s /\ entry.Size \in Nat
  BY <1>2, <1>3 DEF Complete, IInv, TypeOK, TocEntries
<1>5. CASE b < s
  <2>1. o + b = x + PageSize /\ ~ HasPage(l + n)
    BY <1>1, <1>2, <1>3, <1>4, <1>5 DEF CutIn
  <2>2. n * PageSize = x + PageSize
    <3>1. n \in Int /\ PageSize \in Int
      OBVIOUS
    <3>2. n * PageSize = (n - 1) * PageSize + PageSize
      BY <3>1
    <3> QED
      BY <1>2, <3>2
  <2>3. PICK a \in Nat : a = o + s - 1 /\ a >= n * PageSize
    <3>1. o + s - 1 \in Nat /\ o + s - 1 >= x + PageSize
      BY <1>5, <2>1
    <3> QED
      BY <2>2, <3>1
  <2>4. PICK d \in Nat : d = a \div PageSize /\ d >= n
    BY <2>3, DivAtLeast
  <2>5. l + n \in l .. l + d
    BY <2>4
  <2> QED
    BY <1>1, <1>2, <1>3, <2>1, <2>3, <2>4, <2>5 DEF WholeRecord, HasPage
<1>6. CASE b > s
  <2>1. CutIn(entry)
    BY <1>1, <1>2, <1>3, <1>4, <1>6
  <2>2. PICK a \in Nat : a = o + s /\ a < x + PageSize
    BY <1>2, <1>6
  <2>3. PICK d \in Nat : d = a \div PageSize /\ d <= n - 1
    <3>1. n - 1 \in Nat /\ a < (n - 1) * PageSize + PageSize
      BY <1>2, <2>2
    <3> QED
      BY <3>1, DivAtMost
  <2>4. d \in 0 .. n - 1
    BY <2>3
  <2> QED
    BY <1>2, <1>3, <2>1, <2>2, <2>3, <2>4 DEF CutIn
<1> QED
  BY <1>2, <1>3, <1>4, <1>5, <1>6

-----------------------------------------------------------------------------
(* RInv is kept by every step.                                             *)
LEMMA InitRInv == Init => RInv
BY DEF Init, RInv

LEMMA RefuseRInv == IInv /\ RInv /\ Refuse => RInv'
<1> SUFFICES ASSUME IInv, RInv, Refuse PROVE RInv'
  OBVIOUS
<1>1. /\ pc' = "refused" /\ ~ Located
      /\ UNCHANGED <<allocMap, toc, ls, strict, extents, it>>
  BY DEF Refuse, inputs, collect
<1>2. ~ CanBeHad'
  BY <1>1 DEF CanBeHad, Located, LocationValid, FirstPageReadable, Hits
<1> QED
  BY <1>1, <1>2 DEF RInv

LEMMA LocateRInv == IInv /\ RInv /\ Locate => RInv'
<1> SUFFICES ASSUME IInv, RInv, Locate PROVE RInv'
  OBVIOUS
<1>1. /\ pc' = "collect" /\ Located
      /\ UNCHANGED <<allocMap, toc, ls, strict, extents, it>>
      /\ \E m : Wanted(m) /\ entry' = toc[m]
  BY DEF Locate, inputs, Wanted
<1>2. Hits' = Hits /\ Located' = Located
  BY <1>1 DEF Hits, Located, LocationValid, FirstPageReadable
<1>3. \E m : Wanted(m)' /\ entry' = toc'[m]
  BY <1>1, <1>2 DEF Wanted
<1> QED
  BY <1>1, <1>2, <1>3 DEF RInv

LEMMA CollectRInv == IInv /\ RInv /\ Collect => RInv'
<1> SUFFICES ASSUME IInv, RInv, Collect PROVE RInv'
  OBVIOUS
<1>1. /\ pc = "collect" /\ it = 1 /\ currentSize \in Nat \ {0}
      /\ logicalpage = ls.LogicalID + Len(extents)
      /\ inpageOffset \in PageOffsets /\ logicalpage \in LogicalPages
      /\ extents \in Seq(Extents) /\ Len(extents) \in Nat /\ ls.LogicalID \in Nat
      /\ allocMap \in AllocMaps
  BY DEF Collect, IInv, CollectInv, TypeOK, NothingRead, Locations
<1> DEFINE e == [page |-> allocMap[logicalpage], at |-> inpageOffset, count |-> Chunk]
<1>2. /\ Chunk \in 1 .. PageSize /\ inpageOffset + Chunk <= PageSize
      /\ currentSize - Chunk \in Nat
      /\ currentSize - Chunk > 0 => inpageOffset + Chunk = PageSize
  BY <1>1 DEF Chunk, PageOffsets
<1>3. /\ currentSize' = currentSize - Chunk
      /\ logicalpage' = IF currentSize' = 0 THEN logicalpage ELSE logicalpage + 1
      /\ pc' = IF currentSize' > 0 /\ logicalpage' \in LogicalPages THEN "collect" ELSE "read"
      /\ UNCHANGED <<allocMap, toc, ls, strict, entry, it>>
      /\ extents' = Append(extents, e)
  BY DEF Collect, inputs
<1>4. e \in Extents
  BY <1>1, <1>2 DEF Extents, AllocMaps
<1>5. e.at = inpageOffset /\ e.count = Chunk
  OBVIOUS
<1> HIDE DEF e
<1>6. /\ Len(extents') = Len(extents) + 1 /\ extents' # <<>>
      /\ extents'[Len(extents')] = e
  BY <1>1, <1>3, <1>4
<1>7. Hits' = Hits /\ Located' = Located
  BY <1>3 DEF Hits, Located, LocationValid, FirstPageReadable
<1>8. \E m : Wanted(m)' /\ entry' = toc'[m]
  BY <1>1, <1>3, <1>7 DEF Wanted, RInv
<1>9. pc' \in {"read", "parse"} /\ currentSize' > 0 =>
        /\ ls'.LogicalID + Len(extents') \notin LogicalPages
        /\ extents'[Len(extents')].at + extents'[Len(extents')].count = PageSize
  <2> SUFFICES ASSUME pc' \in {"read", "parse"}, currentSize' > 0
               PROVE  /\ ls'.LogicalID + Len(extents') \notin LogicalPages
                      /\ e.at + e.count = PageSize
    BY <1>6
  <2>1. logicalpage + 1 \notin LogicalPages
    BY <1>1, <1>2, <1>3
  <2>2. logicalpage + 1 = ls'.LogicalID + Len(extents')
    <3>1. ls'.LogicalID = ls.LogicalID
      BY <1>3
    <3> QED
      BY <1>1, <1>6, <3>1
  <2>3. inpageOffset + Chunk = PageSize
    BY <1>2, <1>3
  <2> QED
    BY <1>5, <2>1, <2>2, <2>3
<1> QED
  BY <1>1, <1>3, <1>6, <1>7, <1>8, <1>9 DEF RInv

LEMMA ReadRInv == IInv /\ RInv /\ ReadExtent => RInv'
<1> SUFFICES ASSUME IInv, RInv, ReadExtent PROVE RInv'
  OBVIOUS
<1>1. /\ pc = "read" /\ Readable(extents[it].page) /\ it' = it + 1 /\ it \in Nat \ {0}
      /\ pc' = pc /\ UNCHANGED <<allocMap, toc, ls, strict, extents, entry, currentSize>>
  BY DEF ReadExtent, ExtentReadable, inputs, collect, IInv, TypeOK
<1>2. Hits' = Hits /\ Located' = Located
  BY <1>1 DEF Hits, Located, LocationValid, FirstPageReadable
<1>3. \A j \in 1 .. it' - 1 : Readable(extents[j].page)
  <2> SUFFICES ASSUME NEW j \in 1 .. it' - 1 PROVE Readable(extents[j].page)
    OBVIOUS
  <2>1. j = it \/ j \in 1 .. it - 1
    BY <1>1
  <2> QED
    BY <1>1, <2>1 DEF RInv
<1> QED
  BY <1>1, <1>2, <1>3 DEF RInv, Wanted

LEMMA AcceptRInv == IInv /\ RInv /\ Accept => RInv'
<1> SUFFICES ASSUME IInv, RInv, Accept PROVE RInv'
  OBVIOUS
<1>1. /\ pc = "read" /\ pc' = "parse" /\ ~ ExtentReadable /\ (strict => Complete)
      /\ UNCHANGED <<allocMap, toc, ls, strict, extents, entry, currentSize, it, buffer>>
  BY DEF Accept, inputs, collect
<1>2. Hits' = Hits /\ Located' = Located /\ Complete' = Complete
      /\ ExtentReadable' = ExtentReadable
  BY <1>1 DEF Hits, Located, LocationValid, FirstPageReadable, Complete, ExtentReadable
<1> QED
  BY <1>1, <1>2 DEF RInv, Wanted

LEMMA RejectRInv == IInv /\ RInv /\ Reject => RInv'
<1> SUFFICES ASSUME IInv, RInv, Reject PROVE RInv'
  OBVIOUS
<1>1. /\ pc = "read" /\ pc' = "refused" /\ ~ ExtentReadable /\ ~ Complete
      /\ UNCHANGED <<allocMap, toc, ls, strict, extents, entry, currentSize, it, buffer>>
  BY DEF Reject, inputs, collect
<1>2. ~ CanBeHad
  BY <1>1, IncompleteCannot
<1>3. ~ CanBeHad'
  BY <1>1, <1>2, HadFrame
<1> QED
  BY <1>1, <1>3 DEF RInv

LEMMA OverrunRInv == RInv /\ Overrun => RInv'
BY DEF RInv, Overrun, inputs, collect

LEMMA StutterRInv == RInv /\ UNCHANGED vars => RInv'
<1> SUFFICES ASSUME RInv, UNCHANGED vars PROVE RInv'
  OBVIOUS
<1>1. UNCHANGED <<allocMap, toc, ls, strict, pc, extents, entry, currentSize, it, buffer>>
  BY DEF vars, inputs, collect
<1> QED
  BY <1>1, HadFrame DEF RInv, Complete, ExtentReadable

LEMMA NextRInv == IInv /\ RInv /\ [Next]_vars => RInv'
BY RefuseRInv, LocateRInv, CollectRInv, ReadRInv, OverrunRInv, AcceptRInv, RejectRInv, StutterRInv
DEF Next
-----------------------------------------------------------------------------
(* The fields of a record.                                                 *)
USE FieldAssumption

(* What is known of the extents of the record.                             *)
ExtentsOK ==
  /\ extents \in Seq(Extents)
  /\ entry.Offset \in Nat
  /\ ExtentsInOrder

LEMMA ExtentsOKHolds == IInv => ExtentsOK
BY DEF IInv, TypeOK, ExtentsOK, TocEntries

(* The extents tile the record: one ends where the next one starts, and    *)
(* the last one where the record's listed bytes end.                       *)
ExtentStop(u) == ExtentStart(u) + extents[u].count

LEMMA Tiling ==
  ASSUME ExtentsOK, NEW u \in 1 .. Len(extents)
  PROVE  /\ extents[u] \in Extents
         /\ extents[u].count \in 1 .. PageSize
         /\ extents[u].at \in Nat
         /\ extents[u].at + extents[u].count <= PageSize
         /\ extents[u].page \in PageNumbers
         /\ ExtentStart(u) \in Int
         /\ u = 1 => ExtentStart(u) = 0
         /\ u < Len(extents) => ExtentStop(u) = ExtentStart(u + 1)
         /\ u = Len(extents) => ExtentStop(u) = ListedBytes
<1>1. /\ extents[u] \in Extents /\ Len(extents) \in Nat /\ u \in DOMAIN extents
      /\ entry.Offset \in Nat /\ extents # <<>>
  BY DEF ExtentsOK
<1>2. /\ extents[u].at = IF u = 1 THEN entry.Offset ELSE 0
      /\ u < Len(extents) => extents[u].at + extents[u].count = PageSize
  BY <1>1 DEF ExtentsOK, ExtentsInOrder
<1>3. /\ extents[u].count \in 1 .. PageSize /\ extents[u].at \in Nat
      /\ extents[u].at + extents[u].count <= PageSize /\ extents[u].page \in PageNumbers
  BY <1>1 DEF Extents, PageOffsets
<1>4. (u - 1) * PageSize \in Int /\ u * PageSize = (u - 1) * PageSize + PageSize
  <2>1. u \in Int /\ PageSize \in Int
    BY <1>1
  <2>2. u * PageSize \in Int /\ (u - 1) * PageSize = u * PageSize - PageSize
    BY <2>1
  <2> QED
    BY <2>1, <2>2
<1>5. ExtentStart(u) \in Int /\ (u = 1 => ExtentStart(u) = 0)
  <2>1. (u - 1) * PageSize - entry.Offset \in Int
    BY <1>1, <1>4
  <2> QED
    BY <2>1 DEF ExtentStart
<1>6. PICK x \in Int : x = (u - 1) * PageSize
  BY <1>4
<1>7. u * PageSize = x + PageSize /\ ExtentStart(u) = x + extents[u].at - entry.Offset
  BY <1>1, <1>2, <1>4, <1>6 DEF ExtentStart
<1>8. u < Len(extents) => ExtentStop(u) = ExtentStart(u + 1)
  <2> SUFFICES ASSUME u < Len(extents) PROVE ExtentStop(u) = ExtentStart(u + 1)
    OBVIOUS
  <2>1. u \in Nat /\ u + 1 # 1 /\ (u + 1) - 1 = u
    BY <1>1
  <2>2. ExtentStart(u + 1) = u * PageSize - entry.Offset
    BY <2>1 DEF ExtentStart
  <2>3. ExtentStart(u + 1) = (x + PageSize) - entry.Offset
    BY <1>7, <2>2
  <2>4. ExtentStop(u) = x + extents[u].at - entry.Offset + extents[u].count
    BY <1>7 DEF ExtentStop
  <2>5. extents[u].at + extents[u].count = PageSize
    BY <1>2
  <2>6. extents[u].at \in Int /\ extents[u].count \in Int /\ entry.Offset \in Int /\ x \in Int
    BY <1>1, <1>3, <1>6
  <2> QED
    BY <2>3, <2>4, <2>5, <2>6
<1>9. u = Len(extents) => ExtentStop(u) = ListedBytes
  <2> SUFFICES ASSUME u = Len(extents) PROVE ExtentStop(u) = ListedBytes
    OBVIOUS
  <2>1. ListedBytes = x - entry.Offset + extents[u].at + extents[u].count
    BY <1>1, <1>6 DEF ListedBytes
  <2>2. ExtentStop(u) = x + extents[u].at - entry.Offset + extents[u].count
    BY <1>7 DEF ExtentStop
  <2>3. extents[u].at \in Int /\ extents[u].count \in Int /\ entry.Offset \in Int /\ x \in Int
    BY <1>1, <1>3, <1>6
  <2> QED
    BY <2>1, <2>2, <2>3
<1> QED
  BY <1>1, <1>3, <1>5, <1>8, <1>9

-----------------------------------------------------------------------------
(* Where the extents before ext end.                                       *)
Passed == IF ext <= Len(extents) THEN ExtentStart(ext) ELSE ListedBytes

(* The loop invariant.  Until a part is found currentOff is a place in the *)
(* record; afterwards recoffset equals it, and while something is missing  *)
(* the last part runs to the end of its extent.                            *)
LoopInv ==
  fpc \in {"cut", "fetch"} =>
    /\ recextents = <<>> =>
         /\ recoffset = field.off
         /\ recsize = field.size
         /\ extents # <<>> => currentOff = Passed
         /\ extents = <<>> => currentOff = 0
         /\ recoffset >= currentOff
    /\ recextents # <<>> =>
         /\ recoffset = currentOff
         /\ recsize > 0 =>
              LET p == recextents[Len(recextents)]
              IN  p.at + p.count = extents[ext - 1].at + extents[ext - 1].count

FInv ==
  /\ FieldTypeOK
  /\ fpc # "idle" => pc = "parse"
  /\ fpc = "idle" => recextents = <<>> /\ ext = 1
  /\ Len(recextents) < ext
  /\ PartsInOrder
  /\ FieldConserved
  /\ LoopInv
  /\ fpc = "fetch" => ext > Len(extents) \/ recsize = 0

LEMMA NoValueType == NoValue \in [ok : BOOLEAN, bytes : Seq(PageNumbers \X PageOffsets)]
BY DEF NoValue

LEMMA FieldInitFInv == FieldInit => FInv
<1> SUFFICES ASSUME FieldInit PROVE FInv
  OBVIOUS
<1>1. FieldTypeOK
  BY NoValueType DEF FieldInit, Init, FieldTypeOK
<1> QED
  BY <1>1 DEF FieldInit, Init, FInv, PartsInOrder, FieldConserved, LoopInv

(* The bytes of an extent.                                                 *)
LEMMA ExtentBytesType ==
  ASSUME NEW e \in Extents
  PROVE  /\ ExtentBytes(e) \in Seq(PageNumbers \X PageOffsets)
         /\ Len(ExtentBytes(e)) = e.count
         /\ \A k \in 1 .. e.count : ExtentBytes(e)[k] = <<e.page, e.at + k - 1>>
<1>1. /\ e.page \in PageNumbers /\ e.at \in PageOffsets /\ e.count \in Nat
      /\ e.at + e.count <= PageSize
  BY DEF Extents
<1>2. \A k \in 1 .. e.count : <<e.page, e.at + k - 1>> \in PageNumbers \X PageOffsets
  BY <1>1 DEF PageOffsets
<1>3. PICK b : b = [k \in 1 .. e.count |-> <<e.page, e.at + k - 1>>]
  OBVIOUS
<1>4. b \in [1 .. e.count -> PageNumbers \X PageOffsets]
  BY <1>2, <1>3
<1>5. \A k \in 1 .. e.count : b[k] = <<e.page, e.at + k - 1>>
  BY <1>3
<1>6. b \in Seq(PageNumbers \X PageOffsets) /\ Len(b) = e.count
  BY <1>1, <1>4
<1> QED
  BY <1>3, <1>5, <1>6 DEF ExtentBytes

(* Steps that read the record happen before there is a field.              *)
LEMMA ReadFInv == IInv' /\ FInv /\ Next /\ UNCHANGED fieldVars => FInv'
<1> SUFFICES ASSUME IInv', FInv, Next, UNCHANGED fieldVars PROVE FInv'
  OBVIOUS
<1>1. pc # "parse"
  BY DEF Next, Refuse, Locate, Collect, ReadExtent, Overrun, Accept, Reject
<1>2. fpc = "idle" /\ recextents = <<>> /\ ext = 1
  BY <1>1 DEF FInv
<1>3. Len(extents') \in Nat
  BY DEF IInv, TypeOK
<1>4. FieldTypeOK'
  BY <1>2, <1>3 DEF FInv, FieldTypeOK, fieldVars, loop
<1> QED
  BY <1>2, <1>4 DEF FInv, fieldVars, loop, PartsInOrder, FieldConserved, LoopInv

(* The parser asks for a field.                                            *)
LEMMA AskFInv == IInv /\ FInv /\ AskField => FInv'
<1> SUFFICES ASSUME IInv, FInv, AskField PROVE FInv'
  OBVIOUS
<1>1. PICK off \in FieldOffsets, size \in FieldSizes :
        field' = [off |-> off, size |-> size] /\ recoffset' = off /\ recsize' = size
  BY DEF AskField
<1>2. off \in Nat /\ size \in Nat
  OBVIOUS
<1>3. /\ fpc' = "cut" /\ ext' = 1 /\ currentOff' = 0 /\ recextents' = <<>>
      /\ nextPart' = 1 /\ value' = NoValue /\ pc = "parse" /\ UNCHANGED vars
  BY DEF AskField
<1>4. ExtentsOK /\ Len(extents) \in Nat
  BY ExtentsOKHolds DEF ExtentsOK
<1>5. extents' = extents /\ entry' = entry /\ pc' = pc
  BY <1>3 DEF vars, collect
<1>6. FieldTypeOK'
  BY <1>1, <1>2, <1>3, <1>4, <1>5, NoValueType DEF FieldTypeOK
<1>7. PartsInOrder' /\ FieldConserved'
  BY <1>1, <1>2, <1>3 DEF PartsInOrder, FieldConserved, PartsEnd
<1>8. LoopInv'
  <2>1. extents # <<>> => 1 \in 1 .. Len(extents)
    BY <1>4 DEF ExtentsOK
  <2>2. extents # <<>> => ExtentStart(1) = 0
    BY <1>4, <2>1, Tiling
  <2> QED
    BY <1>1, <1>2, <1>3, <1>4, <1>5, <2>1, <2>2 DEF LoopInv, Passed, ExtentStart
<1> QED
  BY <1>3, <1>5, <1>6, <1>7, <1>8 DEF FInv

(* An extent passed over: it ends before the field starts.                 *)
LEMMA MissFInv == IInv /\ FInv /\ CutMiss => FInv'
<1> SUFFICES ASSUME IInv, FInv, CutMiss PROVE FInv'
  OBVIOUS
<1>1. /\ fpc = "cut" /\ ext \in 1 .. Len(extents) /\ recsize > 0 /\ ~ Hit
      /\ currentOff' = currentOff + extents[ext].count /\ ext' = ext + 1
      /\ UNCHANGED <<vars, fpc, field, recoffset, recsize, recextents, nextPart, value>>
      /\ recoffset \in Nat /\ currentOff \in Nat
  BY DEF CutMiss, InLoop, FInv, FieldTypeOK
<1>2. ExtentsOK /\ Len(extents) \in Nat
  BY ExtentsOKHolds DEF ExtentsOK
<1>3. /\ extents[ext].count \in 1 .. PageSize
      /\ ExtentStart(ext) \in Int
      /\ ext < Len(extents) => ExtentStop(ext) = ExtentStart(ext + 1)
      /\ ext = Len(extents) => ExtentStop(ext) = ListedBytes
  BY <1>1, <1>2, Tiling
<1>4. recextents = <<>>
  <2>1. SUFFICES ASSUME recextents # <<>> PROVE FALSE
    OBVIOUS
  <2>2. recoffset = currentOff
    BY <1>1, <2>1 DEF FInv, LoopInv
  <2> QED
    BY <1>1, <1>3, <2>2 DEF Hit
<1>5. /\ recoffset = field.off /\ recsize = field.size /\ recoffset >= currentOff
      /\ currentOff = ExtentStart(ext)
  BY <1>1, <1>4 DEF FInv, LoopInv, Passed
<1>6. recoffset >= currentOff'
  BY <1>1, <1>3, <1>5 DEF Hit
<1>7. currentOff' = IF ext + 1 <= Len(extents) THEN ExtentStart(ext + 1) ELSE ListedBytes
  BY <1>1, <1>2, <1>3, <1>5 DEF ExtentStop
<1>8. extents' = extents /\ entry' = entry /\ pc' = pc
  BY <1>1 DEF vars, collect
<1>9. LoopInv'
  BY <1>1, <1>4, <1>5, <1>6, <1>7, <1>8
  DEF LoopInv, Passed, ExtentStart, ListedBytes
<1>10. FieldTypeOK'
  BY <1>1, <1>2, <1>3, <1>8 DEF FInv, FieldTypeOK
<1>11. PartsInOrder' /\ FieldConserved'
  BY <1>1, <1>4, <1>5, <1>8 DEF FInv, PartsInOrder, FieldConserved, PartsEnd
<1>12. Len(recextents') < ext'
  BY <1>1, <1>4
<1> QED
  BY <1>1, <1>8, <1>9, <1>10, <1>11, <1>12 DEF FInv

(* A part of the field is in this extent.                                  *)
LEMMA HitFInv == IInv /\ FInv /\ CutHit => FInv'
<1> SUFFICES ASSUME IInv, FInv, CutHit PROVE FInv'
  OBVIOUS
<1> DEFINE part == [page |-> extents[ext].page, at |-> extents[ext].at + Inside,
                    count |-> Cursize]
           n == Len(recextents)
<1>1. /\ fpc = "cut" /\ ext \in 1 .. Len(extents) /\ recsize \in Nat \ {0} /\ Hit
      /\ recextents' = Append(recextents, part)
      /\ recsize' = recsize - Cursize /\ currentOff' = currentOff + Cursize
      /\ recoffset' = currentOff' /\ ext' = ext + 1
      /\ UNCHANGED <<vars, fpc, field, nextPart, value>>
      /\ recoffset \in Nat /\ currentOff \in Nat /\ recextents \in Seq(Extents)
      /\ field \in [off : Nat, size : Nat] /\ n \in Nat /\ n < ext
  BY DEF CutHit, InLoop, FInv, FieldTypeOK
<1>2. ExtentsOK /\ Len(extents) \in Nat /\ DOMAIN extents = 1 .. Len(extents)
  BY ExtentsOKHolds DEF ExtentsOK
<1>3. n \in Nat /\ ext \in Nat /\ recsize \in Nat \ {0} /\ field.off \in Int /\ field.size \in Int
  BY <1>1, <1>2
<1>4. /\ extents[ext].count \in 1 .. PageSize /\ extents[ext].at \in Nat
      /\ extents[ext].at + extents[ext].count <= PageSize
      /\ extents[ext].page \in PageNumbers
      /\ ExtentStart(ext) \in Int /\ (ext = 1 => ExtentStart(ext) = 0)
  BY <1>1, <1>2, Tiling
<1>5. /\ Inside \in Nat /\ Inside < extents[ext].count
      /\ Cursize \in 1 .. extents[ext].count - Inside
      /\ recsize - Cursize \in Nat
      /\ recsize - Cursize > 0 => Inside + Cursize = extents[ext].count
  <2>1. Inside \in Nat /\ Inside < extents[ext].count /\ extents[ext].count \in Nat
    <3>1. PICK c \in Nat : c = extents[ext].count
      BY <1>4
    <3>2. currentOff + c > recoffset /\ recoffset >= currentOff
      BY ONLY <1>1, <3>1 DEF Hit
    <3>3. recoffset - currentOff \in Nat /\ recoffset - currentOff < c
      BY ONLY <1>1, <3>2, c \in Nat
    <3> QED
      BY ONLY <3>1, <3>3 DEF Inside
  <2>2. Cursize = IF Inside + recsize > extents[ext].count
                    THEN extents[ext].count - Inside ELSE recsize
    BY DEF Cursize
  <2> HIDE DEF part, n
  <2> QED
    BY <1>3, <2>1, <2>2
<1>6. part \in Extents
  BY <1>4, <1>5 DEF Extents, PageOffsets
<1>7. /\ recextents' \in Seq(Extents) /\ Len(recextents') = n + 1 /\ recextents' # <<>>
      /\ recextents'[n + 1] = part /\ \A j \in 1 .. n : recextents'[j] = recextents[j]
      /\ DOMAIN recextents' = 1 .. n + 1 /\ DOMAIN recextents = 1 .. n
  BY <1>1, <1>6
<1>8. /\ part.page = extents[ext].page /\ part.at = extents[ext].at + Inside
      /\ part.count = Cursize
  OBVIOUS
<1> HIDE DEF part, n
<1>9. extents' = extents /\ entry' = entry /\ pc' = pc
  BY <1>1 DEF vars, collect
<1>10. FieldTypeOK'
  <2>1. ext' \in 1 .. Len(extents') + 1
    BY <1>1, <1>2, <1>9
  <2>2. Cursize \in Nat /\ currentOff \in Nat /\ currentOff' = currentOff + Cursize
    BY <1>1, <1>4, <1>5
  <2>3. recsize' \in Nat /\ currentOff' \in Nat /\ recoffset' \in Nat
    BY <1>1, <1>5, <2>2
  <2> QED
    BY <1>1, <1>7, <2>1, <2>3 DEF FInv, FieldTypeOK
<1>11. /\ n = 0 => Inside = field.off - ExtentStart(ext) /\ recsize = field.size
       /\ n > 0 => /\ Inside = 0
                   /\ recextents[n].at + recextents[n].count
                        = extents[ext - 1].at + extents[ext - 1].count
  <2>1. CASE recextents = <<>>
    <3>1. extents # <<>> /\ n = 0
      BY <1>1, <1>2, <2>1 DEF n
    <3>2. recoffset = field.off /\ recsize = field.size /\ currentOff = ExtentStart(ext)
      BY <1>1, <2>1, <3>1 DEF FInv, LoopInv, Passed
    <3> QED
      BY <3>1, <3>2 DEF Inside
  <2>2. CASE recextents # <<>>
    <3>1. n > 0
      BY <1>1, <2>2 DEF n
    <3>2. /\ recoffset = currentOff
          /\ recextents[n].at + recextents[n].count = extents[ext - 1].at + extents[ext - 1].count
      BY <1>1, <2>2 DEF FInv, LoopInv, n
    <3> QED
      BY <1>1, <3>1, <3>2 DEF Inside
  <2> QED
    BY <2>1, <2>2
<1>12. FirstExt' = ext - n /\ FirstExt = ext - n
  BY <1>1, <1>7 DEF FirstExt, n
<1>13. PartsInOrder'
  <2> SUFFICES ASSUME NEW j \in 1 .. n + 1, NEW u \in Int, u = ext - n + j - 1
               PROVE  /\ u \in 1 .. Len(extents)
                      /\ recextents'[j].page = extents[u].page
                      /\ recextents'[j].at - extents[u].at =
                           IF j = 1 THEN field.off - ExtentStart(u) ELSE 0
                      /\ recextents'[j].at + recextents'[j].count
                           <= extents[u].at + extents[u].count
                      /\ j < n + 1 =>
                           recextents'[j].at + recextents'[j].count
                             = extents[u].at + extents[u].count
    <3>1. \A j \in 1 .. n + 1 : ext - n + j - 1 \in Int
      BY <1>3
    <3>2. field' = field /\ \A u : ExtentStart(u)' = ExtentStart(u)
      BY <1>1, <1>9 DEF ExtentStart
    <3> QED
      BY <1>2, <1>7, <1>9, <1>12, <3>1, <3>2 DEF PartsInOrder
  <2>1. CASE j = n + 1
    <3>1. u = ext /\ recextents'[j] = part
      BY <1>1, <1>7, <2>1
    <3>2. part.at - extents[ext].at = Inside
      BY <1>4, <1>5, <1>8
    <3>3. part.at - extents[ext].at = IF j = 1 THEN field.off - ExtentStart(ext) ELSE 0
      BY <1>11, <1>3, <2>1, <3>2
    <3>4. part.at + part.count <= extents[ext].at + extents[ext].count
      BY <1>4, <1>5, <1>8
    <3> QED
      BY <1>1, <1>8, <1>3, <2>1, <3>1, <3>3, <3>4
  <2>2. CASE j \in 1 .. n
    <3>1. /\ u \in 1 .. Len(extents)
          /\ recextents[j].page = extents[u].page
          /\ recextents[j].at - extents[u].at =
               IF j = 1 THEN field.off - ExtentStart(u) ELSE 0
          /\ recextents[j].at + recextents[j].count <= extents[u].at + extents[u].count
          /\ j < n => recextents[j].at + recextents[j].count = extents[u].at + extents[u].count
      BY <1>2, <1>7, <1>12, <2>2 DEF FInv, PartsInOrder, n
    <3>2. j = n => u = ext - 1
      BY <1>1
    <3>3. recextents[j].at + recextents[j].count = extents[u].at + extents[u].count
      BY <1>1, <1>11, <2>2, <3>1, <3>2
    <3>4. recextents'[j] = recextents[j]
      BY <1>7, <2>2
    <3> QED
      BY <3>1, <3>3, <3>4
  <2> QED
    BY <1>3, <2>1, <2>2
<1>14. FieldConserved'
  <2>1. PartsEnd' = ExtentStart(ext) + (part.at - extents[ext].at) + part.count
    <3>1. ext' - 1 = ext
      BY <1>1
    <3> QED
      BY <1>7, <1>9, <3>1 DEF PartsEnd, ExtentStart
  <2>2. PartsEnd' = ExtentStart(ext) + Inside + Cursize
    BY <1>4, <1>5, <1>8, <2>1
  <2>3. ExtentStart(ext) + Inside + recsize = field.off + field.size
    <3>1. CASE n = 0
      BY <1>1, <1>4, <1>5, <1>11, <3>1
    <3>2. CASE n > 0
      <4>1. ext - 1 \in 1 .. Len(extents) /\ ext - 1 < Len(extents) /\ (ext - 1) + 1 = ext
        BY <1>1, <1>2, <3>2
      <4>2. /\ ExtentStop(ext - 1) = ExtentStart(ext) /\ ExtentStart(ext - 1) \in Int
            /\ extents[ext - 1].at \in Nat /\ extents[ext - 1].count \in 1 .. PageSize
        BY <1>2, <4>1, Tiling
      <4>3. n \in 1 .. n /\ recextents # <<>> /\ recextents[n] \in Extents
        BY <1>1, <1>7, <3>2 DEF n
      <4>4. PartsEnd = ExtentStart(ext - 1) + (recextents[n].at - extents[ext - 1].at)
                         + recextents[n].count
        BY <4>3 DEF PartsEnd, n
      <4>5. recextents[n].at \in Int /\ recextents[n].count \in Int
        BY <4>3 DEF Extents, PageOffsets
      <4>6. PartsEnd = ExtentStart(ext)
        BY <1>11, <3>2, <4>2, <4>4, <4>5 DEF ExtentStop
      <4>7. PartsEnd + recsize = field.off + field.size
        BY <1>1 DEF FInv, FieldConserved
      <4> QED
        BY <1>1, <1>4, <1>11, <3>2, <4>6, <4>7
    <3> QED
      BY <1>1, <3>1, <3>2
  <2>4. PartsEnd' + (recsize - Cursize) = field.off + field.size
    BY <1>1, <1>4, <1>5, <2>2, <2>3
  <2> QED
    BY <1>1, <2>4 DEF FieldConserved
<1>15. LoopInv'
  <2>1. recextents'[Len(recextents')] = part /\ ext' - 1 = ext
    BY <1>1, <1>7
  <2>2. recsize' > 0 => part.at + part.count = extents[ext].at + extents[ext].count
    BY <1>1, <1>4, <1>5, <1>8
  <2> QED
    BY <1>1, <1>7, <1>9, <2>1, <2>2 DEF LoopInv
<1>16. Len(recextents') < ext'
  BY <1>1, <1>7
<1> QED
  BY <1>1, <1>9, <1>10, <1>13, <1>14, <1>15, <1>16 DEF FInv

(* The steps that leave the parts alone.                                   *)
LEMMA RestFInv ==
  IInv /\ FInv /\ (CutEnd \/ FetchPart \/ FetchEnd \/ UNCHANGED allVars) => FInv'
<1> SUFFICES ASSUME IInv, FInv, CutEnd \/ FetchPart \/ FetchEnd \/ UNCHANGED allVars
             PROVE  FInv'
  OBVIOUS
<1>1. UNCHANGED <<vars, field, loop>>
  BY DEF CutEnd, FetchPart, FetchEnd, allVars, fieldVars
<1>2. \/ fpc = "cut" /\ fpc' = "fetch" /\ ~ InLoop
      \/ fpc = "fetch" /\ fpc' = "fetched"
      \/ fpc' = fpc
  BY Zenon DEF CutEnd, FetchPart, FetchEnd, allVars, fieldVars
<1>8. /\ value' \in [ok : BOOLEAN, bytes : Seq(PageNumbers \X PageOffsets)]
      /\ nextPart' \in Nat \ {0}
  <2>1. /\ value \in [ok : BOOLEAN, bytes : Seq(PageNumbers \X PageOffsets)]
        /\ nextPart \in Nat \ {0} /\ recextents \in Seq(Extents)
    BY DEF FInv, FieldTypeOK
  <2>2. CASE FetchPart
    <3>1. nextPart \in DOMAIN recextents
      BY <2>1, <2>2 DEF FetchPart, PartReadable
    <3>2. recextents[nextPart] \in Extents
      BY <2>1, <3>1
    <3>3. ExtentBytes(recextents[nextPart]) \in Seq(PageNumbers \X PageOffsets)
      BY <3>2, ExtentBytesType
    <3>4. value.bytes \o ExtentBytes(recextents[nextPart]) \in Seq(PageNumbers \X PageOffsets)
      BY ONLY <2>1, <3>3, ConcatProperties
    <3>5. PICK S : S = Seq(PageNumbers \X PageOffsets)
      OBVIOUS
    <3>6. PICK b \in S : /\ b = value.bytes \o ExtentBytes(recextents[nextPart])
                        /\ value' = [value EXCEPT !.bytes = b]
      BY <2>2, <3>4, <3>5 DEF FetchPart
    <3>7. nextPart' \in Nat \ {0}
      BY <2>1, <2>2 DEF FetchPart
    <3>8. value \in [ok : BOOLEAN, bytes : S]
      BY <2>1, <3>5
    <3>9. value' \in [ok : BOOLEAN, bytes : S]
      BY <3>6, <3>8
    <3> QED
      BY <3>5, <3>7, <3>9
  <2>3. CASE FetchEnd
    BY <2>1, <2>3, NoValueType DEF FetchEnd
  <2>4. CASE CutEnd \/ UNCHANGED allVars
    BY <2>1, <2>4 DEF CutEnd, allVars, fieldVars
  <2> QED
    BY <2>2, <2>3, <2>4
<1>3. FieldTypeOK'
  BY <1>1, <1>2, <1>8 DEF FInv, FieldTypeOK, loop, vars, collect
<1>4. PartsInOrder' /\ FieldConserved' /\ LoopInv'
  BY <1>1, <1>2
  DEF FInv, PartsInOrder, FieldConserved, LoopInv, FirstExt, PartsEnd, Passed,
      ExtentStart, ListedBytes, loop, vars, collect
<1>5. fpc' = "fetch" => ext > Len(extents) \/ recsize = 0
  BY <1>2 DEF FInv, FieldTypeOK, InLoop
<1>6. /\ fpc' # "idle" => pc = "parse"
      /\ fpc' = "idle" => recextents = <<>> /\ ext = 1
      /\ Len(recextents) < ext
  BY <1>2 DEF FInv
<1>7. /\ pc' = pc /\ extents' = extents /\ ext' = ext /\ recsize' = recsize
      /\ recextents' = recextents
  BY <1>1 DEF loop, vars, collect
<1> QED
  BY <1>3, <1>4, <1>5, <1>6, <1>7 DEF FInv

-----------------------------------------------------------------------------
(* Asking for fields leaves the reading of the record alone.               *)
THEOREM FieldInvariance == FieldSpec => [](IInv /\ FInv)
<1>1. FieldInit => IInv /\ FInv
  BY InitIInv, FieldInitFInv DEF FieldInit
<1>2. IInv /\ [FieldNext]_allVars => IInv'
  <2>1. [FieldNext]_allVars => [Next]_vars
    BY DEF FieldNext, AskField, CutHit, CutMiss, CutEnd, FetchPart, FetchEnd, allVars
  <2>2. IInv /\ [Next]_vars => IInv'
    BY LocateIInv, CollectIInv, ReadExtentIInv, OtherIInv DEF Next
  <2> QED
    BY <2>1, <2>2
<1>3. IInv /\ FInv /\ [FieldNext]_allVars => FInv'
  BY <1>2, ReadFInv, AskFInv, MissFInv, HitFInv, RestFInv DEF FieldNext
<1> QED
  BY <1>1, <1>2, <1>3, PTL DEF FieldSpec

(* The parts of a field never leave the page their extent is on.           *)
THEOREM FieldTypeCorrect == FieldSpec => []FieldTypeOK
BY FieldInvariance, PTL DEF FInv

(* CreateFieldExtents picks consecutive parts of the record, the first at  *)
(* the field's offset.                                                     *)
THEOREM PartsCorrect == FieldSpec => []PartsInOrder
BY FieldInvariance, PTL DEF FInv

(* CreateFieldExtents neither skips nor repeats a byte of the field.       *)
THEOREM FieldSizeCorrect == FieldSpec => []FieldConserved
BY FieldInvariance, PTL DEF FInv

LEMMA FoundAll == IInv /\ FInv => FieldMaximal
<1> SUFFICES ASSUME IInv, FInv, fpc = "fetch", recsize > 0
             PROVE  PartsEnd >= ListedBytes
  BY DEF FieldMaximal
<1> DEFINE n == Len(recextents)
           m == ext - 1
<1>1. ExtentsOK /\ Len(extents) \in Nat /\ (Len(extents) = 0 <=> extents = <<>>)
  BY ExtentsOKHolds DEF ExtentsOK
<1>2. /\ ext = Len(extents) + 1 /\ recextents \in Seq(Extents) /\ n \in Nat /\ n < ext
      /\ field.off \in Nat
  BY <1>1 DEF FInv, FieldTypeOK
<1>3. CASE recextents = <<>>
  BY <1>1, <1>2, <1>3 DEF FInv, LoopInv, PartsEnd, Passed, ListedBytes
<1>4. CASE recextents # <<>>
  <2>1. m \in 1 .. Len(extents) /\ m = Len(extents) /\ n \in DOMAIN recextents
    BY <1>1, <1>2, <1>4
  <2>2. /\ ExtentStop(m) = ListedBytes /\ ExtentStart(m) \in Int
        /\ extents[m].at \in Nat /\ extents[m].count \in 1 .. PageSize
    BY <1>1, <2>1, Tiling
  <2>3. recextents[n].at + recextents[n].count = extents[m].at + extents[m].count
    BY <1>4 DEF FInv, LoopInv
  <2>4. PartsEnd = ExtentStart(m) + (recextents[n].at - extents[m].at) + recextents[n].count
    BY <1>4 DEF PartsEnd
  <2>5. recextents[n] \in Extents
    BY <1>2, <2>1
  <2>6. recextents[n].at \in Int /\ recextents[n].count \in Int
    BY <2>5 DEF Extents, PageOffsets
  <2> HIDE DEF n, m
  <2> QED
    BY <2>2, <2>3, <2>4, <2>6 DEF ExtentStop
<1> QED
  BY <1>3, <1>4

(* A field comes back short only when the record itself ends: what the     *)
(* extents have of it is all found.                                        *)
THEOREM FieldComplete == FieldSpec => []FieldMaximal
BY FieldInvariance, FoundAll, PTL

-----------------------------------------------------------------------------
(* The value read later.  Where in the record the first n parts end.       *)
PartsTo(n) ==
  IF n = 0 THEN field.off
  ELSE ExtentStart(FirstExt + n - 1)
         + (recextents[n].at - extents[FirstExt + n - 1].at) + recextents[n].count

(* While the parts are read, the bytes read are the record's, from the     *)
(* offset of the field on.                                                 *)
FetchInv ==
  /\ fpc = "cut" => nextPart = 1 /\ value = NoValue
  /\ fpc = "fetch" =>
       /\ value.ok = FALSE
       /\ nextPart \in 1 .. Len(recextents) + 1
       /\ field.off + Len(value.bytes) = PartsTo(nextPart - 1)
       /\ \A k \in 1 .. Len(value.bytes) :
            value.bytes[k] = ByteOf(allocMap, ls.LogicalID, entry.Offset, field.off + k)
  /\ ValueIsParsedSlice

(* The n-th part starts where the parts before it end.                     *)
LEMMA PartPlace ==
  ASSUME IInv, FInv, fpc # "idle", NEW n \in 1 .. Len(recextents),
         NEW u, u = FirstExt + n - 1
  PROVE  /\ u \in 1 .. Len(extents)
         /\ recextents[n] \in Extents
         /\ recextents[n].page = allocMap[ls.LogicalID + u - 1]
         /\ recextents[n].page = extents[u].page
         /\ PartsTo(n - 1) \in Int
         /\ entry.Offset + PartsTo(n - 1) = (u - 1) * PageSize + recextents[n].at
         /\ PartsTo(n) = PartsTo(n - 1) + recextents[n].count
<1>1. /\ ExtentsOK /\ Len(extents) \in Nat /\ DOMAIN extents = 1 .. Len(extents)
      /\ recextents \in Seq(Extents) /\ Len(recextents) \in Nat
      /\ DOMAIN recextents = 1 .. Len(recextents)
      /\ field.off \in Nat /\ ext \in Nat /\ FirstExt \in Int
  BY ExtentsOKHolds DEF ExtentsOK, FInv, FieldTypeOK, FirstExt
<1>2. /\ u \in 1 .. Len(extents)
      /\ recextents[n].page = extents[u].page
      /\ recextents[n].at - extents[u].at = IF n = 1 THEN field.off - ExtentStart(u) ELSE 0
  BY <1>1 DEF FInv, PartsInOrder
<1>3. recextents[n] \in Extents
  BY <1>1
<1>4. /\ recextents[n].at \in Int /\ recextents[n].count \in Int
      /\ extents[u].at \in Int /\ ExtentStart(u) \in Int
  <2>1. extents[u].at \in Nat /\ ExtentStart(u) \in Int
    BY <1>1, <1>2, Tiling
  <2>2. recextents[n].at \in Int /\ recextents[n].count \in Int
    BY <1>3 DEF Extents, PageOffsets
  <2> QED
    BY <2>1, <2>2
<1>5. PartsTo(n - 1) = ExtentStart(u) + (recextents[n].at - extents[u].at)
  <2>1. CASE n = 1
    BY <1>1, <1>2, <1>4, <2>1 DEF PartsTo
  <2>2. CASE n > 1
    <3>1. n - 1 \in 1 .. Len(recextents) /\ n - 1 < Len(recextents)
      BY <1>1, <2>2
    <3>2. PICK p : p = FirstExt + (n - 1) - 1
      OBVIOUS
    <3>3. /\ p \in 1 .. Len(extents)
          /\ recextents[n - 1].at + recextents[n - 1].count = extents[p].at + extents[p].count
      BY <1>1, <3>1, <3>2 DEF FInv, PartsInOrder
    <3>4. p + 1 = u /\ p < Len(extents)
      BY <1>1, <1>2, <3>2, <3>3
    <3>5. /\ ExtentStop(p) = ExtentStart(p + 1) /\ ExtentStart(p) \in Int
          /\ extents[p].at \in Int /\ extents[p].count \in Int
      BY <1>1, <3>3, <3>4, Tiling
    <3>6. recextents[n - 1].at \in Int /\ recextents[n - 1].count \in Int
      <4>1. recextents[n - 1] \in Extents
        BY <1>1, <3>1
      <4> QED
        BY <4>1 DEF Extents, PageOffsets
    <3>7. PartsTo(n - 1) = ExtentStart(p) + (recextents[n - 1].at - extents[p].at)
                             + recextents[n - 1].count
      BY <1>1, <3>1, <3>2 DEF PartsTo
    <3>8. PartsTo(n - 1) = ExtentStart(u)
      <4>1. ExtentStart(u) = ExtentStart(p) + extents[p].count
        BY <3>4, <3>5 DEF ExtentStop
      <4>2. PICK a \in Int : a = recextents[n - 1].at
        BY <3>6
      <4>3. PICK c \in Int : c = recextents[n - 1].count
        BY <3>6
      <4>4. a + c = extents[p].at + extents[p].count
        BY <3>3, <4>2, <4>3
      <4>5. ExtentStart(p) + (a - extents[p].at) + c = ExtentStart(p) + extents[p].count
        <5>1. PICK s \in Int, b \in Int, k \in Int :
                s = ExtentStart(p) /\ b = extents[p].at /\ k = extents[p].count
          BY <3>5
        <5>2. a + c = b + k
          BY ONLY <4>4, <5>1
        <5>3. s + (a - b) + c = s + k
          BY ONLY <5>2, a \in Int, c \in Int, s \in Int, b \in Int, k \in Int
        <5> QED
          BY ONLY <5>1, <5>3
      <4> QED
        BY <3>7, <4>1, <4>2, <4>3, <4>5
    <3> QED
      BY <1>2, <1>4, <2>2, <3>8
  <2> QED
    BY <2>1, <2>2
<1>6. PartsTo(n) = PartsTo(n - 1) + recextents[n].count
  <2>1. PartsTo(n) = ExtentStart(u) + (recextents[n].at - extents[u].at) + recextents[n].count
    BY <1>1 DEF PartsTo
  <2> QED
    BY <1>5, <2>1
<1>7. recextents[n].page = allocMap[ls.LogicalID + u - 1]
  BY <1>1, <1>2 DEF ExtentsOK, ExtentsInOrder
<1>8. PartsTo(n - 1) \in Int
  BY <1>4, <1>5
<1>9. entry.Offset + PartsTo(n - 1) = (u - 1) * PageSize + recextents[n].at
  <2>1. PICK x \in Int : x = (u - 1) * PageSize
    BY <1>1, <1>2
  <2>2. entry.Offset \in Nat /\ extents[u].at = IF u = 1 THEN entry.Offset ELSE 0
    BY <1>1, <1>2 DEF ExtentsOK, ExtentsInOrder
  <2>3. entry.Offset + ExtentStart(u) = x + extents[u].at
    <3>1. u = 1 => x = 0
      BY <2>1
    <3> QED
      BY <1>4, <2>1, <2>2, <3>1 DEF ExtentStart
  <2>4. PICK a \in Int : a = recextents[n].at
    BY <1>4
  <2>5. PICK b \in Int : b = extents[u].at
    BY <1>4
  <2>6. PICK s \in Int : s = ExtentStart(u)
    BY <1>4
  <2>7. PICK o \in Int : o = entry.Offset
    BY <2>2
  <2>8. PartsTo(n - 1) = s + (a - b) /\ o + s = x + b
    BY <1>5, <2>3, <2>4, <2>5, <2>6, <2>7
  <2>9. o + PartsTo(n - 1) = x + a
    BY <2>8
  <2> QED
    BY <2>1, <2>4, <2>7, <2>9
<1> QED
  BY <1>2, <1>3, <1>6, <1>7, <1>8, <1>9
LEMMA FieldInitFetchInv == FieldInit => FetchInv
BY DEF FieldInit, FetchInv, ValueIsParsedSlice

(* What was read and what comes next, joined.                              *)
LEMMA Joined ==
  ASSUME NEW S, NEW b \in Seq(S), NEW c \in Seq(S), NEW f, NEW off \in Nat,
         \A k \in 1 .. Len(b) : b[k] = f[off + k],
         \A k \in 1 .. Len(c) : c[k] = f[off + Len(b) + k]
  PROVE  /\ Len(b \o c) = Len(b) + Len(c)
         /\ \A k \in 1 .. Len(b \o c) : (b \o c)[k] = f[off + k]
<1>1. /\ Len(b \o c) = Len(b) + Len(c) /\ Len(b) \in Nat /\ Len(c) \in Nat
      /\ \A k \in 1 .. Len(b) + Len(c) :
           (b \o c)[k] = IF k <= Len(b) THEN b[k] ELSE c[k - Len(b)]
  BY ConcatProperties
<1>2. ASSUME NEW k \in 1 .. Len(b) + Len(c) PROVE (b \o c)[k] = f[off + k]
  <2>1. CASE k <= Len(b)
    BY <1>1, <2>1
  <2>2. CASE k > Len(b)
    <3>1. k - Len(b) \in 1 .. Len(c) /\ off + Len(b) + (k - Len(b)) = off + k
      BY <1>1, <2>2
    <3>2. c[k - Len(b)] = f[off + Len(b) + (k - Len(b))]
      BY <3>1
    <3> QED
      BY <1>1, <2>2, <3>1, <3>2
  <2> QED
    BY <1>1, <2>1, <2>2
<1> QED
  BY <1>1, <1>2

(* One part more.                                                          *)
LEMMA FetchPartFetchInv == IInv /\ FInv /\ FetchInv /\ FetchPart => FetchInv'
<1> SUFFICES ASSUME IInv, FInv, FetchInv, FetchPart PROVE FetchInv'
  OBVIOUS
<1>1. /\ fpc = "fetch" /\ fpc' = "fetch" /\ nextPart' = nextPart + 1
      /\ nextPart \in 1 .. Len(recextents)
      /\ value' = [value EXCEPT !.bytes = value.bytes \o ExtentBytes(recextents[nextPart])]
      /\ value.ok = FALSE
      /\ field.off + Len(value.bytes) = PartsTo(nextPart - 1)
      /\ UNCHANGED <<vars, field, loop>>
  BY DEF FetchPart, PartReadable, FetchInv, FInv, FieldTypeOK
<1>2. PICK u : u = FirstExt + nextPart - 1
  OBVIOUS
<1>3. PICK n \in 1 .. Len(recextents) : n = nextPart
  BY <1>1
<1>4. PICK p \in Extents : p = recextents[n]
  BY <1>1, <1>2, <1>3, PartPlace
<1>5. /\ u \in 1 .. Len(extents) /\ p.page = allocMap[ls.LogicalID + u - 1]
      /\ PartsTo(n - 1) \in Int
      /\ entry.Offset + PartsTo(n - 1) = (u - 1) * PageSize + p.at
      /\ PartsTo(n) = PartsTo(n - 1) + p.count
  BY <1>1, <1>2, <1>3, <1>4, PartPlace
<1>6. /\ p.page \in PageNumbers /\ p.at \in Nat /\ p.count \in Nat
      /\ p.at + p.count <= PageSize
  BY DEF Extents, PageOffsets
<1>7. PICK off \in Nat : off = field.off
  BY DEF FInv, FieldTypeOK
<1>8. entry.Offset \in Nat /\ ls.LogicalID \in Nat /\ Len(extents) \in Nat
  BY DEF IInv, TypeOK, TocEntries, Locations
<1>9. PICK b \in Seq(PageNumbers \X PageOffsets) : b = value.bytes
  BY DEF FInv, FieldTypeOK
<1>10. PICK c \in Seq(PageNumbers \X PageOffsets) :
         /\ c = ExtentBytes(p) /\ Len(c) = p.count
         /\ \A k \in 1 .. p.count : c[k] = <<p.page, p.at + k - 1>>
  BY ExtentBytesType
<1>11. off + Len(b) = PartsTo(n - 1) /\ Len(b) \in Nat
  BY <1>1, <1>3, <1>7, <1>9
<1>12. ASSUME NEW k \in 1 .. p.count
       PROVE  c[k] = ByteOf(allocMap, ls.LogicalID, entry.Offset, off + Len(b) + k)
  <2>1. PICK r \in PageOffsets : r = p.at + k - 1
    BY <1>6 DEF PageOffsets
  <2>2. u - 1 \in Nat
    BY <1>5, <1>8
  <2>3. PICK x \in Nat : x = (u - 1) * PageSize
    BY <2>2, TimesMonotone
  <2>4. entry.Offset + (off + Len(b) + k) - 1 = x + r
    <3>1. PICK m \in Nat : m = off + Len(b)
      BY <1>11
    <3>2. entry.Offset + m = x + p.at
      BY <1>5, <1>11, <2>3, <3>1
    <3>3. entry.Offset + (m + k) - 1 = x + p.at + k - 1
      BY <1>6, <1>8, <3>2
    <3> QED
      BY <1>6, <2>1, <2>3, <3>1, <3>3
  <2>5. /\ (entry.Offset + (off + Len(b) + k) - 1) \div PageSize = u - 1
        /\ (entry.Offset + (off + Len(b) + k) - 1) % PageSize = r
    BY <2>2, <2>3, <2>4, DivisionUnique
  <2>6. ls.LogicalID + (u - 1) = ls.LogicalID + u - 1
    BY <1>5, <1>8
  <2> QED
    BY <1>5, <1>10, <2>1, <2>5, <2>6 DEF ByteOf
<1>13. PICK f : f = [a \in Nat |-> ByteOf(allocMap, ls.LogicalID, entry.Offset, a)]
  OBVIOUS
<1>14. \A a \in Nat : f[a] = ByteOf(allocMap, ls.LogicalID, entry.Offset, a)
  BY <1>13
<1>15. \A k \in 1 .. Len(b) : b[k] = f[off + k]
  <2>1. \A k \in 1 .. Len(b) : b[k] = ByteOf(allocMap, ls.LogicalID, entry.Offset, off + k)
    BY <1>1, <1>7, <1>9 DEF FetchInv
  <2>2. \A k \in 1 .. Len(b) : off + k \in Nat
    OBVIOUS
  <2> QED
    BY <1>14, <2>1, <2>2
<1>16. \A k \in 1 .. Len(c) : c[k] = f[off + Len(b) + k]
  <2>1. \A k \in 1 .. Len(c) : off + Len(b) + k \in Nat
    BY <1>11
  <2> QED
    BY <1>10, <1>12, <1>14, <2>1
<1>17. PICK d : d = b \o c
  OBVIOUS
<1>18. /\ Len(d) = Len(b) + p.count
       /\ \A k \in 1 .. Len(d) : d[k] = f[off + k]
  BY <1>10, <1>15, <1>16, <1>17, Joined
<1>19. value'.bytes = d /\ value'.ok = FALSE
  <2>1. value \in [ok : BOOLEAN, bytes : Seq(PageNumbers \X PageOffsets)]
    BY DEF FInv, FieldTypeOK
  <2>2. PICK S : S = Seq(PageNumbers \X PageOffsets)
    OBVIOUS
  <2>3. value \in [ok : BOOLEAN, bytes : S]
    BY <2>1, <2>2
  <2>4. value' = [value EXCEPT !.bytes = d]
    BY <1>1, <1>3, <1>4, <1>9, <1>10, <1>17
  <2> QED
    BY <1>1, <2>3, <2>4
<1>20. \A k \in 1 .. Len(d) : d[k] = ByteOf(allocMap, ls.LogicalID, entry.Offset, off + k)
  <2>1. \A k \in 1 .. Len(d) : off + k \in Nat
    BY <1>6, <1>11, <1>18
  <2> QED
    BY <1>14, <1>18, <2>1
<1>21. off + Len(d) = PartsTo(n)
  BY <1>5, <1>6, <1>11, <1>18
<1>22. PartsTo(nextPart - 1)' = PartsTo(n)
  <2>1. nextPart' - 1 = n
    BY <1>1, <1>3
  <2> QED
    BY <1>1, <2>1 DEF PartsTo, FirstExt, ExtentStart, loop, vars, collect
<1>23. nextPart' \in 1 .. Len(recextents) + 1
  BY <1>1
<1>24. /\ field' = field /\ recextents' = recextents /\ allocMap' = allocMap
       /\ ls' = ls /\ entry' = entry
  BY <1>1 DEF loop, vars, inputs, collect
<1>25. /\ field'.off + Len(value'.bytes) = PartsTo(nextPart - 1)'
       /\ \A k \in 1 .. Len(value'.bytes) :
            value'.bytes[k] = ByteOf(allocMap', ls'.LogicalID, entry'.Offset, field'.off + k)
  BY <1>7, <1>19, <1>20, <1>21, <1>22, <1>24
<1> QED
  BY <1>1, <1>19, <1>23, <1>24, <1>25 DEF FetchInv, ValueIsParsedSlice, ByteOf
(* When a strict caller parses, it has as many bytes as the index says,    *)
(* and the extents they came from can be read.                             *)
LEMMA StrictParse ==
  ASSUME IInv, RInv, strict, pc = "parse"
  PROVE  /\ Len(buffer) = ls.Size
         /\ ListedBytes \in Int /\ ls.Size <= ListedBytes
         /\ \E n \in Nat \ {0}, x \in Nat :
              /\ n = it - 1 /\ x = (n - 1) * PageSize
              /\ entry.Offset + ls.Size <= x + PageSize
         /\ \A j \in 1 .. it - 1 : Readable(extents[j].page)
<1>1. Complete /\ ~ ExtentReadable
  BY DEF RInv
<1>2. PICK n \in Nat \ {0}, x \in Nat, b \in Nat, o \in Nat :
        /\ n = it - 1 /\ x = (n - 1) * PageSize /\ b = Len(buffer) /\ o = entry.Offset
        /\ o + b <= x + PageSize
        /\ ListedBytes \in Int /\ b <= ListedBytes
  BY <1>1, Stopped
<1> QED
  BY <1>1, <1>2 DEF Complete, RInv

(* The parts of a field that lies in the first ls.Size bytes are in those  *)
(* extents.                                                                *)
LEMMA PartsRead ==
  ASSUME IInv, RInv, FInv, strict, pc = "parse", fpc = "fetch",
         field.off + field.size <= ls.Size,
         PartsEnd \in Int, PartsEnd + recsize = field.off + field.size,
         PartsTo(Len(recextents)) = PartsEnd,
         NEW n \in 1 .. Len(recextents)
  PROVE  Readable(recextents[n].page)
<1>1. /\ Len(recextents) \in Nat /\ field.off \in Nat /\ field.size \in Nat
      /\ recsize \in Nat /\ ls.Size \in Nat /\ ext \in Nat /\ entry.Offset \in Nat
      /\ it \in Nat /\ FirstExt = ext - Len(recextents)
  BY DEF FInv, FieldTypeOK, IInv, TypeOK, Locations, TocEntries, FirstExt
<1>2. PICK m \in 1 .. Len(recextents) : m = Len(recextents)
  BY <1>1
<1>3. PICK u : u = FirstExt + m - 1
  OBVIOUS
<1>4. /\ u \in 1 .. Len(extents) /\ recextents[m] \in Extents
      /\ PartsTo(m - 1) \in Int
      /\ entry.Offset + PartsTo(m - 1) = (u - 1) * PageSize + recextents[m].at
      /\ PartsTo(m) = PartsTo(m - 1) + recextents[m].count
  BY <1>3, PartPlace
<1>5. recextents[m].at \in Nat /\ recextents[m].count \in Nat \ {0}
  BY <1>4 DEF Extents, PageOffsets
<1>6. PICK k \in Nat \ {0}, x \in Nat :
        k = it - 1 /\ x = (k - 1) * PageSize /\ entry.Offset + ls.Size <= x + PageSize
  BY StrictParse
<1>7. u <= k
  <2> SUFFICES ASSUME u > k PROVE FALSE
    BY <1>4
  <2>1. PICK y \in Nat : y = (u - 1) * PageSize
    BY <1>4, TimesMonotone
  <2>2. y >= k * PageSize
    <3>1. k \in Nat /\ u - 1 \in Nat /\ k <= u - 1
      BY <1>4
    <3> QED
      BY <2>1, <3>1, TimesMonotone
  <2>3. k * PageSize = x + PageSize
    <3>1. k \in Int /\ PageSize \in Int
      OBVIOUS
    <3>2. k * PageSize = (k - 1) * PageSize + PageSize
      BY <3>1
    <3> QED
      BY <1>6, <3>2
  <2>4. PICK o \in Nat, s \in Nat, p \in Int, a \in Nat, c \in Nat \ {0} :
          /\ o = entry.Offset /\ s = ls.Size /\ p = PartsTo(m - 1)
          /\ a = recextents[m].at /\ c = recextents[m].count
    BY <1>1, <1>4, <1>5
  <2>5. p + c <= s
    <3>1. PartsEnd <= ls.Size
      BY <1>1
    <3> QED
      BY <1>2, <1>4, <2>4, <3>1
  <2>6. o + p = y + a /\ o + s <= x + PageSize /\ y >= x + PageSize
    BY <1>4, <1>6, <2>1, <2>2, <2>3, <2>4
  <2> QED
    BY <2>5, <2>6
<1>8. PICK v : v = FirstExt + n - 1
  OBVIOUS
<1>9. v \in 1 .. Len(extents) /\ recextents[n].page = extents[v].page
  BY <1>8, PartPlace
<1>10. v \in 1 .. it - 1
  BY <1>1, <1>2, <1>3, <1>6, <1>7, <1>8, <1>9
<1> QED
  BY <1>9, <1>10, StrictParse

(* The end of the reads.                                                   *)
LEMMA FetchEndFetchInv == IInv /\ RInv /\ FInv /\ FetchInv /\ FetchEnd => FetchInv'
<1> SUFFICES ASSUME IInv, RInv, FInv, FetchInv, FetchEnd PROVE FetchInv'
  OBVIOUS
<1>1. /\ fpc = "fetch" /\ fpc' = "fetched" /\ ~ PartReadable
      /\ UNCHANGED <<vars, field, loop>>
      /\ value.ok = FALSE /\ nextPart \in 1 .. Len(recextents) + 1
      /\ field.off + Len(value.bytes) = PartsTo(nextPart - 1)
      /\ pc = "parse"
  BY DEF FetchEnd, FetchInv, FInv
<1> SUFFICES ASSUME strict, field.off + field.size <= ls.Size
             PROVE  value' = [ok |-> TRUE,
                              bytes |-> SubSeq(buffer, field.off + 1, field.off + field.size)]
  BY <1>1 DEF FetchInv, ValueIsParsedSlice, vars, inputs
<1>2. Len(buffer) = ls.Size /\ ListedBytes \in Int /\ ls.Size <= ListedBytes
  BY <1>1, StrictParse
<1>3. /\ Len(recextents) \in Nat /\ field.off \in Nat /\ field.size \in Nat
      /\ recsize \in Nat /\ ls.Size \in Nat /\ ext \in Nat
      /\ (recextents = <<>>) <=> (Len(recextents) = 0)
  BY DEF FInv, FieldTypeOK, IInv, TypeOK, Locations
<1>4. PartsTo(Len(recextents)) = PartsEnd /\ PartsEnd \in Int
  <2>1. CASE Len(recextents) = 0
    BY <1>3, <2>1 DEF PartsTo, PartsEnd
  <2>2. CASE Len(recextents) > 0
    <3>1. FirstExt + Len(recextents) - 1 = ext - 1
      BY <1>3 DEF FirstExt
    <3>2. PartsTo(Len(recextents)) = PartsEnd
      BY <1>3, <2>2, <3>1 DEF PartsTo, PartsEnd
    <3>3. PICK n \in 1 .. Len(recextents) : n = Len(recextents)
      BY <1>3, <2>2
    <3>4. PICK u : u = FirstExt + n - 1
      OBVIOUS
    <3>5. /\ PartsTo(n - 1) \in Int /\ PartsTo(n) = PartsTo(n - 1) + recextents[n].count
          /\ recextents[n] \in Extents
      BY <1>1, <3>4, PartPlace
    <3>6. recextents[n].count \in Int
      BY <3>5 DEF Extents
    <3> QED
      BY <3>2, <3>3, <3>5, <3>6
  <2> QED
    BY <1>3, <2>1, <2>2
<1>5. PartsEnd + recsize = field.off + field.size
  BY <1>1 DEF FInv, FieldConserved
<1>6. nextPart = Len(recextents) + 1
  <2> SUFFICES ASSUME nextPart \in 1 .. Len(recextents) PROVE FALSE
    BY <1>1, <1>3
  <2>1. Readable(recextents[nextPart].page)
    BY <1>1, <1>4, <1>5, PartsRead
  <2> QED
    BY <1>1, <1>3, <2>1 DEF PartReadable
<1>7. recsize = 0
  <2>1. FieldMaximal
    BY FoundAll
  <2> QED
    BY <1>1, <1>2, <1>3, <1>4, <1>5, <2>1 DEF FieldMaximal
<1>8. PICK b \in Seq(PageNumbers \X PageOffsets) :
        /\ b = value.bytes /\ Len(b) = field.size
        /\ \A k \in 1 .. Len(b) :
             b[k] = ByteOf(allocMap, ls.LogicalID, entry.Offset, field.off + k)
  <2>1. PICK b \in Seq(PageNumbers \X PageOffsets) : b = value.bytes
    BY DEF FInv, FieldTypeOK
  <2>2. Len(recextents) + 1 - 1 = Len(recextents)
    BY <1>3
  <2>3. PICK m \in Nat : m = Len(b)
    OBVIOUS
  <2>4. field.off + m = field.off + field.size
    BY <1>1, <1>3, <1>4, <1>5, <1>6, <1>7, <2>1, <2>2, <2>3
  <2>5. m = field.size
    BY <1>3, <2>4
  <2> QED
    BY <1>1, <2>1, <2>3, <2>5 DEF FetchInv
<1>9. b = SubSeq(buffer, field.off + 1, field.off + field.size)
  <2>1. /\ buffer \in Seq(PageNumbers \X PageOffsets)
        /\ \A k \in 1 .. Len(buffer) :
             buffer[k] = ByteOf(allocMap, ls.LogicalID, entry.Offset, k)
    BY DEF IInv, TypeOK, ReadInv
  <2>2. PICK off \in Nat : off = field.off
    BY <1>3
  <2>3. PICK size \in Nat : size = field.size /\ Len(b) = size
    BY <1>3, <1>8
  <2> DEFINE lo == off + 1
             hi == off + size
  <2>4. \A k \in lo .. hi : k \in 1 .. Len(buffer)
    <3>1. off + size <= Len(buffer) /\ Len(buffer) \in Nat
      BY <1>2, <1>3, <2>2, <2>3
    <3> QED
      BY <3>1
  <2>5. \A k \in lo .. hi : buffer[k] \in PageNumbers \X PageOffsets
    BY <2>1, <2>4
  <2>6. PICK c : c = SubSeq(buffer, lo, hi)
    OBVIOUS
  <2>7. /\ c \in Seq(PageNumbers \X PageOffsets)
        /\ Len(c) = IF lo <= hi THEN hi - lo + 1 ELSE 0
        /\ \A k \in 1 .. hi - lo + 1 : c[k] = buffer[lo + k - 1]
    <3>1. lo \in Int /\ hi \in Int
      OBVIOUS
    <3> HIDE DEF lo, hi
    <3> QED
      BY <2>5, <2>6, <3>1, SubSeqProperties
  <2>8. Len(c) = Len(b) /\ hi - lo + 1 = Len(b)
    <3>1. hi - lo + 1 = size /\ (~ (lo <= hi) => size = 0)
      OBVIOUS
    <3> HIDE DEF lo, hi
    <3> QED
      BY <2>3, <2>7, <3>1
  <2>9. ASSUME NEW k \in 1 .. Len(b) PROVE b[k] = c[k]
    <3>1. lo + k - 1 = off + k /\ off + k \in lo .. hi
      BY <2>3
    <3>2. c[k] = buffer[off + k]
      <4>1. k \in 1 .. hi - lo + 1
        BY <2>8
      <4> QED
        BY <2>7, <3>1, <4>1
    <3> QED
      BY <1>8, <2>1, <2>2, <2>4, <3>1, <3>2
  <2>10. b = c
    BY <2>7, <2>8, <2>9, SeqEqual
  <2> QED
    BY <2>2, <2>3, <2>6, <2>10
<1>10. value' = [value EXCEPT !.ok = TRUE]
  BY <1>1, <1>3, <1>6 DEF FetchEnd
<1>11. value \in [ok : BOOLEAN, bytes : Seq(PageNumbers \X PageOffsets)]
  BY DEF FInv, FieldTypeOK
<1>12. value' = [ok |-> TRUE, bytes |-> b]
  <2>1. PICK S : S = Seq(PageNumbers \X PageOffsets)
    OBVIOUS
  <2>2. value \in [ok : BOOLEAN, bytes : S]
    BY <1>11, <2>1
  <2> QED
    BY <1>8, <1>10, <2>2
<1> QED
  BY <1>9, <1>12

(* The other steps.                                                        *)
LEMMA OtherFetchInv ==
  ASSUME FInv, FetchInv,
         \/ Next /\ UNCHANGED fieldVars
         \/ AskField \/ CutHit \/ CutMiss \/ CutEnd
         \/ UNCHANGED allVars
  PROVE  FetchInv'
<1>1. CASE Next /\ UNCHANGED fieldVars
  <2>1. pc # "parse"
    BY <1>1 DEF Next, Refuse, Locate, Collect, ReadExtent, Overrun, Accept, Reject
  <2>2. fpc' = "idle"
    BY <1>1, <2>1 DEF FInv, fieldVars
  <2> QED
    BY <2>2 DEF FetchInv, ValueIsParsedSlice
<1>2. CASE AskField
  BY <1>2 DEF AskField, FetchInv, ValueIsParsedSlice
<1>3. CASE CutHit \/ CutMiss
  <2>1. /\ fpc' = "cut" /\ nextPart' = 1 /\ value' = NoValue
    BY <1>3 DEF CutHit, CutMiss, InLoop, FetchInv
  <2> QED
    BY <2>1 DEF FetchInv, ValueIsParsedSlice
<1>4. CASE CutEnd
  <2>1. /\ fpc' = "fetch" /\ nextPart' = 1 /\ value' = NoValue
        /\ Len(recextents') \in Nat /\ field'.off \in Nat
    BY <1>4 DEF CutEnd, FetchInv, FInv, FieldTypeOK, loop
  <2>2. value'.ok = FALSE /\ value'.bytes = <<>>
    BY <2>1 DEF NoValue
  <2>3. nextPart' \in 1 .. Len(recextents') + 1 /\ nextPart' - 1 = 0
    BY <2>1
  <2>4. PartsTo(nextPart - 1)' = field'.off
    BY <2>3 DEF PartsTo
  <2>5. Len(value'.bytes) = 0 /\ field'.off + Len(value'.bytes) = field'.off
    BY <2>1, <2>2
  <2> QED
    BY <2>1, <2>2, <2>3, <2>4, <2>5 DEF FetchInv, ValueIsParsedSlice
<1>5. CASE UNCHANGED allVars
  <2>1. /\ UNCHANGED <<allocMap, ls, strict, extents, entry, buffer>>
        /\ UNCHANGED <<fpc, field, ext, recextents, nextPart, value>>
    BY <1>5 DEF allVars, vars, inputs, collect, fieldVars, loop
  <2>2. PartsTo(nextPart - 1)' = PartsTo(nextPart - 1)
    BY <2>1 DEF PartsTo, FirstExt, ExtentStart
  <2>3. ValueIsParsedSlice'
    BY <2>1 DEF FetchInv, ValueIsParsedSlice
  <2> QED
    BY <2>1, <2>2, <2>3 DEF FetchInv, ByteOf
<1> QED
  BY <1>1, <1>2, <1>3, <1>4, <1>5

LEMMA FieldNextFetchInv ==
  IInv /\ RInv /\ FInv /\ FetchInv /\ [FieldNext]_allVars => FetchInv'
BY FetchPartFetchInv, FetchEndFetchInv, OtherFetchInv DEF FieldNext

LEMMA FieldIsNext == [FieldNext]_allVars => [Next]_vars
BY DEF FieldNext, AskField, CutHit, CutMiss, CutEnd, FetchPart, FetchEnd, allVars

LEMMA FieldNextInv ==
  IInv /\ RInv /\ FInv /\ FetchInv /\ [FieldNext]_allVars
    => (IInv /\ RInv /\ FInv /\ FetchInv)'
<1>1. IInv /\ [Next]_vars => IInv'
  BY LocateIInv, CollectIInv, ReadExtentIInv, OtherIInv DEF Next
<1>2. IInv /\ IInv' /\ FInv /\ [FieldNext]_allVars => FInv'
  BY ReadFInv, AskFInv, MissFInv, HitFInv, RestFInv DEF FieldNext
<1> QED
  BY <1>1, <1>2, FieldIsNext, NextRInv, FieldNextFetchInv

(* A field is printed as it was parsed: the value read back, part by part, *)
(* from the file is the slice of the buffer that the parser looked at.     *)
THEOREM ValueCorrect == FieldSpec => []ValueIsParsedSlice
<1>1. FieldInit => IInv /\ RInv /\ FInv /\ FetchInv
  BY InitIInv, InitRInv, FieldInitFInv, FieldInitFetchInv DEF FieldInit
<1>2. FetchInv => ValueIsParsedSlice
  BY DEF FetchInv
<1> QED
  BY <1>1, <1>2, FieldNextInv, PTL DEF FieldSpec

-----------------------------------------------------------------------------
(* Both readers.                                                           *)
USE PhysPagesAssumption, UnavailAssumption, TocsAssumption

(* The object python-cim looks for, when there is a TOC entry for it.      *)
ObjectWhole == WholeRecord(allocMap, ls.LogicalID, Py!Entry.Offset, ls.Size)

PyTypeOK ==
  /\ pyPc \in {"page", "append", "returned", "raised"}
  /\ i \in Nat \ {0}
  /\ data \in Seq(PageNumbers \X PageOffsets)

(* What is gathered is the object from its first byte on; while there is   *)
(* more to come it ends where a page ends, and every page up to there is   *)
(* in the file; it raises only when the object cannot be had.              *)
PyInv ==
  /\ PyTypeOK
  /\ pyPc = "page" => data = <<>> /\ i = 1
  /\ pyPc \in {"append", "returned"} =>
       /\ Py!FirstDataOK
       /\ \A k \in 1 .. Len(data) :
            data[k] = ByteOf(allocMap, ls.LogicalID, Py!Entry.Offset, k)
  /\ pyPc = "append" =>
       /\ Py!Entry.Offset + Len(data) = i * PageSize
       /\ Len(data) < ls.Size
       /\ \A q \in 0 .. i - 1 : Py!HasBuffer(ls.LogicalID + q)
  /\ pyPc = "returned" => Len(data) >= ls.Size /\ ObjectWhole
  /\ pyPc = "raised" => ~ (Py!FirstDataOK /\ ObjectWhole)

(* The entry python-cim takes is a valid one.                              *)
LEMMA PyEntry ==
  ASSUME toc \in Seq(TocEntries), Py!Hits # {}
  PROVE  /\ Py!Entry \in TocEntries
         /\ Py!Entry.Offset \in 1 .. PageSize - 1
         /\ Py!Entry.Size \in Nat
<1>1. Py!ParsedToc = toc /\ \A n \in DOMAIN toc : PyIsValid(toc[n])
  <2>1. Py!ParsedToc # <<>>
    BY DEF Py!Hits
  <2> QED
    BY <2>1 DEF Py!ParsedToc, Py!PyIsValid, PyIsValid
<1>2. Py!Hits \in SUBSET Nat
  BY <1>1 DEF Py!Hits
<1>3. \E m \in Py!Hits : \A n \in Py!Hits : m <= n
  BY <1>2, LeastNatural
<1>4. PICK m : m = CHOOSE n \in Py!Hits : \A h \in Py!Hits : n <= h
  OBVIOUS
<1>5. m \in Py!Hits
  BY <1>3, <1>4
<1>6. m \in DOMAIN toc /\ Py!Entry = toc[m]
  BY <1>1, <1>4, <1>5 DEF Py!Entry, Py!Hits
<1>7. toc[m] \in TocEntries /\ PyIsValid(toc[m])
  BY <1>1, <1>6
<1>8. /\ toc[m].Offset \in Nat /\ toc[m].Size \in Nat
      /\ toc[m].Offset < PageSize /\ toc[m].Offset # 0
  BY <1>7 DEF TocEntries, PyIsValid
<1> QED
  BY <1>6, <1>7, <1>8

(* The slice of the first page.                                            *)
LEMMA FirstSliceIs ==
  ASSUME allocMap \in AllocMaps, ls \in Locations, NEW e \in TocEntries,
         e.Offset \in 1 .. PageSize - 1, ls.LogicalID \in LogicalPages
  PROVE  LET s == Py!FirstSlice(e)
         IN  /\ s \in Seq(PageNumbers \X PageOffsets)
             /\ Len(s) = IF e.Offset + e.Size < PageSize THEN e.Size ELSE PageSize - e.Offset
             /\ \A k \in 1 .. Len(s) : s[k] = ByteOf(allocMap, ls.LogicalID, e.Offset, k)
<1>1. PICK n : n = (IF e.Offset + e.Size < PageSize THEN e.Offset + e.Size ELSE PageSize) - e.Offset
  OBVIOUS
<1>9. /\ n \in Nat
      /\ n = (IF e.Offset + e.Size < PageSize THEN e.Size ELSE PageSize - e.Offset)
      /\ e.Offset + n <= PageSize
  <2>1. e.Offset \in 1 .. PageSize - 1 /\ e.Size \in Nat
    BY DEF TocEntries
  <2> QED
    BY <1>1, <2>1
<1>2. PICK s : s = [k \in 1 .. n |-> <<allocMap[ls.LogicalID], e.Offset + k - 1>>]
  OBVIOUS
<1>3. Py!FirstSlice(e) = s
  BY <1>1, <1>2 DEF Py!FirstSlice
<1>4. \A k \in 1 .. n : e.Offset + k - 1 \in PageOffsets
  BY <1>9 DEF PageOffsets
<1>5. allocMap[ls.LogicalID] \in PageNumbers
  BY DEF AllocMaps
<1>6. s \in [1 .. n -> PageNumbers \X PageOffsets]
  BY <1>2, <1>4, <1>5
<1>7. s \in Seq(PageNumbers \X PageOffsets) /\ Len(s) = n
  BY <1>6, <1>9
<1>8. ASSUME NEW k \in 1 .. n PROVE s[k] = ByteOf(allocMap, ls.LogicalID, e.Offset, k)
  <2>1. PICK r \in PageOffsets : r = e.Offset + k - 1
    BY <1>4
  <2>2. r \div PageSize = 0 /\ r % PageSize = r
    BY DEF PageOffsets
  <2>3. ls.LogicalID + 0 = ls.LogicalID
    BY DEF Locations
  <2> QED
    BY <1>2, <2>1, <2>2, <2>3 DEF ByteOf
<1> QED
  BY <1>3, <1>7, <1>8, <1>9
-----------------------------------------------------------------------------
(* What the steps of python-cim leave alone.                               *)
PyKeeps == UNCHANGED <<allocMap, toc, ls>>

LEMMA PyFrame ==
  ASSUME PyKeeps
  PROVE  /\ Py!FirstDataOK' = Py!FirstDataOK
         /\ Py!Entry' = Py!Entry
         /\ ObjectWhole' = ObjectWhole
BY DEF PyKeeps, Py!FirstDataOK, Py!Entry, Py!HasBuffer, Py!Hits, Py!ParsedToc, Py!LogicalPages,
       Py!Readable, ObjectWhole, WholeRecord

(* What a page gives: its bytes come after those of the pages before.      *)
EndsPage(at, m, q) == at + m = q * PageSize
PageStart(l, n)    == SubSeq(Py!PageBytes(l), 1, n)

LEMMA PageBytesAre ==
  ASSUME allocMap \in AllocMaps, ls \in Locations, NEW at \in Nat, NEW q \in Nat,
         NEW n \in 1 .. PageSize, NEW m \in Nat, EndsPage(at, m, q),
         NEW l \in LogicalPages, l = ls.LogicalID + q
  PROVE  /\ PageStart(l, n) \in Seq(PageNumbers \X PageOffsets) /\ Len(PageStart(l, n)) = n
         /\ \A k \in 1 .. n : PageStart(l, n)[k] = ByteOf(allocMap, ls.LogicalID, at, m + k)
<1>2. PICK b : b = [k \in 1 .. PageSize |-> <<allocMap[l], k - 1>>]
  OBVIOUS
<1>3. Py!PageBytes(l) = b
  BY <1>2 DEF Py!PageBytes
<1>4. allocMap[l] \in PageNumbers
  BY DEF AllocMaps
<1>5. \A k \in 1 .. PageSize : b[k] = <<allocMap[l], k - 1>> /\ b[k] \in PageNumbers \X PageOffsets
  BY <1>2, <1>4 DEF PageOffsets
<1>6. PICK s : s = SubSeq(b, 1, n)
  OBVIOUS
<1>7. /\ s \in Seq(PageNumbers \X PageOffsets) /\ Len(s) = n
      /\ \A k \in 1 .. n : s[k] = b[k]
  <2>1. \A k \in 1 .. n : b[k] \in PageNumbers \X PageOffsets
    BY <1>5
  <2>2. 1 \in Int /\ n \in Int /\ 1 <= n /\ n - 1 + 1 = n
    OBVIOUS
  <2>3. \A k \in 1 .. n : 1 + k - 1 = k
    OBVIOUS
  <2> QED
    BY <1>6, <2>1, <2>2, <2>3, SubSeqProperties
<1>8. ASSUME NEW k \in 1 .. n PROVE s[k] = ByteOf(allocMap, ls.LogicalID, at, m + k)
  <2>1. PICK r \in PageOffsets : r = k - 1
    BY DEF PageOffsets
  <2>2. at + (m + k) - 1 = q * PageSize + r
    <3>1. PICK x \in Nat : x = q * PageSize
      BY TimesMonotone
    <3>2. at + (m + k) - 1 = x + r
      BY <2>1, <3>1 DEF EndsPage
    <3> QED
      BY <3>1, <3>2
  <2>3. /\ (at + (m + k) - 1) \div PageSize = q
        /\ (at + (m + k) - 1) % PageSize = r
    BY <2>2, DivisionUnique
  <2>4. s[k] = <<allocMap[l], r>>
    <3>1. k \in 1 .. PageSize
      OBVIOUS
    <3>2. b[k] = <<allocMap[l], k - 1>>
      BY <1>5, <3>1
    <3> QED
      BY <1>7, <2>1, <3>2
  <2> QED
    BY <2>3, <2>4 DEF ByteOf
<1>9. PageStart(l, n) = s
  BY <1>3, <1>6 DEF PageStart
<1> QED
  BY <1>7, <1>8, <1>9

(* The object ends in page q, and the pages up to there are in the file.   *)
LEMMA WholeUpTo ==
  ASSUME NEW at \in Nat, NEW n \in Nat, ls \in Locations, NEW q \in Nat, NEW r \in PageOffsets,
         at + n - 1 = q * PageSize + r,
         \A p \in 0 .. q : Py!HasBuffer(ls.LogicalID + p)
  PROVE  WholeRecord(allocMap, ls.LogicalID, at, n)
<1>1. (at + n - 1) \div PageSize = q
  BY DivisionUnique
<1>2. ASSUME NEW p \in ls.LogicalID .. ls.LogicalID + q
      PROVE  p \in LogicalPages /\ Readable(allocMap[p])
  <2>1. PICK l \in Nat : l = ls.LogicalID
    BY DEF Locations
  <2>2. p - l \in 0 .. q /\ l + (p - l) = p
    BY <2>1
  <2>3. Py!HasBuffer(p)
    BY <2>1, <2>2
  <2> QED
    BY <2>3 DEF Py!HasBuffer, Py!LogicalPages, Py!Readable, LogicalPages, Readable
<1> QED
  BY <1>1, <1>2 DEF WholeRecord

-----------------------------------------------------------------------------
LEMMA FirstPyInv ==
  ASSUME IInv, PyInv, PyKeeps,
         Py!FirstRaises \/ Py!FirstSuffices \/ Py!FirstPart
  PROVE  PyInv'
<1> DEFINE e == Py!Entry
           s == Py!FirstSlice(e)
<1>1. /\ allocMap \in AllocMaps /\ ls \in Locations /\ toc \in Seq(TocEntries)
      /\ ls.LogicalID \in Nat /\ ls.Size \in Nat
  BY DEF IInv, TypeOK, Locations
<1>2. pyPc = "page" /\ data = <<>> /\ i = 1 /\ i' = 1
  BY DEF PyInv, Py!FirstRaises, Py!FirstSuffices, Py!FirstPart
<1>3. CASE Py!FirstRaises
  <2>1. pyPc' = "raised" /\ data' = <<>> /\ ~ Py!FirstDataOK
    BY <1>2, <1>3 DEF Py!FirstRaises
  <2>2. ~ Py!FirstDataOK'
    BY <2>1, PyFrame
  <2> QED
    BY <1>2, <2>1, <2>2 DEF PyInv, PyTypeOK
<1>4. ASSUME Py!FirstDataOK
      PROVE  /\ e \in TocEntries /\ e.Offset \in 1 .. PageSize - 1 /\ e.Size \in Nat
             /\ e.Size >= ls.Size /\ Py!HasBuffer(ls.LogicalID)
             /\ ls.LogicalID \in LogicalPages
  <2>1. e.Size >= ls.Size /\ Py!HasBuffer(ls.LogicalID) /\ Py!Hits # {}
    BY <1>4 DEF Py!FirstDataOK
  <2> QED
    BY <1>1, <2>1, PyEntry DEF Py!HasBuffer, Py!LogicalPages, LogicalPages
<1>5. ASSUME Py!FirstDataOK
      PROVE  /\ s \in Seq(PageNumbers \X PageOffsets)
             /\ Len(s) = IF e.Offset + e.Size < PageSize THEN e.Size ELSE PageSize - e.Offset
             /\ \A k \in 1 .. Len(s) : s[k] = ByteOf(allocMap, ls.LogicalID, e.Offset, k)
  BY <1>1, <1>4, <1>5, FirstSliceIs
<1>6. CASE Py!FirstSuffices
  <2>1. /\ Py!FirstDataOK /\ Len(s) >= ls.Size /\ data' = s /\ pyPc' = "returned"
    BY <1>6 DEF Py!FirstSuffices
  <2>2. ObjectWhole
    <3>1. PICK at \in Nat : at = e.Offset /\ at >= 1 /\ at < PageSize
      BY <1>4, <2>1
    <3>2. at + ls.Size <= PageSize
      BY <1>1, <1>4, <1>5, <2>1, <3>1
    <3>3. at + ls.Size - 1 \in PageOffsets
      BY <1>1, <3>1, <3>2 DEF PageOffsets
    <3>4. at + ls.Size - 1 = 0 * PageSize + (at + ls.Size - 1)
      BY <1>1, <3>1
    <3>5. ls.LogicalID + 0 = ls.LogicalID
      BY <1>1
    <3>6. \A p \in 0 .. 0 : Py!HasBuffer(ls.LogicalID + p)
      BY <1>4, <2>1, <3>5
    <3>7. WholeRecord(allocMap, ls.LogicalID, at, ls.Size)
      BY <1>1, <3>3, <3>4, <3>6, WholeUpTo
    <3> QED
      BY <3>1, <3>7 DEF ObjectWhole
  <2>3. ObjectWhole' /\ Py!FirstDataOK' /\ Py!Entry' = e
    BY <2>1, <2>2, PyFrame
  <2>4. PyTypeOK'
    BY <1>2, <1>5, <2>1 DEF PyTypeOK
  <2>5. \A k \in 1 .. Len(data') : data'[k] = ByteOf(allocMap', ls'.LogicalID, Py!Entry'.Offset, k)
    BY <1>5, <2>1, <2>3 DEF PyKeeps
  <2> QED
    BY <2>1, <2>3, <2>4, <2>5 DEF PyInv, PyKeeps, ByteOf
<1>7. CASE Py!FirstPart
  <2>1. /\ Py!FirstDataOK /\ Len(s) < ls.Size /\ data' = s /\ pyPc' = "append"
    BY <1>7 DEF Py!FirstPart
  <2>2. e.Offset + Len(s) = 1 * PageSize
    BY <1>1, <1>4, <1>5, <2>1
  <2>3. Py!FirstDataOK' /\ Py!Entry' = e
    BY <2>1, PyFrame
  <2>4. PyTypeOK'
    BY <1>2, <1>5, <2>1 DEF PyTypeOK
  <2>5. \A k \in 1 .. Len(data') : data'[k] = ByteOf(allocMap', ls'.LogicalID, Py!Entry'.Offset, k)
    BY <1>5, <2>1, <2>3 DEF PyKeeps
  <2>6. \A q \in 0 .. i' - 1 : Py!HasBuffer(ls.LogicalID + q)
    <3>1. ls.LogicalID + 0 = ls.LogicalID /\ i' - 1 = 0
      BY <1>1, <1>2
    <3> QED
      BY <1>4, <2>1, <3>1
  <2>7. \A q : Py!HasBuffer(ls.LogicalID + q)' = Py!HasBuffer(ls.LogicalID + q)
    BY DEF PyKeeps, Py!HasBuffer, Py!LogicalPages, Py!Readable
  <2> HIDE DEF e, s
  <2>8. Py!Entry'.Offset + Len(data') = i' * PageSize /\ Len(data') < ls'.Size
    BY <1>2, <2>1, <2>2, <2>3 DEF PyKeeps
  <2> QED
    BY <2>1, <2>3, <2>4, <2>5, <2>6, <2>7, <2>8 DEF PyInv, PyKeeps, ByteOf
<1> QED
  BY <1>3, <1>6, <1>7
(* One page more.                                                          *)
LEMMA AppendPyInv ==
  ASSUME IInv, PyInv, PyKeeps, Py!AppendPage
  PROVE  PyInv'
<1>1. /\ allocMap \in AllocMaps /\ ls \in Locations /\ toc \in Seq(TocEntries)
      /\ ls.LogicalID \in Nat /\ ls.Size \in Nat
  BY DEF IInv, TypeOK, Locations
<1>2. /\ pyPc = "append" /\ Py!HasBuffer(ls.LogicalID + i) /\ Py!FirstDataOK
      /\ i' = i + 1 /\ i \in Nat \ {0}
      /\ data \in Seq(PageNumbers \X PageOffsets)
      /\ Py!Entry.Offset + Len(data) = i * PageSize
      /\ Len(data) < ls.Size /\ Len(data) \in Nat
      /\ \A q \in 0 .. i - 1 : Py!HasBuffer(ls.LogicalID + q)
      /\ \A k \in 1 .. Len(data) : data[k] = ByteOf(allocMap, ls.LogicalID, Py!Entry.Offset, k)
  BY DEF PyInv, PyTypeOK, Py!AppendPage, Py!NextPage
<1>3. PICK at \in Nat : at = Py!Entry.Offset /\ at >= 1 /\ at < PageSize
  <2>1. Py!Hits # {}
    BY <1>2 DEF Py!FirstDataOK
  <2>2. Py!Entry.Offset \in 1 .. PageSize - 1
    BY <1>1, <2>1, PyEntry
  <2> QED
    BY <2>2
<1>4. PICK m \in Nat : m = Len(data) /\ m < ls.Size
  BY <1>2
<1>5. PICK x \in Nat : x = i * PageSize /\ at + m = x
  BY <1>2, <1>3, <1>4, TimesMonotone
<1>6. PICK n \in 1 .. PageSize :
        /\ n = IF m + PageSize > ls.Size THEN ls.Size - m ELSE PageSize
        /\ m + n <= ls.Size
        /\ m + n < ls.Size => n = PageSize
  <2>1. PICK z \in Nat : z = ls.Size
    BY <1>1
  <2>2. m < z
    BY <1>4, <2>1
  <2>3. PICK n : n = IF m + PageSize > z THEN z - m ELSE PageSize
    OBVIOUS
  <2>4. n \in 1 .. PageSize /\ m + n <= z /\ (m + n < z => n = PageSize)
    <3>1. CASE m + PageSize > z
      BY <2>2, <2>3, <3>1
    <3>2. CASE ~ (m + PageSize > z)
      BY <2>2, <2>3, <3>2
    <3> QED
      BY <3>1, <3>2
  <2> QED
    BY <2>1, <2>3, <2>4
<1>7. PICK c \in Seq(PageNumbers \X PageOffsets) :
        /\ c = PageStart(ls.LogicalID + i, n) /\ Len(c) = n
        /\ \A k \in 1 .. n : c[k] = ByteOf(allocMap, ls.LogicalID, at, m + k)
  <2>1. ls.LogicalID + i \in LogicalPages
    BY <1>2 DEF Py!HasBuffer, Py!LogicalPages, LogicalPages
  <2>2. PICK q \in Nat : q = i
    BY <1>2
  <2>3. PICK l \in LogicalPages : l = ls.LogicalID + i
    BY <2>1
  <2>4. PICK c : c = PageStart(l, n)
    OBVIOUS
  <2>5. /\ c \in Seq(PageNumbers \X PageOffsets) /\ Len(c) = n
        /\ \A k \in 1 .. n : c[k] = ByteOf(allocMap, ls.LogicalID, at, m + k)
    <3>1. allocMap \in AllocMaps /\ ls \in Locations
      BY <1>1
    <3>2. EndsPage(at, m, q)
      BY <1>5, <2>2 DEF EndsPage
    <3>3. l = ls.LogicalID + q
      BY <2>2, <2>3
    <3>4. /\ PageStart(l, n) \in Seq(PageNumbers \X PageOffsets)
          /\ Len(PageStart(l, n)) = n
          /\ \A k \in 1 .. n : PageStart(l, n)[k] = ByteOf(allocMap, ls.LogicalID, at, m + k)
      <4>1. PageStart(l, n) \in Seq(PageNumbers \X PageOffsets)
        BY <3>1, <3>2, <3>3, PageBytesAre
      <4>2. Len(PageStart(l, n)) = n
        BY <3>1, <3>2, <3>3, PageBytesAre
      <4>3. \A k \in 1 .. n : PageStart(l, n)[k] = ByteOf(allocMap, ls.LogicalID, at, m + k)
        BY <3>1, <3>2, <3>3, PageBytesAre
      <4> QED
        BY <4>1, <4>2, <4>3
    <3> QED
      BY <2>4, <3>4, Zenon
  <2> QED
    BY <2>3, <2>4, <2>5
<1>8. PICK d : d = data \o c
  OBVIOUS
<1>9. data' = d
  <2>1. CASE m + PageSize > ls.Size
    BY <1>4, <1>6, <1>7, <1>8, <2>1 DEF Py!AppendPage, Py!NextPage, PageStart
  <2>2. CASE ~ (m + PageSize > ls.Size)
    <3>1. n = PageSize
      BY <1>6, <2>2
    <3>2. data' = data \o Py!PageBytes(ls.LogicalID + i)
      BY <1>4, <2>2 DEF Py!AppendPage, Py!NextPage
    <3>3. PICK b : b = Py!PageBytes(ls.LogicalID + i)
      OBVIOUS
    <3>4. SubSeq(b, 1, PageSize) = b
      <4>1. b = [k \in 1 .. PageSize |-> <<allocMap[ls.LogicalID + i], k - 1>>]
        BY <3>3 DEF Py!PageBytes
      <4>2. allocMap[ls.LogicalID + i] \in PageNumbers
        BY <1>1, <1>2 DEF Py!HasBuffer, Py!LogicalPages, LogicalPages, AllocMaps
      <4>3. b \in [1 .. PageSize -> PageNumbers \X PageOffsets]
        BY <4>1, <4>2 DEF PageOffsets
      <4>4. b \in Seq(PageNumbers \X PageOffsets) /\ Len(b) = PageSize
        BY <4>3
      <4> QED
        BY <4>4
    <3> QED
      BY <1>7, <1>8, <3>1, <3>2, <3>3, <3>4 DEF PageStart
  <2> QED
    BY <2>1, <2>2
<1>10. PICK f : f = [a \in Nat |-> ByteOf(allocMap, ls.LogicalID, at, a)]
  OBVIOUS
<1>11. \A a \in Nat : f[a] = ByteOf(allocMap, ls.LogicalID, at, a)
  BY <1>10
<1>12. /\ Len(d) = m + n /\ d \in Seq(PageNumbers \X PageOffsets)
       /\ \A k \in 1 .. Len(d) : d[k] = ByteOf(allocMap, ls.LogicalID, at, k)
  <2>1. \A k \in 1 .. Len(data) : data[k] = f[0 + k]
    <3>1. \A k \in 1 .. Len(data) : 0 + k = k /\ k \in Nat
      OBVIOUS
    <3> QED
      BY <1>2, <1>3, <1>11, <3>1
  <2>2. \A k \in 1 .. Len(c) : c[k] = f[0 + Len(data) + k]
    <3>1. \A k \in 1 .. n : 0 + Len(data) + k = m + k /\ m + k \in Nat
      BY <1>4
    <3> QED
      BY <1>7, <1>11, <3>1
  <2>3. /\ Len(data \o c) = Len(data) + Len(c)
        /\ \A k \in 1 .. Len(data \o c) : (data \o c)[k] = f[0 + k]
    BY <1>2, <2>1, <2>2, Joined
  <2>4. data \o c \in Seq(PageNumbers \X PageOffsets)
    BY ONLY <1>2, ConcatProperties
  <2>5. \A k \in 1 .. Len(d) : 0 + k = k /\ k \in Nat
    OBVIOUS
  <2> QED
    BY <1>4, <1>7, <1>8, <1>11, <2>3, <2>4, <2>5
<1>13. pyPc' = IF m + n < ls.Size THEN "append" ELSE "returned"
  BY <1>9, <1>12 DEF Py!AppendPage
<1>14. \A p \in 0 .. i : Py!HasBuffer(ls.LogicalID + p)
  <2>1. \A p \in 0 .. i : p = i \/ p \in 0 .. i - 1
    BY <1>2
  <2> QED
    BY <1>2, <2>1
<1>15. CASE m + n < ls.Size
  <2>1. at + Len(d) = (i + 1) * PageSize
    <3>1. (i + 1) * PageSize = i * PageSize + PageSize
      <4>1. i \in Int /\ PageSize \in Int
        BY <1>2
      <4> QED
        BY <4>1
    <3>2. at + (m + n) = x + PageSize
      BY <1>5, <1>6, <1>15
    <3> QED
      BY <1>5, <1>12, <3>1, <3>2
  <2>2. \A q : Py!HasBuffer(ls.LogicalID + q)' = Py!HasBuffer(ls.LogicalID + q)
    BY DEF PyKeeps, Py!HasBuffer, Py!LogicalPages, Py!Readable
  <2>3. i' \in Nat \ {0} /\ i' - 1 = i
    BY <1>2
  <2>4. pyPc' = "append" /\ Len(data') < ls'.Size
    BY <1>9, <1>12, <1>13, <1>15 DEF PyKeeps
  <2>5. Py!FirstDataOK' /\ Py!Entry' = Py!Entry
    BY <1>2, PyFrame
  <2> QED
    BY <1>2, <1>3, <1>9, <1>12, <1>14, <2>1, <2>2, <2>3, <2>4, <2>5
    DEF PyInv, PyTypeOK, PyKeeps, ByteOf
<1>16. CASE ~ (m + n < ls.Size)
  <2>1. m + n = ls.Size
    <3>1. PICK z \in Nat : z = ls.Size
      BY <1>1
    <3>2. m + n <= z /\ ~ (m + n < z)
      BY <1>6, <1>16, <3>1
    <3>3. m + n = z
      BY <3>2
    <3> QED
      BY <3>1, <3>3
  <2>2. PICK r \in PageOffsets : r = n - 1
    BY DEF PageOffsets
  <2>3. at + ls.Size - 1 = x + r
    BY <1>5, <2>1, <2>2
  <2>4. WholeRecord(allocMap, ls.LogicalID, at, ls.Size)
    BY <1>1, <1>2, <1>5, <1>14, <2>3, WholeUpTo
  <2>5. ObjectWhole
    BY <1>3, <2>4 DEF ObjectWhole
  <2>6. Py!FirstDataOK' /\ Py!Entry' = Py!Entry /\ ObjectWhole'
    BY <1>2, <2>5, PyFrame
  <2>7. pyPc' = "returned" /\ Len(data') >= ls'.Size /\ i' \in Nat \ {0}
    BY <1>1, <1>2, <1>9, <1>12, <1>13, <1>16, <2>1 DEF PyKeeps
  <2> QED
    BY <1>3, <1>9, <1>12, <2>6, <2>7 DEF PyInv, PyTypeOK, PyKeeps, ByteOf
<1> QED
  BY <1>15, <1>16

(* The next page cannot be had, and neither can the object.                *)
LEMMA RaisePyInv ==
  ASSUME IInv, PyInv, PyKeeps, Py!AppendRaises
  PROVE  PyInv'
<1>1. /\ pyPc = "append" /\ ~ Py!HasBuffer(ls.LogicalID + i) /\ pyPc' = "raised"
      /\ i' = i /\ data' = data /\ i \in Nat \ {0}
      /\ data \in Seq(PageNumbers \X PageOffsets) /\ Len(data) \in Nat
      /\ Py!Entry.Offset + Len(data) = i * PageSize /\ Len(data) < ls.Size
      /\ Py!FirstDataOK
  BY DEF PyInv, PyTypeOK, Py!AppendRaises, Py!NextPage
<1>2. /\ toc \in Seq(TocEntries) /\ ls.LogicalID \in Nat /\ ls.Size \in Nat
  BY DEF IInv, TypeOK, Locations
<1>3. PICK at \in Nat : at = Py!Entry.Offset
  <2>1. Py!Hits # {}
    BY <1>1 DEF Py!FirstDataOK
  <2>2. Py!Entry.Offset \in 1 .. PageSize - 1
    BY <1>2, <2>1, PyEntry
  <2> QED
    BY <2>2
<1>4. ~ ObjectWhole
  <2> SUFFICES ASSUME ObjectWhole PROVE FALSE
    OBVIOUS
  <2>1. PICK a \in Nat : a = at + ls.Size - 1
    BY <1>1, <1>2, <1>3
  <2>2. a >= i * PageSize
    <3>1. PICK x \in Nat : x = i * PageSize
      BY <1>1, TimesMonotone
    <3>2. at + Len(data) = x
      BY <1>1, <1>3, <3>1
    <3>3. a >= x
      BY <1>1, <1>2, <2>1, <3>2
    <3> QED
      BY <3>1, <3>3
  <2>3. a \div PageSize \in Nat /\ a \div PageSize >= i
    BY <1>1, <2>2, DivAtLeast
  <2>4. PICK d \in Nat : d = a \div PageSize /\ d >= i
    BY <2>3
  <2>5. ls.LogicalID + i \in ls.LogicalID .. ls.LogicalID + d
    BY <1>1, <1>2, <2>4
  <2>6. ls.LogicalID + i \in LogicalPages /\ Readable(allocMap[ls.LogicalID + i])
    BY <1>3, <2>1, <2>4, <2>5 DEF ObjectWhole, WholeRecord
  <2> QED
    BY <1>1, <2>6 DEF Py!HasBuffer, Py!LogicalPages, Py!Readable, LogicalPages, Readable
<1>5. ~ ObjectWhole'
  BY <1>4, PyFrame
<1> QED
  BY <1>1, <1>5 DEF PyInv, PyTypeOK

(* Once python-cim is done, nothing it made changes.                       *)
LEMMA StutterPyInv ==
  ASSUME PyInv, PyKeeps, UNCHANGED <<pyPc, data, i>>
  PROVE  PyInv'
<1>1. /\ Py!FirstDataOK' = Py!FirstDataOK /\ Py!Entry' = Py!Entry /\ ObjectWhole' = ObjectWhole
  BY PyFrame
<1>2. \A q : Py!HasBuffer(ls.LogicalID + q)' = Py!HasBuffer(ls.LogicalID + q)
  BY DEF PyKeeps, Py!HasBuffer, Py!LogicalPages, Py!Readable
<1> QED
  BY <1>1, <1>2 DEF PyInv, PyTypeOK, PyKeeps, ByteOf
-----------------------------------------------------------------------------
(* Both readers.  While python-cim reads, WMIParser has not begun.         *)
BInv == pyPc \in {"page", "append"} => pc = "locate"

ReadInvs == IInv /\ RInv /\ FInv /\ FetchInv
BothInv  == ReadInvs /\ PyInv /\ BInv

LEMMA BothInitInv == BothInit => BothInv
<1> SUFFICES ASSUME BothInit PROVE BothInv
  OBVIOUS
<1>1. ReadInvs
  BY InitIInv, InitRInv, FieldInitFInv, FieldInitFetchInv
  DEF BothInit, FieldInit, ReadInvs
<1>2. PyInv
  BY DEF BothInit, Py!Init, PyInv, PyTypeOK
<1>3. BInv
  BY DEF BothInit, FieldInit, Init, BInv
<1> QED
  BY <1>1, <1>2, <1>3 DEF BothInv

(* What the record is read from never changes.                             *)
LEMMA InputsStay ==
  [BothNext]_<<allVars, pyPc, data, i>> => PyKeeps /\ strict' = strict
<1>1. [Next]_vars => UNCHANGED inputs
  BY DEF Next, Refuse, Locate, Collect, ReadExtent, Overrun, Accept, Reject, vars
<1>2. [FieldNext]_allVars => UNCHANGED inputs
  BY <1>1, FieldIsNext
<1>3. Py!Next => PyKeeps
  BY DEF Py!Next, Py!FirstRaises, Py!FirstSuffices, Py!FirstPart, Py!AppendPage,
         Py!AppendRaises, PyKeeps
<1> QED
  BY <1>2, <1>3 DEF BothNext, PyKeeps, inputs

LEMMA BothNextInv == BothInv /\ [BothNext]_<<allVars, pyPc, data, i>> => BothInv'
<1> SUFFICES ASSUME BothInv, [BothNext]_<<allVars, pyPc, data, i>> PROVE BothInv'
  OBVIOUS
<1>1. PyKeeps /\ strict' = strict
  BY InputsStay
<1>2. CASE Py!Next /\ UNCHANGED <<strict, pc, collect, it, buffer, fieldVars>>
  <2>1. UNCHANGED allVars
    BY <1>1, <1>2 DEF allVars, vars, inputs, PyKeeps
  <2>2. ReadInvs'
    BY <2>1, FieldNextInv DEF BothInv, ReadInvs
  <2>3. PyInv'
    BY <1>1, <1>2, FirstPyInv, AppendPyInv, RaisePyInv DEF BothInv, ReadInvs, Py!Next
  <2>4. BInv'
    BY <1>2 DEF BothInv, BInv, Py!Next, Py!FirstRaises, Py!FirstSuffices, Py!FirstPart,
                Py!AppendPage, Py!AppendRaises
  <2> QED
    BY <2>2, <2>3, <2>4 DEF BothInv
<1>3. CASE PyRead /\ FieldNext /\ UNCHANGED <<pyPc, data, i>>
  <2>1. ReadInvs'
    BY <1>3, FieldNextInv DEF BothInv, ReadInvs
  <2>2. PyInv'
    BY <1>1, <1>3, StutterPyInv DEF BothInv
  <2>3. BInv'
    BY <1>3 DEF BInv, PyRead
  <2> QED
    BY <2>1, <2>2, <2>3 DEF BothInv
<1>4. CASE UNCHANGED <<allVars, pyPc, data, i>>
  <2>1. ReadInvs'
    BY <1>4, FieldNextInv DEF BothInv, ReadInvs
  <2>2. PyInv'
    BY <1>1, <1>4, StutterPyInv DEF BothInv
  <2>3. BInv'
    BY <1>4 DEF BothInv, BInv, allVars, vars, inputs
  <2> QED
    BY <2>1, <2>2, <2>3 DEF BothInv
<1> QED
  BY <1>2, <1>3, <1>4 DEF BothNext

THEOREM BothInvariance == BothSpec => []BothInv
BY BothInitInv, BothNextInv, PTL DEF BothSpec
-----------------------------------------------------------------------------
(* The bytes at hand are the record's bytes.                               *)
LEMMA SameBytes ==
  ASSUME NEW d \in Seq(PageNumbers \X PageOffsets), NEW n \in Nat, NEW at \in Nat,
         Len(d) >= n,
         \A k \in 1 .. Len(d) : d[k] = ByteOf(allocMap, ls.LogicalID, at, k)
  PROVE  SubSeq(d, 1, n) = RecordBytes(allocMap, ls.LogicalID, at, n)
<1>1. PICK s : s = SubSeq(d, 1, n)
  OBVIOUS
<1>2. \A k \in 1 .. n : k \in 1 .. Len(d) /\ d[k] \in PageNumbers \X PageOffsets
  OBVIOUS
<1>3. /\ s \in Seq(PageNumbers \X PageOffsets) /\ Len(s) = n
      /\ \A k \in 1 .. n : s[k] = d[k]
  <2>1. 1 \in Int /\ n \in Int /\ n - 1 + 1 = n /\ 1 <= n + 1
    OBVIOUS
  <2>2. \A k \in 1 .. n : 1 + k - 1 = k
    OBVIOUS
  <2>3. CASE n = 0
    BY <1>1, <2>3
  <2>4. CASE n > 0
    BY <1>1, <1>2, <2>1, <2>2, <2>4, SubSeqProperties
  <2> QED
    BY <2>3, <2>4
<1>4. s = [k \in 1 .. n |-> s[k]]
  BY <1>3
<1>5. \A k \in 1 .. n : s[k] = ByteOf(allocMap, ls.LogicalID, at, k)
  BY <1>2, <1>3
<1> QED
  BY <1>1, <1>4, <1>5 DEF RecordBytes

(* python-cim's answer, in the terms of the fetch.                         *)
LEMMA PyAnswer == ObjectFetched!Answerable <=> Py!FirstDataOK /\ ObjectWhole
BY DEF ObjectFetched!Answerable, ObjectWhole, ObjectFetched!WholeRecord, WholeRecord,
       ObjectFetched!LogicalPages, ObjectFetched!Readable, LogicalPages, Readable

LEMMA PyBytes ==
  ASSUME IInv, PyInv, pyPc = "returned"
  PROVE  SubSeq(data, 1, ls.Size) = RecordBytes(allocMap, ls.LogicalID, Py!Entry.Offset, ls.Size)
<1>1. Py!FirstDataOK /\ Len(data) >= ls.Size /\ data \in Seq(PageNumbers \X PageOffsets)
  BY DEF PyInv, PyTypeOK
<1>2. ls.Size \in Nat /\ toc \in Seq(TocEntries)
  BY DEF IInv, TypeOK, Locations
<1>3. Py!Entry.Offset \in Nat
  <2>1. Py!Entry.Offset \in 1 .. PageSize - 1
    BY <1>1, <1>2, PyEntry DEF Py!FirstDataOK
  <2> QED
    BY <2>1
<1>4. \A k \in 1 .. Len(data) : data[k] = ByteOf(allocMap, ls.LogicalID, Py!Entry.Offset, k)
  BY DEF PyInv
<1> QED
  BY <1>1, <1>2, <1>3, <1>4, SameBytes

(* A record that the entry taken has in full: what a strict caller parses. *)
LEMMA FirstIsWanted ==
  ASSUME toc \in Seq(TocEntries), Hits # {}
  PROVE  Wanted(First) /\ \A m : Wanted(m) => m = First
<1>1. \E m \in Hits : \A n \in Hits : m <= n
  BY WantedOnce DEF Wanted
<1>2. Wanted(First)
  BY <1>1 DEF First, Wanted
<1> QED
  BY <1>2, WantedOnce

LEMMA RecordAnswer ==
  ASSUME toc \in Seq(TocEntries)
  PROVE  RecordFetched!Answerable <=> CanBeHad
<1>1. CASE ~ Located
  BY <1>1 DEF CanBeHad, RecordFetched!Answerable
<1>2. CASE Located
  <2>1. Wanted(First) /\ \A m : Wanted(m) => m = First
    BY <1>2, FirstIsWanted DEF Located
  <2>2. CanBeHad <=> /\ SizeAccepted
                     /\ WholeRecord(allocMap, ls.LogicalID, toc[First].Offset, ls.Size)
    BY <1>2, <2>1 DEF CanBeHad, SizeAccepted, CutAtSize, CutIn, HasPage
  <2> QED
    BY <1>2, <2>2
    DEF RecordFetched!Answerable, RecordFetched!WholeRecord, WholeRecord,
        RecordFetched!LogicalPages, RecordFetched!Readable, LogicalPages, Readable
<1> QED
  BY <1>1, <1>2

LEMMA RecordBuffer ==
  ASSUME IInv, RInv, strict, pc \in {"read", "parse"}, Complete
  PROVE  /\ Located /\ toc[First].Offset \in Nat
         /\ buffer = RecordBytes(allocMap, ls.LogicalID, toc[First].Offset, ls.Size)
<1>1. toc \in Seq(TocEntries) /\ ls.Size \in Nat /\ entry.Offset \in Nat
      /\ buffer \in Seq(PageNumbers \X PageOffsets)
  BY DEF IInv, TypeOK, Locations, TocEntries
<1>2. Located /\ entry = toc[First]
  <2>1. PICK m : Located /\ Wanted(m) /\ entry = toc[m]
    BY DEF RInv
  <2> QED
    BY <1>1, <2>1, FirstIsWanted DEF Located
<1>3. Len(buffer) = ls.Size
  BY DEF Complete
<1>4. SubSeq(buffer, 1, ls.Size) = RecordBytes(allocMap, ls.LogicalID, entry.Offset, ls.Size)
  <2>1. \A k \in 1 .. Len(buffer) :
          buffer[k] = ByteOf(allocMap, ls.LogicalID, entry.Offset, k)
    BY DEF IInv, ReadInv
  <2>2. Len(buffer) >= ls.Size
    BY <1>1, <1>3
  <2> QED
    BY <1>1, <2>1, <2>2, SameBytes
<1>5. SubSeq(buffer, 1, ls.Size) = buffer
  BY <1>1, <1>3
<1> QED
  BY <1>1, <1>2, <1>4, <1>5
-----------------------------------------------------------------------------
(* What a step of WMIParser may do to its answer: a caller that parses or  *)
(* refuses is done, and only Accept and Reject (or Refuse) get it there.   *)
LEMMA AnswerSteps ==
  ASSUME [Next]_vars
  PROVE  /\ pc \in {"parse", "refused"} => pc' = pc /\ buffer' = buffer
         /\ pc # "parse" /\ pc' = "parse" =>
              pc = "read" /\ ~ ExtentReadable /\ (strict => Complete) /\ buffer' = buffer
BY DEF Next, vars, Refuse, Locate, Collect, ReadExtent, Overrun, Accept, Reject, collect

LEMMA NextOfBoth ==
  ASSUME [BothNext]_<<allVars, pyPc, data, i>>
  PROVE  [Next]_vars
<1>1. CASE Py!Next /\ UNCHANGED <<strict, pc, collect, it, buffer, fieldVars>>
  BY <1>1, InputsStay DEF PyKeeps, vars, inputs
<1>2. CASE FieldNext
  BY <1>2, FieldIsNext
<1>3. CASE UNCHANGED allVars
  BY <1>3 DEF allVars
<1> QED
  BY <1>1, <1>2, <1>3 DEF BothNext

LEMMA RecordStep ==
  ASSUME BothInv, [BothNext]_<<allVars, pyPc, data, i>>
  PROVE  [RecordFetched!Next]_(RecordFetched!vars)
<1>1. /\ UNCHANGED <<allocMap, toc, ls, strict>>
      /\ toc \in Seq(TocEntries) /\ toc' \in Seq(TocEntries)
      /\ IInv /\ RInv /\ IInv' /\ RInv'
  BY InputsStay, BothNextInv DEF PyKeeps, BothInv, ReadInvs, IInv, TypeOK
<1>2. Hits' = Hits /\ First' = First /\ Located' = Located /\ SizeAccepted' = SizeAccepted
  BY <1>1 DEF Hits, First, Located, LocationValid, FirstPageReadable, SizeAccepted, CutAtSize
<1>3. /\ pc \in {"parse", "refused"} => pc' = pc /\ buffer' = buffer
      /\ pc # "parse" /\ pc' = "parse" =>
           pc = "read" /\ ~ ExtentReadable /\ (strict => Complete) /\ buffer' = buffer
  BY NextOfBoth, AnswerSteps
<1>4. CASE ~ strict \/ pc' \notin {"parse", "refused"} \/ pc \in {"parse", "refused"}
  BY <1>1, <1>2, <1>3, <1>4 DEF RecordFetched!vars
<1>5. CASE strict /\ pc \notin {"parse", "refused"} /\ pc' = "parse"
  <2>1. RecordFetched!Answerable
    BY <1>1, <1>3, <1>5, CompleteCanBeHad, RecordAnswer
  <2>2. Located /\ buffer = RecordBytes(allocMap, ls.LogicalID, toc[First].Offset, ls.Size)
    BY <1>1, <1>3, <1>5, RecordBuffer
  <2>3. RecordFetched!Deliver
    BY <1>1, <1>2, <1>3, <1>5, <2>1, <2>2
    DEF RecordFetched!Deliver, RecordFetched!RecordBytes, RecordBytes,
        RecordFetched!ByteOf, ByteOf
  <2> QED
    BY <2>3 DEF RecordFetched!Next
<1>6. CASE strict /\ pc \notin {"parse", "refused"} /\ pc' = "refused"
  <2>1. ~ CanBeHad'
    BY <1>1, <1>6 DEF RInv
  <2>2. ~ CanBeHad
    BY <1>1, <2>1, HadFrame
  <2>3. ~ RecordFetched!Answerable
    BY <1>1, <2>2, RecordAnswer
  <2>4. RecordFetched!Decline
    BY <1>1, <1>2, <1>6, <2>3 DEF RecordFetched!Decline
  <2> QED
    BY <2>4 DEF RecordFetched!Next
<1> QED
  BY <1>4, <1>5, <1>6

(* A strict read of WMIParser is a fetch.                                  *)
THEOREM RecordIsFetched == BothSpec => ImplementsFetch
<1>1. BothInit => RecordFetched!Init
  BY DEF BothInit, FieldInit, Init, RecordFetched!Init
<1> QED
  BY <1>1, RecordStep, BothInvariance, PTL DEF BothSpec, ImplementsFetch, RecordFetched!Spec

LEMMA PyStep ==
  ASSUME BothInv, [BothNext]_<<allVars, pyPc, data, i>>
  PROVE  [ObjectFetched!Next]_(ObjectFetched!vars)
<1>1. PyKeeps /\ IInv /\ PyInv /\ IInv' /\ PyInv'
  BY InputsStay, BothNextInv DEF BothInv, ReadInvs
<1>2. Py!FirstDataOK' = Py!FirstDataOK /\ Py!Entry' = Py!Entry /\ ObjectWhole' = ObjectWhole
  BY <1>1, PyFrame
<1>3. CASE UNCHANGED <<pyPc, data>>
  BY <1>1, <1>2, <1>3 DEF PyKeeps, ObjectFetched!vars
<1>4. CASE Py!Next
  <2>1. pyPc \in {"page", "append"} /\ pyPc' \in {"append", "returned", "raised"}
    BY <1>4 DEF Py!Next, Py!FirstRaises, Py!FirstSuffices, Py!FirstPart, Py!AppendPage,
                Py!AppendRaises
  <2>2. CASE pyPc' = "append"
    BY <1>1, <1>2, <2>1, <2>2 DEF PyKeeps, ObjectFetched!vars
  <2>3. CASE pyPc' = "returned"
    <3>1. ObjectFetched!Answerable
      BY <1>1, <1>2, <2>3, PyAnswer DEF PyInv
    <3>2. SubSeq(data', 1, ls.Size) = RecordBytes(allocMap, ls.LogicalID, Py!Entry.Offset, ls.Size)
      <4>1. /\ Py!FirstDataOK /\ Len(data') >= ls.Size
            /\ data' \in Seq(PageNumbers \X PageOffsets)
        BY <1>1, <1>2, <2>3 DEF PyInv, PyTypeOK, PyKeeps
      <4>2. ls.Size \in Nat /\ toc \in Seq(TocEntries)
        BY <1>1 DEF IInv, TypeOK, Locations
      <4>3. Py!Entry.Offset \in Nat
        <5>1. Py!Entry.Offset \in 1 .. PageSize - 1
          BY <4>1, <4>2, PyEntry DEF Py!FirstDataOK
        <5> QED
          BY <5>1
      <4>4. \A k \in 1 .. Len(data') :
              data'[k] = ByteOf(allocMap, ls.LogicalID, Py!Entry.Offset, k)
        BY <1>1, <1>2, <2>3 DEF PyInv, PyKeeps, ByteOf
      <4> QED
        BY <4>1, <4>2, <4>3, <4>4, SameBytes
    <3>3. ObjectFetched!Deliver
      BY <1>1, <1>2, <2>1, <2>3, <3>1, <3>2, PyAnswer
      DEF PyKeeps, ObjectFetched!Deliver, ObjectFetched!RecordBytes, RecordBytes,
          ObjectFetched!ByteOf, ByteOf
    <3> QED
      BY <3>3 DEF ObjectFetched!Next
  <2>4. CASE pyPc' = "raised"
    <3>1. ~ ObjectFetched!Answerable
      BY <1>1, <1>2, <2>4, PyAnswer DEF PyInv
    <3>2. ObjectFetched!Decline
      BY <1>1, <1>2, <2>1, <2>4, <3>1 DEF PyKeeps, ObjectFetched!Decline
    <3> QED
      BY <3>2 DEF ObjectFetched!Next
  <2> QED
    BY <2>1, <2>2, <2>3, <2>4
<1> QED
  BY <1>3, <1>4 DEF BothNext

(* A call of get_object_buffer is a fetch.                                 *)
THEOREM ObjectIsFetched == BothSpec => PyImplementsFetch
<1>1. BothInit => ObjectFetched!Init
  BY DEF BothInit, Py!Init, ObjectFetched!Init
<1> QED
  BY <1>1, PyStep, BothInvariance, PTL DEF BothSpec, PyImplementsFetch, ObjectFetched!Spec
-----------------------------------------------------------------------------
(* Where both take every entry for valid, they look for the same thing,    *)
(* and a strict caller of WMIParser wants its size besides.                *)
LEMMA SameAnswer ==
  ASSUME toc \in Seq(TocEntries), ls \in Locations, BothValid
  PROVE  /\ CanBeHad <=> Py!FirstDataOK /\ ObjectWhole /\ SizeAccepted
         /\ Located => Py!Entry = toc[First]
<1>1. Py!ParsedToc = toc
  BY DEF BothValid, Py!ParsedToc, Py!PyIsValid, PyIsValid
<1>2. Py!Hits = Hits
  BY <1>1 DEF Py!Hits, Hits, BothValid
<1>3. Py!Entry = toc[First]
  BY <1>1, <1>2 DEF Py!Entry, First
<1>4. LocationValid /\ (Py!HasBuffer(ls.LogicalID) <=> FirstPageReadable)
  BY DEF BothValid, Py!HasBuffer, FirstPageReadable, Py!LogicalPages, LogicalPages,
         Py!Readable, Readable
<1>5. CASE Hits = {}
  BY <1>2, <1>5 DEF CanBeHad, Located, Py!FirstDataOK
<1>6. CASE Hits # {}
  <2>1. Wanted(First) /\ \A m : Wanted(m) => m = First
    BY <1>6, FirstIsWanted
  <2>2. toc[First].Size \in Nat /\ ls.Size \in Nat
    <3>1. First \in DOMAIN toc
      BY <2>1 DEF Wanted, Hits
    <3>2. toc[First] \in TocEntries
      BY <3>1
    <3> QED
      BY <3>2 DEF TocEntries, Locations
  <2>3. Py!FirstDataOK <=> Located /\ toc[First].Size >= ls.Size
    BY <1>2, <1>3, <1>4, <1>6 DEF Py!FirstDataOK, Located
  <2>4. SizeAccepted => toc[First].Size >= ls.Size
    BY <2>2 DEF SizeAccepted, CutAtSize
  <2>5. CanBeHad <=> /\ Located /\ SizeAccepted
                     /\ WholeRecord(allocMap, ls.LogicalID, toc[First].Offset, ls.Size)
    BY <2>1 DEF CanBeHad, SizeAccepted, CutAtSize, CutIn, HasPage
  <2> QED
    BY <1>3, <2>3, <2>4, <2>5 DEF ObjectWhole
<1> QED
  BY <1>3, <1>5, <1>6

LEMMA BothAgree == BothInv => ReadersAgree
<1> SUFFICES ASSUME BothInv, strict, BothValid, pc \in {"parse", "refused"}
             PROVE  /\ (pc = "parse") <=> (pyPc = "returned" /\ SizeAccepted)
                    /\ pc = "parse" => buffer = SubSeq(data, 1, ls.Size)
  BY DEF ReadersAgree
<1>1. /\ IInv /\ RInv /\ PyInv
      /\ toc \in Seq(TocEntries) /\ ls \in Locations
  BY DEF BothInv, ReadInvs, IInv, TypeOK
<1>2. pyPc \in {"returned", "raised"}
  BY DEF BothInv, BInv, PyInv, PyTypeOK
<1>3. /\ CanBeHad <=> Py!FirstDataOK /\ ObjectWhole /\ SizeAccepted
      /\ Located => Py!Entry = toc[First]
  BY <1>1, SameAnswer
<1>4. pyPc = "returned" <=> Py!FirstDataOK /\ ObjectWhole
  BY <1>1, <1>2 DEF PyInv
<1>5. pc = "parse" => Complete /\ ~ ExtentReadable
  BY <1>1 DEF RInv
<1>6. pc = "parse" <=> CanBeHad
  BY <1>1, <1>5, CompleteCanBeHad DEF RInv
<1>7. ASSUME pc = "parse" PROVE buffer = SubSeq(data, 1, ls.Size)
  BY <1>1, <1>3, <1>4, <1>5, <1>6, <1>7, RecordBuffer, PyBytes
<1> QED
  BY <1>3, <1>4, <1>6, <1>7

(* The two programs read the same.                                         *)
THEOREM ReadersSame == BothSpec => []ReadersAgree
BY BothInvariance, BothAgree, PTL

(* What is true of WMIParser alone is true of it after python-cim.         *)
THEOREM ReaderCorrect ==
  BothSpec => [](/\ TypeOK /\ ExtentsInOrder /\ BufferIsRecordPrefix
                 /\ PartsInOrder /\ FieldMaximal /\ ValueIsParsedSlice)
<1>1. BothInv => TypeOK /\ ExtentsInOrder /\ PartsInOrder /\ ValueIsParsedSlice
  BY DEF BothInv, ReadInvs, IInv, FInv, FetchInv
<1>2. BothInv => BufferIsRecordPrefix /\ FieldMaximal
  BY PrefixHolds, FoundAll DEF BothInv, ReadInvs
<1> QED
  BY <1>1, <1>2, BothInvariance, PTL
=============================================================================
