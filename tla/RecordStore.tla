---------------------------- MODULE RecordStore ----------------------------
(***************************************************************************)
(* The layout of objects.data that both readers of a CIM repository share. *)
(* The file is an array of physical pages; the data mapping turns a        *)
(* logical page into a physical one, or into UNAVAIL.  A record is named   *)
(* by a location (logical page, record id, size), found through the table  *)
(* of contents (TOC) of its first page, and runs on through the following  *)
(* LOGICAL pages when it does not fit in the first.                        *)
(*                                                                         *)
(* A byte of the file is identified by its place <<physical page, offset   *)
(* in page>>: the content of a byte never matters, only which byte it is.  *)
(* An address page * PAGE_SIZE + offset of the code is kept as that pair,  *)
(* which loses nothing because no extent of the code crosses a page.       *)
(***************************************************************************)
EXTENDS Integers, Sequences

CONSTANTS
  PageSize,   \* bytes per page (0x2000 in both readers)
  MapSize,    \* number of logical pages in the data mapping
  PhysPages,  \* number of whole pages in objects.data
  UNAVAIL,    \* the page number that stands for "not mapped"
  Word        \* 2^32 scaled down: where uint32 arithmetic wraps

ASSUME PageSizeAssumption  == PageSize \in Nat \ {0}
ASSUME MapSizeAssumption   == MapSize \in Nat \ {0}
ASSUME PhysPagesAssumption == PhysPages \in Nat
ASSUME UnavailAssumption   == UNAVAIL \in Nat /\ UNAVAIL >= PhysPages
ASSUME WordAssumption      == Word \in Nat /\ Word > PageSize

LogicalPages  == 0 .. MapSize - 1
PageNumbers   == (0 .. PhysPages - 1) \union {UNAVAIL}
AllocMaps     == [LogicalPages -> PageNumbers]
PageOffsets   == 0 .. PageSize - 1
TocEntries    == [RecordID : Nat, Offset : Nat, Size : Nat]
Locations     == [LogicalID : Nat, RecordID : Nat, Size : Nat]
Extents       ==
  {e \in [page : PageNumbers, at : PageOffsets, count : 1 .. PageSize] :
     e.at + e.count <= PageSize}

(* A whole page, and so any extent inside it, can be read from the file. *)
Readable(p) == p < PhysPages

(* Toc::IsZero: the all-zero entry that ends a table of contents.        *)
IsZero(e) == e.RecordID = 0 /\ e.Offset = 0 /\ e.Size = 0

(* Toc::IsValid(PAGE_SIZE): the sum is a uint32 sum and may wrap.        *)
IsValid(e) ==
  /\ ~ IsZero(e)
  /\ e.Offset # 0 /\ e.Size # 0
  /\ e.Offset < PageSize
  /\ (e.Offset + e.Size) % Word > e.Offset

(* TOC._is_valid_entry of python-cim.                                    *)
PyIsValid(e) ==
  /\ e.RecordID # 0
  /\ e.Offset < PageSize
  /\ e.Offset # 0
  /\ e.Size # 0

(* The k-th byte (from 1) of a record that starts at offset `at` of      *)
(* logical page l: `steps` pages further, at the rest of the division.   *)
ByteOf(map, l, at, k) ==
  LET a == at + k - 1
  IN  <<map[l + a \div PageSize], a % PageSize>>

(* The bytes of such a record, n of them.                                *)
RecordBytes(map, l, at, n) == [k \in 1 .. n |-> ByteOf(map, l, at, k)]

(* Every logical page that the record touches is mapped and in the file. *)
WholeRecord(map, l, at, n) ==
  \A p \in l .. l + (at + n - 1) \div PageSize :
    p \in LogicalPages /\ Readable(map[p])

(* The bytes of one extent, in order.                                    *)
ExtentBytes(e) == [k \in 1 .. e.count |-> <<e.page, e.at + k - 1>>]
=============================================================================
