----------------------------- MODULE PageMapping ----------------------------
(***************************************************************************)
(* class Mapping of python-cim: one parsed map, its lookups in both        *)
(* directions, and the reverse map it builds at the first lookup by        *)
(* physical page and keeps.  An entry is its page number under             *)
(* MAPPING_PAGE_ID_MASK.                                                   *)
(***************************************************************************)
EXTENDS Integers, FiniteSets

CONSTANTS
  MaxEntries,   \* bound: entries of a map
  PageNumbers,  \* page numbers an entry may have
  UNMAPPED      \* UNMAPPED_PAGE_VALUE, 0x3FFFFFFF

ASSUME MaxEntriesAssumption  == MaxEntries \in Nat
ASSUME PageNumbersAssumption == PageNumbers \subseteq Nat /\ UNMAPPED \in PageNumbers

VARIABLES
  entries,   \* the entries of the map, a function from logical pages
  reverse    \* _reverse_mapping: physical page to logical page

Maps      == UNION {[0 .. n - 1 -> PageNumbers] : n \in 1 .. MaxEntries}
Count     == Cardinality(DOMAIN entries)           \* mapping_entry_count
NoEntries == [p \in {} |-> 0]

Returns(v) == [raises |-> "", value |-> v]
Raises(e)  == [raises |-> e, value |-> 0]

(* The guard lets the number just past the last entry through; the access  *)
(* that then fails is turned into UnmappedPage.                            *)
EntryError(l) == Raises(IF l > Count THEN "IndexError" ELSE "UnmappedPage")

IsLogicalPageMapped(l) ==
  IF l \in DOMAIN entries THEN Returns(entries[l] # UNMAPPED) ELSE EntryError(l)

(* A page that two entries name is given to the later one.                 *)
LastOf(p) ==
  CHOOSE l \in DOMAIN entries :
    entries[l] = p /\ \A k \in DOMAIN entries : entries[k] = p => k <= l

BuildReverseMapping ==
  [p \in {entries[l] : l \in DOMAIN entries} \ {UNMAPPED} |-> LastOf(p)]
ReverseMapping == IF reverse = NoEntries THEN BuildReverseMapping ELSE reverse

GetLogicalPageNumber(p) ==
  IF p \in DOMAIN ReverseMapping THEN Returns(ReverseMapping[p]) ELSE Raises("UnmappedPage")
IsPhysicalPageMapped(p) == Returns(p \in DOMAIN ReverseMapping)
=============================================================================
