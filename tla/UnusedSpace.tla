----------------------------- MODULE UnusedSpace ----------------------------
(***************************************************************************)
(* The recovery tools of python-cim over the objects.data of a sound       *)
(* repository: find_unallocated_pages and extract_data_page_slack          *)
(* (recovery.py), and the samples that use them and the data mapping:      *)
(*   "slack"  dump_page_slack.py dumps the slack of every page,            *)
(*   "carve"  auto_carve_class_definitions.py goes through the slack, then *)
(*            through the unallocated pages,                               *)
(*   "find"   find_bytes.py tells what a byte of a page belongs to.        *)
(*                                                                         *)
(* The table of contents and its empty entry lie at the start of a page,   *)
(* one unit of PageSize to an entry.  An object that does not fit runs on  *)
(* through the next logical pages, which have no table of contents.        *)
(***************************************************************************)
EXTENDS Sequences, FiniteSetsExt, PageMapping

CONSTANTS
  FilePages,  \* page_count: whole pages in objects.data
  PageSize,   \* DATA_PAGE_SIZE
  Tocs        \* the tables of contents a page may have

(* No page of the file has the number that stands for "unmapped".          *)
ASSUME FilePagesAssumption == FilePages \in Nat /\ FilePages <= UNMAPPED
ASSUME PageSizeAssumption  == PageSize \in Nat \ {0}
ASSUME TocsAssumption      == \A t \in Tocs :
                                /\ t \in Seq([Offset : Nat, Size : Nat])
                                /\ \A k \in DOMAIN t :
                                     t[k].Offset > Len(t) /\ t[k].Offset < PageSize

VARIABLES
  toc,      \* toc[p]: the table of contents of physical page p
  tool,     \* "slack", "carve" or "find"
  phase,    \* "slack", "unallocated", "find", "done", or "raised"
  i,        \* the page number of the loop
  regions,  \* slack regions yielded: physical page, begin, end
  pages,    \* unallocated pages yielded
  hit       \* what find_bytes.py printed last: page, offset, verdicts

vars == <<entries, reverse, toc, tool, phase, i, regions, pages, hit>>

Mapped(l)     == l \in DOMAIN entries /\ entries[l] # UNMAPPED
TocOf(l)      == toc[entries[l]]
Reachable(l)  == Mapped(l) /\ entries[l] \in 0 .. FilePages - 1

(* The bytes of page l that objects of page k take up.                     *)
Covers(k, e, l, b) ==
  LET a == (l - k) * PageSize + b IN e.Offset <= a /\ a < e.Offset + e.Size
LiveFrom(k, l) ==
  {b \in 0 .. PageSize - 1 : \E n \in DOMAIN TocOf(k) : Covers(k, TocOf(k)[n], l, b)}
Live(l) == UNION {LiveFrom(k, l) : k \in {j \in 0 .. l : Reachable(j)}}

(* Every page an object runs on through is there, has no table of contents *)
(* and no other place in the map.                                          *)
RunsTo(k, e) == k + (e.Offset + e.Size - 1) \div PageSize
Sound ==
  \A k \in DOMAIN entries : Reachable(k) => \A n \in DOMAIN TocOf(k) :
    LET run == k .. RunsTo(k, TocOf(k)[n])
    IN  run # {k} =>
        /\ \A l \in run \ {k} : Reachable(l) /\ TocOf(l) = <<>>
        /\ \A l \in run, j \in DOMAIN entries : entries[j] = entries[l] => j = l

Init ==
  /\ entries \in Maps
  /\ toc \in [0 .. FilePages - 1 -> Tocs]
  /\ Sound
  /\ reverse = NoEntries
  /\ tool \in {"slack", "carve", "find"}
  /\ phase = IF tool = "find" THEN "find" ELSE "slack"
  /\ i = 0 /\ regions = {} /\ pages = {}
  /\ hit = [page |-> 0, offset |-> 0, verdicts |-> {}]

(* IntervalTree.chop: what is left of a set of intervals without b .. e.   *)
Chop(s, b, e) ==
  IF b >= e THEN s
  ELSE {r \in UNION {{<<r[1], Min({r[2], b})>>, <<Max({r[1], e}), r[2]>>} : r \in s} :
          r[1] < r[2]}

(* extract_data_page_slack on the page whose table of contents is t: the   *)
(* regions left without the table, its empty entry and every object.       *)
(* Mutant: the empty entry is left in.                                     *)
WithoutEntries(s, t) == Chop(s, 0, Len(t))

WithoutToc(s, t)     == Chop(Chop(s, 0, Len(t)), Len(t), Len(t) + (IF t = <<>> THEN 0 ELSE 1))
WithoutObjects(s, t) ==
  LET chopped[n \in 0 .. Len(t)] ==
        IF n = 0 THEN s ELSE Chop(chopped[n - 1], t[n].Offset, t[n].Offset + t[n].Size)
  IN  chopped[Len(t)]
Skipped(r)           == r[2] - r[1] > PageSize
Slack(t) ==
  {r \in WithoutObjects(WithoutToc({<<0, PageSize>>}, t), t) : ~ Skipped(r)}

(* The page, if get_page can fetch it; an IndexError is logged and passed  *)
(* over.                                                                   *)
Yield(l) ==
  regions' = regions \union
    IF Reachable(l) THEN {<<entries[l], r[1], r[2]>> : r \in Slack(TocOf(l))} ELSE {}

(* Mutants: the loop goes one entry too far; it goes over the pages.       *)
EndOfPages(t)     == FilePages

EndOf(t) == IF t = "slack" THEN FilePages ELSE Count

(* dump_page_slack.py asks whether the page is mapped outside its try.     *)
DumpPage ==
  /\ phase = "slack" /\ tool = "slack" /\ i < EndOf(tool)
  /\ IF IsLogicalPageMapped(i).raises # ""
     THEN phase' = "raised" /\ UNCHANGED <<i, regions>>
     ELSE Yield(i) /\ i' = i + 1 /\ UNCHANGED phase
  /\ UNCHANGED <<entries, reverse, toc, tool, pages, hit>>

(* auto_carve_class_definitions.py passes over what get_page raises.       *)
CarvePage ==
  /\ phase = "slack" /\ tool = "carve" /\ i < EndOf(tool)
  /\ Yield(i) /\ i' = i + 1
  /\ UNCHANGED <<entries, reverse, toc, tool, phase, pages, hit>>

SlackDone ==
  /\ phase = "slack" /\ i = EndOf(tool)
  /\ phase' = IF tool = "slack" THEN "done" ELSE "unallocated"
  /\ i' = 0
  /\ UNCHANGED <<entries, reverse, toc, tool, regions, pages, hit>>

(* find_unallocated_pages                                                  *)
Unallocated ==
  /\ phase = "unallocated" /\ i < FilePages
  /\ reverse' = ReverseMapping
  /\ pages' = pages \union (IF IsPhysicalPageMapped(i).value THEN {} ELSE {i})
  /\ i' = i + 1
  /\ UNCHANGED <<entries, toc, tool, phase, regions, hit>>

AllDone ==
  /\ phase = "unallocated" /\ i = FilePages
  /\ phase' = "done"
  /\ UNCHANGED <<entries, reverse, toc, tool, i, regions, pages, hit>>

(* find_bytes.py: what it prints of a hit at offset b of the page of table *)
(* of contents t.                                                          *)
(* Mutant: the byte after an object is taken for one of it.                *)
InEntryInclusive(e, b) == e.Offset <= b /\ b <= e.Offset + e.Size

InEntry(e, b) == e.Offset <= b /\ b < e.Offset + e.Size
Verdicts(t, b) ==
  LET found == (IF b < Len(t) THEN {"toc"} ELSE {}) \union
               (IF \E k \in DOMAIN t : InEntry(t[k], b) THEN {"object"} ELSE {})
  IN  IF t = <<>> THEN {"unknown"} ELSE IF found = {} THEN {"slack"} ELSE found

(* The needle is in page i, first at offset b; the page is looked at by    *)
(* its logical number.                                                     *)
FindHit(b) ==
  /\ phase = "find" /\ i < FilePages
  /\ reverse' = ReverseMapping
  /\ LET l == GetLogicalPageNumber(i)
     IN  hit' = [page |-> i, offset |-> b, verdicts |->
                   IF l.raises # "" THEN {"unallocated"}
                   ELSE IF ~ Reachable(l.value) THEN {"unreadable"}
                   ELSE Verdicts(TocOf(l.value), b)]
  /\ i' = i + 1
  /\ UNCHANGED <<entries, toc, tool, phase, regions, pages>>

FindNothing ==
  /\ phase = "find" /\ i < FilePages
  /\ i' = i + 1
  /\ UNCHANGED <<entries, reverse, toc, tool, phase, regions, pages, hit>>

Next == \/ DumpPage \/ CarvePage \/ SlackDone \/ Unallocated \/ AllDone
        \/ \E b \in 0 .. PageSize - 1 : FindHit(b)
        \/ FindNothing
Spec == Init /\ [][Next]_vars

-----------------------------------------------------------------------------
InRegion(p, b) == \E r \in regions : r[1] = p /\ r[2] <= b /\ b < r[3]
Visited(l)     ==
  tool # "find" /\ l < (IF phase \in {"slack", "raised"} THEN i ELSE EndOf(tool))
Continued(l)   == \E k \in 0 .. l - 1 : Reachable(k) /\ LiveFrom(k, l) # {}
Taken(l)       ==
  Live(l) \union (IF TocOf(l) = <<>> THEN {} ELSE 0 .. Len(TocOf(l)))

(* A byte is in a slack region of a page that has been visited exactly     *)
(* when it is in no object and not in the table of contents, on every page *)
(* that does not continue an object (extract_data_page_slack).  A dump     *)
(* that raises has visited every page: it has come past the last logical   *)
(* one, which it looks for as long as there are physical ones.             *)
SlackIsTheRest ==
  /\ \A l \in DOMAIN entries :
       Reachable(l) /\ ~ Continued(l) /\ Visited(l) =>
         \A b \in 0 .. PageSize - 1 :
           InRegion(entries[l], b) <=> b \notin Taken(l)
  /\ phase = "raised" => i = Count /\ Count < FilePages

(* A carve that ends has looked at every byte of the file once, but for    *)
(* tables of contents and live objects: no page is called both slack and   *)
(* unallocated, and none is left out (find_unallocated_pages).             *)
CarveMissesNothing ==
  phase = "done" /\ tool = "carve" =>
    /\ pages = {p \in 0 .. FilePages - 1 :
                  \A l \in DOMAIN entries : entries[l] # p}
    /\ \A r \in regions : r[1] \notin pages
    /\ \A l \in DOMAIN entries : Reachable(l) =>
         \A b \in (0 .. PageSize - 1) \ Taken(l) : InRegion(entries[l], b)

(* A hit is called what it is: an object only where one has the byte,      *)
(* slack only where none has, unallocated only where no logical page       *)
(* leads; only a page without a table of contents is left unknown          *)
(* (find_bytes).                                                           *)
VerdictsRight ==
  LET l == LastOf(hit.page)
      mapped == \E k \in DOMAIN entries : entries[k] = hit.page
  IN  hit.verdicts # {} =>
        /\ hit.verdicts = {"unallocated"} <=> ~ mapped
        /\ "object" \in hit.verdicts => hit.offset \in Live(l)
        /\ "slack" \in hit.verdicts =>
             hit.offset \notin Taken(l) \/ hit.offset = Len(TocOf(l))
        /\ hit.verdicts = {"unknown"} <=> mapped /\ TocOf(l) = <<>>
        /\ "unreadable" \notin hit.verdicts

(* What the documentation says of slack: it is unused data within a page.  *)
SlackIsUnused ==
  \A l \in DOMAIN entries : Reachable(l) =>
    \A b \in Live(l) : ~ InRegion(entries[l], b)
=============================================================================
