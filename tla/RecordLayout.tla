---------------------------- MODULE RecordLayout ----------------------------
(***************************************************************************)
(* WMIParser: the records of consumers, filters and bindings.  The seven   *)
(* Create functions look for the same layout: the hash of the class name,  *)
(* two dates, the number of bytes left, some bytes that are skipped, a     *)
(* table with one entry for each column, a block, and a heap.  An entry is *)
(* a number, or where in the heap a string, a SID or an array of strings   *)
(* is; zero says there is none.  A record is written here as               *)
(*   class, size       whose hash it starts with; its bytes (the index)    *)
(*   remaining, nextSize, nextByte, dataSize   the sizes it holds          *)
(*   toc               the entries, by column                              *)
(*   heap              what starts at an offset of the heap: its kind, its *)
(*                     length (where the zero byte of a string is, or the  *)
(*                     number in front), its text; for an array entries,   *)
(*                     the words after the number                          *)
(* and an object as the values of its columns.                             *)
(***************************************************************************)
EXTENDS Integers, Sequences, SequencesExt

CONSTANTS
  GuidSize,   \* the bytes of a hash in a record
  Word,       \* 2^32, scaled down: one more than the largest uint32
  Unset,      \* the column keeps the value it was constructed with
  Refused,    \* goto Exit
  Garbled     \* bytes that are not those of the value written, taken for it
ASSUME GuidSizeAssumption == GuidSize \in {64, 128}
ASSUME WordAssumption     == Word \in Nat \ {0} /\ Word % 4 = 0

Width == [string |-> 4, sid |-> 4, array |-> 4, uint32 |-> 4, sint32 |-> 4,
          uint16 |-> 2, bool |-> 2, uint64 |-> 8]

GetTocSize(columns) == FoldLeft(LAMBDA size, c : size + Width[c], 0, columns)

-----------------------------------------------------------------------------
(* The classes: the columns in the order of the table, the bytes skipped,  *)
(* whether a string that cannot be had costs only itself or the record,    *)
(* and whether an entry must end before the end of the table.              *)
Strings(n)  == [i \in 1 .. n |-> "string"]
Booleans(n) == [i \in 1 .. n |-> "bool"]

CommandLineColumns ==
  <<"string", "uint32", "sid">> \o Strings(3) \o Booleans(5) \o <<"sint32">>
    \o Strings(3) \o [i \in 1 .. 8 |-> "uint32"] \o Booleans(3) \o <<"uint32">>

CommandLineConsumer ==
  [columns |-> CommandLineColumns, skip |-> 12, lenient |-> FALSE, before |-> FALSE]

ActiveScriptConsumer ==
  [columns |-> <<"string", "uint32", "sid">> \o Strings(4) \o <<"uint32">>,
   skip |-> 7, lenient |-> FALSE, before |-> FALSE]

LogFileConsumer ==
  [columns |-> <<"string", "uint32", "sid">> \o Strings(3) \o <<"uint64", "bool">>,
   skip |-> 7, lenient |-> TRUE, before |-> FALSE]

NTEventLogConsumer ==
  [columns |-> <<"string", "uint32", "sid">> \o Strings(3)
                 \o <<"uint32", "uint32", "uint16", "uint32", "array">> \o Strings(2),
   skip |-> 9, lenient |-> TRUE, before |-> FALSE]

SMTPConsumer ==
  [columns |-> <<"string", "uint32", "sid">> \o Strings(9) \o <<"array">>,
   skip |-> 9, lenient |-> TRUE, before |-> TRUE]

EventFilter ==
  [columns |-> <<"string", "sid">> \o Strings(3) \o <<"uint32">>,
   skip |-> 7, lenient |-> FALSE, before |-> FALSE]

FilterToConsumerBinding ==
  [columns |-> Strings(2) \o <<"uint32">> \o Booleans(3) \o <<"sid">>,
   skip |-> 7, lenient |-> FALSE, before |-> FALSE]

Layout ==
  [CommandLine |-> CommandLineConsumer, ActiveScript |-> ActiveScriptConsumer,
   LogFile |-> LogFileConsumer, NTEventLog |-> NTEventLogConsumer, SMTP |-> SMTPConsumer,
   Filter |-> EventFilter, Binding |-> FilterToConsumerBinding]

-----------------------------------------------------------------------------
(* Where the heap starts; 0 for a record that does not get that far.       *)
HeapStart(class, rec) ==
  LET remaining == GuidSize + 16
      toc       == remaining + 4 + Layout[class].skip
      block     == toc + GetTocSize(Layout[class].columns)
      byte      == block + rec.nextSize
      data      == byte + rec.nextByte
  IN  IF /\ rec.class = class
         /\ remaining + 4 < rec.size /\ remaining + rec.remaining <= rec.size
         /\ toc < rec.size /\ block < rec.size /\ byte < rec.size
         /\ data < rec.size /\ data + 4 < rec.size
         /\ data + 4 + rec.dataSize <= rec.size
      THEN data + 4 ELSE 0

(* A string must start with a zero byte, and it and the byte after it must *)
(* be in the heap.                                                         *)
StringColumn(l, rec, start, off) ==
  IF /\ start + off + 1 < rec.size
     /\ rec.heap[off].kind = "ascii"
     /\ off + rec.heap[off].length < rec.dataSize
  THEN rec.heap[off].text
  ELSE IF l.lenient THEN Unset ELSE Refused

(* Mutant: a SID may end where the record does.                            *)
SidColumnToEnd(rec, start, off) ==
  LET size == (rec.heap[off].length + 4) % Word
  IN  IF /\ start + off + 4 < rec.size
         /\ start + off + size <= rec.size /\ off + size <= rec.dataSize
      THEN rec.heap[off].text ELSE Refused

(* A SID starts with its length, to which 4 is added in 32 bits.  Its end  *)
(* is checked against the end of the record with <, against the end of the *)
(* heap with <=.                                                           *)
SidColumn(rec, start, off) ==
  LET size == (rec.heap[off].length + 4) % Word
  IN  IF /\ start + off + 4 < rec.size
         /\ start + off + size < rec.size /\ off + size <= rec.dataSize
      THEN rec.heap[off].text ELSE Refused

(* An array is a count and so many offsets of strings; its size is         *)
(* reckoned in 32 bits.  The first word that is not in the heap ends the   *)
(* array, and a string that runs past the heap is passed over; the first   *)
(* byte of its strings is not looked at.                                   *)
ArrayColumn(l, rec, start, off) ==
  LET array   == rec.heap[off]
      size    == ((array.length + 1) * 4) % Word
      words   == SubSeq(array.entries, 1, Min({array.length, Len(array.entries)}))
      Good(e) == /\ start + e < rec.size
                 /\ IF l.before THEN e < rec.dataSize ELSE e <= rec.dataSize
      bad     == SelectInSeq(words, LAMBDA e : ~ Good(e))
      listed  == IF bad = 0 THEN words ELSE SubSeq(words, 1, bad - 1)
      within  == SelectSeq(listed, LAMBDA e : e + rec.heap[e].length <= rec.dataSize)
      Text(e) == IF rec.heap[e].kind = "ascii" THEN rec.heap[e].text ELSE Garbled
  IN  IF /\ start + off + 4 < rec.size
         /\ start + off + size < rec.size /\ off + size <= rec.dataSize
      THEN [k \in DOMAIN within |-> Text(within[k])]
      ELSE Refused

(* A number is in the table itself; only Priority is not stored when zero. *)
NumberColumn(type, entry) == IF type = "sint32" /\ entry = 0 THEN Unset ELSE entry

Column(l, rec, start, i) ==
  LET type == l.columns[i]
      end  == GetTocSize(SubSeq(l.columns, 1, i))
      size == GetTocSize(l.columns)
  IN  IF ~ (IF l.before THEN end < size ELSE end <= size) THEN Refused
      ELSE IF type \notin {"string", "sid", "array"} THEN NumberColumn(type, rec.toc[i])
      ELSE IF rec.toc[i] = 0 THEN Unset
      ELSE CASE type = "string" -> StringColumn(l, rec, start, rec.toc[i])
             [] type = "sid"    -> SidColumn(rec, start, rec.toc[i])
             [] type = "array"  -> ArrayColumn(l, rec, start, rec.toc[i])

NoObject == <<>>

Create(class, rec) ==
  LET l      == Layout[class]
      start  == HeapStart(class, rec)
      object == [i \in DOMAIN l.columns |-> Column(l, rec, start, i)]
  IN  IF start = 0 \/ \E i \in DOMAIN object : object[i] = Refused THEN NoObject ELSE object
=============================================================================
