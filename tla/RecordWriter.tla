---------------------------- MODULE RecordWriter ----------------------------
(***************************************************************************)
(* The records RecordLayout is about, as WMI writes them, and as a record  *)
(* that was damaged differs.  A record is described by                     *)
(*   class, number   its class; what its columns of numbers hold           *)
(*   present         the columns that have a string, a SID or an array     *)
(*   order           the pieces of the heap, in the order they are there   *)
(*   wide            the pieces that are strings but not ASCII             *)
(*   damage          <<what, the column, a number>>                        *)
(*   next            the word that follows the strings of an array, one    *)
(*                   that is no offset (Beyond) or the class name's        *)
(* Piece <<i, 0>> belongs to column i, piece <<i, k>> is string k of the   *)
(* array in column i, and the class name is <<0, 0>>; a piece is its own   *)
(* text.  What may be damaged are the sizes in front of the heap, an entry *)
(* of the table, the length of a SID or an array, an offset in an array,   *)
(* and the zero byte of the heap's last string: without it the string ends *)
(* some bytes behind the record, at the first zero there happens to be.    *)
(***************************************************************************)
EXTENDS RecordLayout

NameSize == 6      \* the class name, the first piece of every heap
SidSize  == 8
ArrayStrings == 2  \* the strings of an array
Beyond   == 1000   \* an offset or a size that no record has

HeaderDamage == {"class", "remaining", "next", "byte", "data"}

Kind(class, p) ==
  IF p[2] > 0 THEN "string" ELSE Layout[class].columns[p[1]]

HeapColumns(class) ==
  {i \in DOMAIN Layout[class].columns : Layout[class].columns[i] \in {"string", "sid", "array"}}

(* The pieces that the columns present have.                               *)
Pieces(class, present) ==
  {<<i, k>> \in present \X (0 .. ArrayStrings) : k = 0 \/ Layout[class].columns[i] = "array"}

TextLength(p) == (p[1] + p[2]) % 3

PieceSize(w, p) ==
  CASE Kind(w.class, p) = "sid"    -> 4 + SidSize
    [] Kind(w.class, p) = "array"  -> 4 * (1 + ArrayStrings)
    [] Kind(w.class, p) = "string" ->
         IF p \in w.wide THEN 1 + 2 * (TextLength(p) + 1) ELSE 1 + TextLength(p) + 1

Offset(w, j) == FoldLeft(LAMBDA at, p : at + PieceSize(w, p), NameSize, SubSeq(w.order, 1, j - 1))
Place(w, p)  == Offset(w, CHOOSE j \in DOMAIN w.order : w.order[j] = p)

Hurt(w, what, i) == w.damage[1] = what /\ w.damage[2] = i
Unended(w, p)    == w.damage[1] = "unended" /\ p = Last(w.order)

Item(w, p) ==
  LET kind   == Kind(w.class, p)
      number == p[2] = 0 /\ Hurt(w, "length", p[1])
  IN  [kind    |-> IF kind # "string" THEN kind ELSE IF p \in w.wide THEN "wide" ELSE "ascii",
       length  |-> IF number THEN w.damage[3]
                   ELSE IF Unended(w, p) THEN TextLength(p) + 1 + w.damage[3]
                   ELSE CASE kind = "sid" -> SidSize [] kind = "array" -> ArrayStrings
                          [] kind = "string" -> TextLength(p),
       entries |-> IF kind # "array" THEN <<>>
                   ELSE [k \in 1 .. ArrayStrings |->
                           IF k = 2 /\ Hurt(w, "element", p[1]) THEN Beyond
                           ELSE Place(w, <<p[1], k>>)]
                          \o (IF w.next = 0 THEN <<0, Beyond>> ELSE <<Beyond>>),
       text    |-> IF number \/ Unended(w, p) THEN Garbled ELSE p]

NamePiece == [kind |-> "ascii", length |-> NameSize - 2, entries |-> <<>>, text |-> <<0, 0>>]

Written(w) ==
  LET l         == Layout[w.class]
      dataSize  == Offset(w, Len(w.order) + 1)
      remaining == 4 + l.skip + GetTocSize(l.columns) + 4 + 1 + 4 + dataSize
      Size(what, size) == IF w.damage[1] = what THEN Beyond ELSE size
  IN  [class     |-> IF w.damage[1] = "class" THEN "another" ELSE w.class,
       size      |-> GuidSize + 16 + remaining,
       remaining |-> Size("remaining", remaining),
       nextSize  |-> Size("next", 4),
       nextByte  |-> IF w.damage[1] = "byte" THEN 255 ELSE 1,
       dataSize  |-> Size("data", dataSize),
       toc       |-> [i \in DOMAIN l.columns |->
                        IF i \notin HeapColumns(w.class) THEN w.number
                        ELSE IF i \notin w.present THEN 0
                        ELSE IF Hurt(w, "entry", i) THEN Beyond
                        ELSE Place(w, <<i, 0>>)],
       heap      |-> [o \in {0} \union {Place(w, w.order[j]) : j \in DOMAIN w.order} |->
                        IF o = 0 THEN NamePiece
                        ELSE Item(w, CHOOSE p \in Pieces(w.class, w.present) : Place(w, p) = o)]]

-----------------------------------------------------------------------------
(* A length for which the size of a SID (4 more) or of an array (4 for the *)
(* number and for each) needs more than 32 bits: what is left of it is     *)
(* small, and fits.                                                        *)
Wraps(type, n) == (IF type = "sid" THEN n + 4 ELSE (n + 1) * 4) >= Word

(* What a reader gets of a record.  The whole record is lost with          *)
(* - a damaged size or hash in front of the heap;                          *)
(* - a SID or an array that is out of the heap or longer than it, or ends  *)
(*   the record (< for <=), whole as it may be; but not with a length that *)
(*   wraps, wherever it is;                                                *)
(* - in four of the classes, a string that is out of the heap, runs past   *)
(*   it or is wide;                                                        *)
(* - class SMTP, whose last column is never within the table (< for <=).   *)
RecordLost(w) ==
  LET Type(i)    == Layout[w.class].columns[i]
      OffHeap(i) == i \in w.present /\ Hurt(w, "entry", i)
      Wrapped(i) == Hurt(w, "length", i) /\ Wraps(Type(i), w.damage[3])
  IN  \/ w.class = "SMTP"
      \/ w.damage[1] \in HeaderDamage
      \/ \E i \in w.present : /\ Type(i) \in {"sid", "array"}
                              /\ \/ OffHeap(i)
                                 \/ ~ Wrapped(i) /\ (Hurt(w, "length", i) \/ Last(w.order) = <<i, 0>>)
      \/ /\ ~ Layout[w.class].lenient
         /\ \E i \in w.present : /\ Type(i) = "string"
                                 /\ \/ OffHeap(i) \/ <<i, 0>> \in w.wide
                                    \/ Unended(w, <<i, 0>>) /\ w.damage[3] > 0

(* Otherwise each column has the value written, and damage to one is seen  *)
(* in no other.  A string that cannot be had is unset.  The strings of an  *)
(* array end where one is out of the heap, and one that runs more than a   *)
(* byte past it is left out.  Garbled are a wide string in an array, a     *)
(* string that has no end, and a SID whose length wraps; an array whose    *)
(* number wraps goes on with what the next word is the offset of.          *)
ColumnAsWritten(w, i) ==
  LET type    == Layout[w.class].columns[i]
      Str(p)  == IF p \in w.wide \/ Unended(w, p) THEN Garbled ELSE p
      Runs(p, far) == Unended(w, p) /\ w.damage[3] > far
      strings == [k \in 1 .. (IF Hurt(w, "element", i) THEN 1 ELSE ArrayStrings) |-> <<i, k>>]
      had     == SelectSeq(strings, LAMBDA p : ~ Runs(p, 1))
      behind  == IF Hurt(w, "length", i) /\ w.next = 0 THEN <<<<0, 0>>>> ELSE <<>>
  IN  IF i \notin HeapColumns(w.class)
        THEN IF type = "sint32" /\ w.number = 0 THEN Unset ELSE w.number
      ELSE IF i \notin w.present \/ Hurt(w, "entry", i) THEN Unset
      ELSE IF type = "array" THEN [k \in DOMAIN had |-> Str(had[k])] \o behind
      ELSE IF type = "sid"   THEN IF Hurt(w, "length", i) THEN Garbled ELSE <<i, 0>>
      ELSE IF <<i, 0>> \in w.wide \/ Runs(<<i, 0>>, 0) THEN Unset ELSE Str(<<i, 0>>)

AsWritten(w) ==
  IF RecordLost(w) THEN NoObject
  ELSE [i \in DOMAIN Layout[w.class].columns |-> ColumnAsWritten(w, i)]
=============================================================================
