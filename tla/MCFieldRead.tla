---------------------------- MODULE MCFieldRead ----------------------------
(***************************************************************************)
(* Bounds for TwoReaders: pages of 3 bytes, records of up to 8 bytes (one  *)
(* to four pages), 3 logical pages over a file of 2, every mapping of the  *)
(* ones to the others or to nothing, duplicates included; and fields of up *)
(* to 7 bytes that start in the first 7, those that reach over the end of  *)
(* the record included.  TOC entries are smaller and larger than the index *)
(* says, by up to 7 bytes.                                                 *)
(***************************************************************************)
EXTENDS TwoReaders

E(id, off, sz) == [RecordID |-> id, Offset |-> off, Size |-> sz]

(* The wanted entry alone; after another record's; after an entry with its *)
(* id that is not valid (no offset, an offset outside the page, a size     *)
(* that wraps); before a second entry with its id; and no entry at all.    *)
MCTocs ==
  LET Others == {E(2, 1, 2), E(1, 0, 2), E(1, 3, 2), E(1, 2, 15)}
  IN  {<<E(1, off, sz)>> : off \in 1 .. 2, sz \in 1 .. 8}
        \union {<<o, E(1, 2, 6)>> : o \in Others}
        \union {<<E(1, 2, 6), E(1, 1, 1)>>, <<>>}

L(page, id, sz) == [LogicalID |-> page, RecordID |-> id, Size |-> sz]

(* Locations with records of their size, smaller ones and none; one with   *)
(* no record id, one with no size and one outside the mapping.             *)
MCTargets ==
  {L(page, 1, sz) : page \in {0, 1}, sz \in {1, 6, 7}}
    \union {L(0, 0, 4), L(0, 1, 0), L(3, 1, 6)}
=============================================================================
