---------------------------- MODULE RecordFetch ----------------------------
(***************************************************************************)
(* What reading a record promises, whatever the program: in one step the   *)
(* caller gets all the bytes of the record, in order, or nothing.  Nothing *)
(* is the answer exactly when the record is absent (no page, no TOC entry, *)
(* or a TOC entry whose size the reader does not accept for the size the   *)
(* index gives) or when a page it touches is not mapped or not in the file. *)
(***************************************************************************)
EXTENDS RecordStore

VARIABLES
  map,      \* the data mapping
  found,    \* is there a TOC entry for the location, of an accepted size?
  place,    \* [page, at, size] of the record, meaningful when found
  status,   \* "pending", "bytes" or "none"
  bytes     \* the answer

Answerable ==
  found /\ WholeRecord(map, place.page, place.at, place.size)

Init == status = "pending" /\ bytes = <<>>

Deliver ==
  /\ status = "pending"
  /\ Answerable
  /\ status' = "bytes"
  /\ bytes' = RecordBytes(map, place.page, place.at, place.size)
  /\ UNCHANGED <<map, found, place>>

Decline ==
  /\ status = "pending"
  /\ ~ Answerable
  /\ status' = "none"
  /\ UNCHANGED <<map, found, place, bytes>>

Next == Deliver \/ Decline
vars == <<map, found, place, status, bytes>>

Spec == Init /\ [][Next]_vars
=============================================================================
