--------------------------- MODULE MCUnusedSpace ----------------------------
(* Small instance: a file of three pages of six units, maps of one to four *)
(* entries that may be unmapped, double or past the end of the file, and   *)
(* tables of contents with no object, with one that leaves room after it,  *)
(* with two that leave room between them, and with one that runs on for    *)
(* two pages.                                                              *)
EXTENDS UnusedSpace
Obj(o, s) == [Offset |-> o, Size |-> s]
MCTocs == {<<>>, <<Obj(2, 3)>>, <<Obj(5, 1), Obj(3, 1)>>, <<Obj(2, 13)>>}
=============================================================================
