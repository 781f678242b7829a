-------------------------- MODULE MCMappingReaders --------------------------
(* Small instance: files of eight pieces, five saves over three files (two *)
(* files are written twice), two of the saves cut short.                   *)
EXTENDS MappingReaders
=============================================================================
