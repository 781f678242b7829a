----------------------------- MODULE SortedTable -----------------------------
(***************************************************************************)
(* The tables of consumers, filters and bindings: a vector sorted by the   *)
(* id, into which AddConsumer, AddFilter and AddBinding put an entry where *)
(* BinarySearch says, unless it finds the id there.  An id stands for the  *)
(* hash it is, compared by _stricmp; low, mid and high count from zero.    *)
(***************************************************************************)
EXTENDS Integers, Sequences, SequencesExt

CONSTANTS
  Instances,   \* the entries a parser may find in the index (InstanceStruct)
  NoInstance   \* no entry yet

ASSUME InstancesAssumption  == \A c \in Instances : c.InstanceID \in Int
ASSUME NoInstanceAssumption == NoInstance \notin Instances

VARIABLES
  table,       \* Consumers, Filters or Bindings
  cs,          \* the entry being added
  low, high,   \* of BinarySearch
  adding       \* BinarySearch is running

tableVars == <<table, cs, low, high, adding>>

TableInit ==
  /\ table = <<>> /\ cs = NoInstance
  /\ low = 0 /\ high = -1 /\ adding = FALSE

AddInstance(c) ==
  /\ ~ adding
  /\ cs' = c
  /\ low' = 0 /\ high' = Len(table) - 1
  /\ adding' = TRUE
  /\ UNCHANGED table

mid         == (low + high) \div 2
member      == table[mid + 1].InstanceID

SearchLower ==
  /\ adding /\ low <= high /\ cs.InstanceID < member
  /\ high' = mid - 1
  /\ UNCHANGED <<table, cs, low, adding>>

SearchUpper ==
  /\ adding /\ low <= high /\ cs.InstanceID > member
  /\ low' = mid + 1
  /\ UNCHANGED <<table, cs, high, adding>>

(* Mutant: the entry takes the place of the one that has its id.           *)
AlreadyThereReplaces ==
  /\ adding /\ low <= high /\ cs.InstanceID = member
  /\ table' = [table EXCEPT ![mid + 1] = cs]
  /\ adding' = FALSE
  /\ UNCHANGED <<cs, low, high>>

(* The id is in the table: the entry is left out.                          *)
AlreadyThere ==
  /\ adding /\ low <= high /\ cs.InstanceID = member
  /\ adding' = FALSE
  /\ UNCHANGED <<table, cs, low, high>>

(* Mutant: the entry is put behind the place found.                        *)
InsertBehind ==
  /\ adding /\ low > high
  /\ table' = InsertAt(table, IF low = Len(table) THEN low + 1 ELSE low + 2, cs)
  /\ adding' = FALSE
  /\ UNCHANGED <<cs, low, high>>

Insert ==
  /\ adding /\ low > high
  /\ table' = InsertAt(table, low + 1, cs)
  /\ adding' = FALSE
  /\ UNCHANGED <<cs, low, high>>

Search == SearchLower \/ SearchUpper \/ AlreadyThere \/ Insert

TableNext == (\E c \in Instances : AddInstance(c)) \/ Search
TableSpec == TableInit /\ [][TableNext]_tableVars

-----------------------------------------------------------------------------
(* The table is sorted, and no id is in it twice (AddConsumer, AddFilter,  *)
(* AddBinding with BinarySearch).                                          *)
Sorted ==
  \A i, j \in DOMAIN table : i < j => table[i].InstanceID < table[j].InstanceID

(* What BinarySearch keeps true as it goes: the id is above everything     *)
(* before low and below everything after high.                             *)
Bracketed ==
  adding =>
    /\ low \in 0 .. Len(table) /\ high \in -1 .. Len(table) - 1 /\ low <= high + 1
    /\ \A i \in 1 .. low : table[i].InstanceID < cs.InstanceID
    /\ \A i \in high + 2 .. Len(table) : cs.InstanceID < table[i].InstanceID

(* The vector is the set of the first entry of each id, and adding one is  *)
(* all or nothing (KeepFirst).                                             *)
First == INSTANCE KeepFirst WITH
           kept    <- {table[i] : i \in DOMAIN table},
           offered <- IF adding THEN cs ELSE NoInstance
KeepsFirst == First!Spec
=============================================================================
