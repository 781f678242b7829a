------------------------ MODULE TablesAlertsProofs -------------------------
(***************************************************************************)
(* The tables that consumers, filters and bindings are put into, for every *)
(* set of entries and every length: they stay sorted, the binary search    *)
(* finds the place, and adding implements KeepFirst.  And what             *)
(* Register-Alert leaves in the repository, for every set of triggers and  *)
(* actions, any number of calls, and a failure anywhere.                   *)
(***************************************************************************)
EXTENDS SortedTable, WmiAlerts, TLAPS

TableTypeOK ==
  /\ table \in Seq(Instances)
  /\ cs \in Instances \union {NoInstance}
  /\ adding \in BOOLEAN
  /\ adding => cs \in Instances
  /\ low \in Int /\ high \in Int

TableInv == TableTypeOK /\ Sorted /\ Bracketed

-----------------------------------------------------------------------------
(* The middle of two places lies between them (BinarySearch).              *)
LEMMA Middle ==
  ASSUME NEW a \in Int, NEW b \in Int, a <= b
  PROVE  (a + b) \div 2 \in a .. b
  BY SMT

-----------------------------------------------------------------------------
LEMMA TableInitOK == TableInit => TableInv
<1>1. SUFFICES ASSUME TableInit PROVE TableInv
  OBVIOUS
<1>2. TableTypeOK
  <2>1. <<>> \in Seq(Instances)
    OBVIOUS
  <2>2. 0 \in Int /\ -1 \in Int
    BY SMT
  <2>3. QED BY <1>1, <2>1, <2>2, Zenon DEF TableInit, TableTypeOK
<1>3. Sorted
  BY <1>1 DEF TableInit, Sorted
<1>4. Bracketed
  BY <1>1 DEF TableInit, Bracketed
<1>5. QED BY <1>2, <1>3, <1>4 DEF TableInv

(* Starting to add puts the bracket around the whole table.                *)
LEMMA AddKeeps ==
  ASSUME TableInv, NEW c \in Instances, AddInstance(c)
  PROVE  TableInv'
<1> USE DEF TableInv
<1>1. Len(table) \in Nat
  BY DEF TableTypeOK
<1>2. TableTypeOK'
  BY <1>1 DEF TableTypeOK, AddInstance
<1>3. Sorted'
  BY DEF Sorted, AddInstance
<1>4. Bracketed'
  BY <1>1 DEF Bracketed, AddInstance
<1>5. QED BY <1>2, <1>3, <1>4

(* What holds at the middle while the search runs.                         *)
LEMMA AtMiddle ==
  ASSUME TableInv, adding, low <= high
  PROVE  /\ mid \in low .. high /\ mid + 1 \in 1 .. Len(table)
         /\ \A i \in 1 .. mid : table[i].InstanceID < member
         /\ \A i \in mid + 2 .. Len(table) : member < table[i].InstanceID
         /\ \A i \in 1 .. Len(table) : table[i].InstanceID \in Int
         /\ cs.InstanceID \in Int
<1> USE DEF TableInv
<1>1. low \in Int /\ high \in Int /\ Len(table) \in Nat /\ cs \in Instances
      /\ DOMAIN table = 1 .. Len(table)
  BY DEF TableTypeOK
<1>2. mid \in low .. high
  BY <1>1, Middle DEF mid
<1>3. mid + 1 \in 1 .. Len(table)
  BY <1>1, <1>2, SMT DEF Bracketed
<1>4. \A i \in 1 .. Len(table) : table[i].InstanceID \in Int
  BY InstancesAssumption, SMT DEF TableTypeOK
<1>5. \A i \in 1 .. mid : i \in DOMAIN table /\ mid + 1 \in DOMAIN table /\ i < mid + 1
  BY <1>1, <1>2, <1>3, SMT
<1>6. \A i \in mid + 2 .. Len(table) : i \in DOMAIN table /\ mid + 1 \in DOMAIN table /\ mid + 1 < i
  BY <1>1, <1>2, <1>3, SMT
<1>7. QED BY <1>1, <1>2, <1>3, <1>4, <1>5, <1>6, InstancesAssumption DEF Sorted, member

LEMMA LowerKeeps ==
  ASSUME TableInv, SearchLower
  PROVE  TableInv'
<1> USE DEF TableInv
<1>1. low \in Int /\ high \in Int /\ Len(table) \in Nat
  BY DEF TableTypeOK
<1>2. adding /\ low <= high /\ cs.InstanceID < member /\ high' = mid - 1
      /\ UNCHANGED <<table, cs, low, adding>>
  BY DEF SearchLower
<1>3. TableTypeOK'
  BY <1>1, <1>2, AtMiddle, SMT DEF TableTypeOK
<1>4. Sorted'
  BY <1>2 DEF Sorted
<1>5. \A i \in mid + 1 .. Len(table) : cs.InstanceID < table[i].InstanceID
  <2>1. SUFFICES ASSUME NEW i \in mid + 1 .. Len(table)
                 PROVE  cs.InstanceID < table[i].InstanceID
    OBVIOUS
  <2>2. CASE i = mid + 1
    BY <1>2, <2>2 DEF member
  <2>3. CASE i # mid + 1
    <3>1. i \in mid + 2 .. Len(table) /\ i \in 1 .. Len(table)
      BY <1>1, <1>2, <2>3, AtMiddle, SMT
    <3>2. member < table[i].InstanceID /\ table[i].InstanceID \in Int /\ member \in Int
      BY <1>2, <3>1, AtMiddle DEF member
    <3>3. QED BY <1>2, <3>2, AtMiddle, SMT
  <2>4. QED BY <2>2, <2>3
<1>6. Bracketed'
  BY <1>1, <1>2, <1>5, AtMiddle, SMT DEF Bracketed
<1>7. QED BY <1>3, <1>4, <1>6

LEMMA UpperKeeps ==
  ASSUME TableInv, SearchUpper
  PROVE  TableInv'
<1> USE DEF TableInv
<1>1. low \in Int /\ high \in Int /\ Len(table) \in Nat
  BY DEF TableTypeOK
<1>2. adding /\ low <= high /\ cs.InstanceID > member /\ low' = mid + 1
      /\ UNCHANGED <<table, cs, high, adding>>
  BY DEF SearchUpper
<1>3. TableTypeOK'
  BY <1>1, <1>2, AtMiddle, SMT DEF TableTypeOK
<1>4. Sorted'
  BY <1>2 DEF Sorted
<1>5. \A i \in 1 .. mid + 1 : table[i].InstanceID < cs.InstanceID
  <2>1. SUFFICES ASSUME NEW i \in 1 .. mid + 1
                 PROVE  table[i].InstanceID < cs.InstanceID
    OBVIOUS
  <2>2. member \in Int /\ cs.InstanceID \in Int /\ member < cs.InstanceID
    BY <1>2, AtMiddle, SMT DEF member
  <2>3. CASE i = mid + 1
    BY <2>2, <2>3 DEF member
  <2>4. CASE i # mid + 1
    <3>1. i \in 1 .. mid /\ i \in 1 .. Len(table)
      BY <1>1, <1>2, <2>4, AtMiddle, SMT
    <3>2. table[i].InstanceID < member /\ table[i].InstanceID \in Int
      BY <1>2, <3>1, AtMiddle
    <3>3. QED BY <2>2, <3>2, SMT
  <2>5. QED BY <2>3, <2>4
<1>6. Bracketed'
  BY <1>1, <1>2, <1>5, AtMiddle, SMT DEF Bracketed
<1>7. QED BY <1>3, <1>4, <1>6

(* When the search has ended low is the place, and the id is not there.    *)
LEMMA AtPlace ==
  ASSUME TableInv, adding, low > high
  PROVE  /\ low + 1 \in 1 .. Len(table) + 1
         /\ \A i \in 1 .. low : table[i].InstanceID < cs.InstanceID
         /\ \A i \in low + 1 .. Len(table) : cs.InstanceID < table[i].InstanceID
<1>1. low \in Int /\ high \in Int /\ Len(table) \in Nat
  BY DEF TableInv, TableTypeOK
<1>2. high + 1 = low
  BY <1>1, SMT DEF TableInv, Bracketed
<1>3. QED BY <1>1, <1>2, SMT DEF TableInv, Bracketed

(* Where the entries are after an insertion (vector::insert at index).     *)
LEMMA InsertPlaces ==
  ASSUME TableInv, Insert
  PROVE  /\ table' \in Seq(Instances)
         /\ Len(table') = Len(table) + 1
         /\ \A i \in 1 .. low : table'[i] = table[i]
         /\ table'[low + 1] = cs
         /\ \A i \in low + 2 .. Len(table) + 1 : table'[i] = table[i - 1]
<1> DEFINE before == SubSeq(table, 1, low)
           after  == SubSeq(table, low + 1, Len(table))
           left   == before \o <<cs>>
<1>1. adding /\ low > high /\ table' = InsertAt(table, low + 1, cs)
  BY DEF Insert
<1>2. table \in Seq(Instances) /\ cs \in Instances /\ low \in 0 .. Len(table)
  BY <1>1, AtPlace, SMT DEF TableInv, TableTypeOK
<1>3. (low + 1) - 1 = low
  BY <1>2, SMT
<1>4. table' = left \o after
  BY <1>1, <1>3 DEF InsertAt
<1>5. before \in Seq(Instances) /\ Len(before) = low /\ \A i \in 1 .. low : before[i] = table[i]
  BY <1>2, SMT
<1>6. /\ after \in Seq(Instances) /\ Len(after) = Len(table) - low
      /\ \A i \in 1 .. Len(table) - low : after[i] = table[low + i]
  BY <1>2, SMT
<1> HIDE DEF before, after
<1>7. /\ left \in Seq(Instances) /\ Len(left) = low + 1 /\ left[low + 1] = cs
      /\ \A i \in 1 .. low : left[i] = table[i]
  BY <1>2, <1>5, SMT
<1> HIDE DEF left
<1>8. /\ left \o after \in Seq(Instances) /\ Len(left \o after) = Len(table) + 1
      /\ \A i \in 1 .. low + 1 : (left \o after)[i] = left[i]
      /\ \A i \in low + 2 .. Len(table) + 1 : (left \o after)[i] = after[i - (low + 1)]
  BY <1>2, <1>6, <1>7, SMT
<1>9. \A i \in low + 2 .. Len(table) + 1 : after[i - (low + 1)] = table[i - 1]
  <2>1. SUFFICES ASSUME NEW i \in low + 2 .. Len(table) + 1
                 PROVE  after[i - (low + 1)] = table[i - 1]
    OBVIOUS
  <2>2. i - (low + 1) \in 1 .. Len(table) - low /\ low + (i - (low + 1)) = i - 1
    BY <1>2, SMT
  <2>3. QED BY <1>6, <2>2
<1>10. low + 1 \in 1 .. low + 1 /\ \A i \in 1 .. low : i \in 1 .. low + 1
  BY <1>2, SMT
<1>11. QED BY <1>4, <1>7, <1>8, <1>9, <1>10

LEMMA InsertKeeps ==
  ASSUME TableInv, Insert
  PROVE  TableInv'
<1> USE DEF TableInv
<1>1. low \in Int /\ high \in Int /\ Len(table) \in Nat /\ table \in Seq(Instances)
      /\ DOMAIN table = 1 .. Len(table)
  BY DEF TableTypeOK
<1>2. adding /\ low > high /\ table' = InsertAt(table, low + 1, cs) /\ adding' = FALSE
      /\ UNCHANGED <<cs, low, high>>
  BY DEF Insert
<1>3. cs \in Instances
  BY <1>2 DEF TableTypeOK
<1>4. /\ table' \in Seq(Instances) /\ Len(table') = Len(table) + 1
      /\ \A i \in 1 .. low : table'[i] = table[i]
      /\ table'[low + 1] = cs
      /\ \A i \in low + 2 .. Len(table) + 1 : table'[i] = table[i - 1]
  BY InsertPlaces
<1>5. TableTypeOK'
  BY <1>1, <1>2, <1>3, <1>4 DEF TableTypeOK
<1>6. Sorted'
  <2>1. SUFFICES ASSUME NEW i \in 1 .. Len(table) + 1, NEW j \in 1 .. Len(table) + 1, i < j
                 PROVE  table'[i].InstanceID < table'[j].InstanceID
    BY <1>1, <1>4 DEF Sorted
  <2>2. \A k \in 1 .. Len(table) : table[k].InstanceID \in Int
    BY <1>1, InstancesAssumption
  <2>3. \A k, l \in 1 .. Len(table) : k < l => table[k].InstanceID < table[l].InstanceID
    BY <1>1 DEF Sorted
  <2>4. CASE j \in 1 .. low
    <3>1. i \in 1 .. low /\ i \in 1 .. Len(table) /\ j \in 1 .. Len(table)
      BY <1>1, <1>2, <2>1, <2>4, AtPlace, SMT
    <3>2. QED BY <1>4, <2>1, <2>3, <2>4, <3>1
  <2>5. CASE j = low + 1
    <3>1. i \in 1 .. low
      BY <1>1, <2>1, <2>5, SMT
    <3>2. QED BY <1>2, <1>4, <2>5, <3>1, AtPlace
  <2>6. CASE j \in low + 2 .. Len(table) + 1
    <3>1. j - 1 \in low + 1 .. Len(table) /\ j - 1 \in 1 .. Len(table)
      BY <1>1, <1>2, <2>6, AtPlace, SMT
    <3>2. table'[j] = table[j - 1]
      BY <1>4, <2>6
    <3>3. CASE i \in 1 .. low
      <4>1. i \in 1 .. Len(table) /\ i < j - 1
        BY <1>1, <1>2, <2>6, <3>3, AtPlace, SMT
      <4>2. QED BY <1>4, <2>3, <3>1, <3>2, <3>3, <4>1
    <3>4. CASE i = low + 1
      BY <1>2, <1>4, <3>1, <3>2, <3>4, AtPlace
    <3>5. CASE i \in low + 2 .. Len(table) + 1
      <4>1. i - 1 \in 1 .. Len(table) /\ i - 1 < j - 1
        BY <1>1, <1>2, <2>1, <3>5, AtPlace, SMT
      <4>2. QED BY <1>4, <2>3, <3>1, <3>2, <3>5, <4>1
    <3>6. QED BY <1>1, <3>3, <3>4, <3>5, SMT
  <2>7. QED BY <1>1, <2>4, <2>5, <2>6, SMT
<1>7. Bracketed'
  BY <1>2 DEF Bracketed
<1>8. QED BY <1>5, <1>6, <1>7

LEMMA ThereKeeps ==
  ASSUME TableInv, AlreadyThere
  PROVE  TableInv'
  BY DEF TableInv, AlreadyThere, TableTypeOK, Sorted, Bracketed

LEMMA StutterKeeps ==
  ASSUME TableInv, UNCHANGED tableVars
  PROVE  TableInv'
  BY DEF TableInv, tableVars, TableTypeOK, Sorted, Bracketed

LEMMA TableStep == TableInv /\ [TableNext]_tableVars => TableInv'
<1>1. SUFFICES ASSUME TableInv, [TableNext]_tableVars PROVE TableInv'
  OBVIOUS
<1>2. CASE \E c \in Instances : AddInstance(c)
  BY <1>1, <1>2, AddKeeps
<1>3. CASE SearchLower
  BY <1>1, <1>3, LowerKeeps
<1>4. CASE SearchUpper
  BY <1>1, <1>4, UpperKeeps
<1>5. CASE AlreadyThere
  BY <1>1, <1>5, ThereKeeps
<1>6. CASE Insert
  BY <1>1, <1>6, InsertKeeps
<1>7. CASE UNCHANGED tableVars
  BY <1>1, <1>7, StutterKeeps
<1>8. QED BY <1>1, <1>2, <1>3, <1>4, <1>5, <1>6, <1>7 DEF TableNext, Search

(* AddConsumer, AddFilter and AddBinding keep the table sorted, with no id *)
(* twice, whatever is added and in whatever order.                         *)
THEOREM TableSorted == TableSpec => []Sorted
<1>1. TableInit => TableInv
  BY TableInitOK
<1>2. TableInv /\ [TableNext]_tableVars => TableInv'
  BY TableStep
<1>3. TableInv => Sorted
  BY DEF TableInv
<1>4. QED BY <1>1, <1>2, <1>3, PTL DEF TableSpec

-----------------------------------------------------------------------------
(* Adding implements KeepFirst.                                            *)
kept    == {table[i] : i \in DOMAIN table}
offered == IF adding THEN cs ELSE NoInstance

LEMMA AddOffers ==
  ASSUME NEW c \in Instances, AddInstance(c)
  PROVE  First!Offer
  BY DEF AddInstance, First!Offer

LEMMA SearchStutters ==
  ASSUME SearchLower \/ SearchUpper
  PROVE  UNCHANGED <<kept, offered>>
  BY DEF SearchLower, SearchUpper, kept, offered

LEMMA ThereSettles ==
  ASSUME TableInv, AlreadyThere
  PROVE  First!Settle
<1>1. adding /\ low <= high /\ cs.InstanceID = member /\ adding' = FALSE
      /\ UNCHANGED <<table, cs, low, high>>
  BY DEF AlreadyThere
<1>2. mid + 1 \in DOMAIN table
  <2>1. DOMAIN table = 1 .. Len(table)
    BY DEF TableInv, TableTypeOK
  <2>2. QED BY <1>1, <2>1, AtMiddle
<1>3. First!Known(cs)
  BY <1>1, <1>2 DEF First!Known, member
<1>4. cs # NoInstance
  BY <1>1, NoInstanceAssumption DEF TableInv, TableTypeOK
<1>5. QED BY <1>1, <1>3, <1>4 DEF First!Settle

LEMMA InsertSettles ==
  ASSUME TableInv, Insert
  PROVE  First!Settle
<1>1. adding /\ low > high /\ adding' = FALSE /\ UNCHANGED cs
  BY DEF Insert
<1>2. /\ table' \in Seq(Instances) /\ Len(table') = Len(table) + 1
      /\ \A i \in 1 .. low : table'[i] = table[i]
      /\ table'[low + 1] = cs
      /\ \A i \in low + 2 .. Len(table) + 1 : table'[i] = table[i - 1]
  BY InsertPlaces
<1>3. /\ low \in 0 .. Len(table) /\ Len(table) \in Nat /\ cs \in Instances
      /\ DOMAIN table = 1 .. Len(table) /\ DOMAIN table' = 1 .. Len(table) + 1
      /\ \A i \in 1 .. Len(table) : table[i].InstanceID \in Int
      /\ cs.InstanceID \in Int
  BY <1>1, <1>2, AtPlace, InstancesAssumption, SMT DEF TableInv, TableTypeOK
<1>4. ~ First!Known(cs)
  <2>1. \A i \in 1 .. Len(table) : table[i].InstanceID # cs.InstanceID
    BY <1>1, <1>3, AtPlace, SMT
  <2>2. QED BY <1>3, <2>1 DEF First!Known
<1>5. kept' = kept \union {cs}
  <2>1. ASSUME NEW i \in DOMAIN table' PROVE table'[i] \in kept \union {cs}
    <3>1. CASE i \in 1 .. low
      BY <1>2, <1>3, <3>1, SMT DEF kept
    <3>2. CASE i = low + 1
      BY <1>2, <3>2
    <3>3. CASE i \in low + 2 .. Len(table) + 1
      <4>1. i - 1 \in DOMAIN table
        BY <1>3, <3>3, SMT
      <4>2. QED BY <1>2, <3>3, <4>1 DEF kept
    <3>4. QED BY <1>3, <2>1, <3>1, <3>2, <3>3, SMT
  <2>2. ASSUME NEW i \in DOMAIN table PROVE table[i] \in kept'
    <3>1. CASE i \in 1 .. low
      <4>1. i \in DOMAIN table'
        BY <1>3, <3>1, SMT
      <4>2. QED BY <1>2, <3>1, <4>1 DEF kept
    <3>2. CASE i \notin 1 .. low
      <4>1. i + 1 \in low + 2 .. Len(table) + 1 /\ i + 1 \in DOMAIN table' /\ (i + 1) - 1 = i
        BY <1>3, <2>2, <3>2, SMT
      <4>2. table'[i + 1] = table[i]
        BY <1>2, <4>1
      <4>3. QED BY <4>1, <4>2 DEF kept
    <3>3. QED BY <3>1, <3>2
  <2>3. cs \in kept'
    <3>1. low + 1 \in DOMAIN table'
      BY <1>3, SMT
    <3>2. QED BY <1>2, <3>1 DEF kept
  <2>4. QED BY <2>1, <2>2, <2>3 DEF kept
<1>6. cs # NoInstance
  BY <1>3, NoInstanceAssumption
<1>7. QED BY <1>1, <1>4, <1>5, <1>6 DEF First!Settle, kept

LEMMA TableStepKeeps ==
  TableInv /\ [TableNext]_tableVars => [First!Next]_<<kept, offered>>
<1>1. SUFFICES ASSUME TableInv, [TableNext]_tableVars
               PROVE  First!Next \/ UNCHANGED <<kept, offered>>
  OBVIOUS
<1>2. CASE \E c \in Instances : AddInstance(c)
  BY <1>2, AddOffers DEF First!Next
<1>3. CASE SearchLower \/ SearchUpper
  BY <1>3, SearchStutters
<1>4. CASE AlreadyThere
  BY <1>1, <1>4, ThereSettles DEF First!Next
<1>5. CASE Insert
  BY <1>1, <1>5, InsertSettles DEF First!Next
<1>6. CASE UNCHANGED tableVars
  BY <1>6 DEF tableVars, kept, offered
<1>7. QED BY <1>1, <1>2, <1>3, <1>4, <1>5, <1>6 DEF TableNext, Search

(* Whatever is added and in whatever order, the table holds the first      *)
(* entry of each id and nothing else, and every addition either adds its   *)
(* entry or leaves the table alone (AddConsumer, AddFilter, AddBinding).   *)
THEOREM TableKeepsFirst == TableSpec => KeepsFirst
<1>1. TableInit => First!Init
  BY DEF TableInit, First!Init
<1>2. TableInit => TableInv
  BY TableInitOK
<1>3. TableInv /\ [TableNext]_tableVars => TableInv'
  BY TableStep
<1>4. TableInv /\ [TableNext]_tableVars => [First!Next]_<<kept, offered>>
  BY TableStepKeeps
<1>5. QED BY <1>1, <1>2, <1>3, <1>4, PTL DEF TableSpec, KeepsFirst, First!Spec, kept, offered

-----------------------------------------------------------------------------
(* WMI-IDS.                                                                *)
Alerts == {NewAlert(t, a) : t \in Triggers, a \in Actions}
Made   == [alert : Alerts, put : 0 .. 3, outcome : {"running", "stopped", "returned"}]

AlertTypeOK ==
  /\ calls \in Seq(Made)
  /\ step \in {"idle", "consumer", "binding"}

(* Where Register-Alert is is what the last call has put.                  *)
StepInv ==
  /\ step # "idle" => Len(calls) > 0 /\ calls[Len(calls)].outcome = "running"
  /\ step = "consumer" => calls[Len(calls)].put = 1
  /\ step = "binding"  => calls[Len(calls)].put = 2
  /\ \A k \in DOMAIN calls : calls[k].outcome = "returned" => calls[k].put = 3

(* Put(j, n): call j has put n instances.                                  *)
Put(j, n) == calls[j].put >= n

(* A name that was put names what the last call to put it asked for.       *)
FilterInv ==
  \A k \in DOMAIN calls : Put(k, 1) =>
    \E m \in DOMAIN calls :
      /\ Put(m, 1) /\ calls[m].alert.filter = calls[k].alert.filter
      /\ \A j \in DOMAIN calls :
           Put(j, 1) /\ calls[j].alert.filter = calls[k].alert.filter => j <= m
      /\ filters[calls[k].alert.filter] = calls[m].alert.watches
      /\ calls[k].alert.filter \in DOMAIN filters

ConsumerInv ==
  \A k \in DOMAIN calls : Put(k, 2) =>
    \E m \in DOMAIN calls :
      /\ Put(m, 2) /\ calls[m].alert.consumer = calls[k].alert.consumer
      /\ \A j \in DOMAIN calls :
           Put(j, 2) /\ calls[j].alert.consumer = calls[k].alert.consumer => j <= m
      /\ consumers[calls[k].alert.consumer] = calls[m].alert.watches
      /\ calls[k].alert.consumer \in DOMAIN consumers

BindingInv ==
  \A k \in DOMAIN calls :
    calls[k].outcome = "returned" => <<calls[k].alert.filter, calls[k].alert.consumer>> \in bindings

(* An instance is bound, or left by a call that was stopped, or it is that *)
(* of the call under way.                                                  *)
FilterOwned ==
  \A f \in DOMAIN filters :
    \/ \E b \in bindings : b[1] = f
    \/ \E k \in DOMAIN calls : calls[k].outcome = "stopped" /\ calls[k].alert.filter = f
    \/ step # "idle" /\ Alert.filter = f

ConsumerOwned ==
  \A c \in DOMAIN consumers :
    \/ \E b \in bindings : b[2] = c
    \/ \E k \in DOMAIN calls : calls[k].outcome = "stopped" /\ calls[k].alert.consumer = c
    \/ step = "binding" /\ Alert.consumer = c

AlertInv ==
  /\ AlertTypeOK /\ StepInv
  /\ FilterInv /\ ConsumerInv /\ BindingInv
  /\ FilterOwned /\ ConsumerOwned

-----------------------------------------------------------------------------
LEMMA AlertInitial == AlertInit => AlertInv
<1> SUFFICES ASSUME AlertInit PROVE AlertInv
  OBVIOUS
<1>1. calls = <<>> /\ step = "idle" /\ DOMAIN filters = {} /\ DOMAIN consumers = {}
  BY DEF AlertInit
<1>2. calls \in Seq(Made) /\ DOMAIN calls = {}
  BY <1>1
<1>3. QED
  BY <1>1, <1>2
  DEF AlertInv, AlertTypeOK, StepInv, FilterInv, ConsumerInv, BindingInv, FilterOwned, ConsumerOwned

(* The first call: a call is added, and may put its filter.                *)
LEMMA SetFilterKeeps == AlertInv /\ SetFilter => AlertInv'
<1> SUFFICES ASSUME AlertInv, SetFilter PROVE AlertInv'
  OBVIOUS
<1> USE DEF AlertInv
<1>1. PICK trigger \in Triggers, action \in Actions, ok \in BOOLEAN :
        LET alert == NewAlert(trigger, action)
        IN  /\ calls' = Append(calls, [alert |-> alert, put |-> IF ok THEN 1 ELSE 0,
                                       outcome |-> IF ok THEN "running" ELSE "stopped"])
            /\ filters' = IF ok THEN Set(filters, alert.filter, alert.watches) ELSE filters
            /\ step' = IF ok THEN "consumer" ELSE "idle"
  BY DEF SetFilter
<1> DEFINE alert == NewAlert(trigger, action)
           new   == [alert |-> alert, put |-> IF ok THEN 1 ELSE 0,
                     outcome |-> IF ok THEN "running" ELSE "stopped"]
           n     == Len(calls) + 1
<1>2. step = "idle" /\ consumers' = consumers /\ bindings' = bindings
  BY DEF SetFilter
<1>3. calls \in Seq(Made) /\ calls' = Append(calls, new)
  BY <1>1 DEF AlertTypeOK
<1>4. alert \in Alerts /\ new \in Made
  BY DEF Alerts, Made
<1> HIDE DEF alert
<1>5. /\ n \in Nat /\ Len(calls') = n /\ DOMAIN calls' = 1 .. n /\ DOMAIN calls = 1 .. n - 1
      /\ \A k \in DOMAIN calls : k \in DOMAIN calls' /\ k < n /\ calls'[k] = calls[k]
      /\ n \in DOMAIN calls' /\ calls'[n] = new
      /\ calls' \in Seq(Made)
  BY <1>3, <1>4
<1>6. /\ new.alert = alert /\ new.put = (IF ok THEN 1 ELSE 0)
      /\ new.outcome = (IF ok THEN "running" ELSE "stopped")
  OBVIOUS
<1> HIDE DEF new, n
<1>7. \A k \in DOMAIN calls' : k = n \/ k \in DOMAIN calls
  BY <1>5
<1>8. filters' = IF ok THEN Set(filters, alert.filter, alert.watches) ELSE filters
  BY <1>1 DEF alert
<1>9. AlertTypeOK' /\ StepInv'
  BY <1>1, <1>5, <1>6, <1>7 DEF AlertTypeOK, StepInv
<1>10. FilterInv'
  <2> SUFFICES ASSUME NEW k \in DOMAIN calls', calls'[k].put >= 1
               PROVE  \E m \in DOMAIN calls' :
                        /\ calls'[m].put >= 1 /\ calls'[m].alert.filter = calls'[k].alert.filter
                        /\ \A j \in DOMAIN calls' :
                             calls'[j].put >= 1 /\ calls'[j].alert.filter = calls'[k].alert.filter => j <= m
                        /\ filters'[calls'[k].alert.filter] = calls'[m].alert.watches
                        /\ calls'[k].alert.filter \in DOMAIN filters'
    BY DEF FilterInv, Put
  <2>1. CASE ok /\ calls'[k].alert.filter = alert.filter
    <3>1. filters'[alert.filter] = alert.watches /\ alert.filter \in DOMAIN filters'
      BY <1>8, <2>1 DEF Set
    <3>2. \A j \in DOMAIN calls' : j <= n
      BY <1>5
    <3>3. QED
      BY <1>5, <1>6, <2>1, <3>1, <3>2
  <2>2. CASE ~ (ok /\ calls'[k].alert.filter = alert.filter)
    <3>1. k \in DOMAIN calls
      BY <1>5, <1>6, <1>7, <2>2
    <3>2. PICK m \in DOMAIN calls :
            /\ Put(m, 1) /\ calls[m].alert.filter = calls[k].alert.filter
            /\ \A j \in DOMAIN calls :
                 Put(j, 1) /\ calls[j].alert.filter = calls[k].alert.filter => j <= m
            /\ filters[calls[k].alert.filter] = calls[m].alert.watches
            /\ calls[k].alert.filter \in DOMAIN filters
      BY <1>5, <3>1 DEF FilterInv, Put
    <3>3. /\ filters'[calls[k].alert.filter] = filters[calls[k].alert.filter]
          /\ calls[k].alert.filter \in DOMAIN filters'
      BY <1>5, <1>8, <2>2, <3>1, <3>2 DEF Set
    <3>4. ASSUME NEW j \in DOMAIN calls', calls'[j].put >= 1,
                 calls'[j].alert.filter = calls'[k].alert.filter
          PROVE  j <= m
      BY <1>5, <1>6, <1>7, <2>2, <3>1, <3>2, <3>4 DEF Put
    <3>5. QED
      BY <1>5, <3>1, <3>2, <3>3, <3>4 DEF Put
  <2>3. QED
    BY <2>1, <2>2
<1>11. ConsumerInv'
  <2> SUFFICES ASSUME NEW k \in DOMAIN calls', calls'[k].put >= 2
               PROVE  \E m \in DOMAIN calls' :
                        /\ calls'[m].put >= 2 /\ calls'[m].alert.consumer = calls'[k].alert.consumer
                        /\ \A j \in DOMAIN calls' :
                             calls'[j].put >= 2 /\ calls'[j].alert.consumer = calls'[k].alert.consumer => j <= m
                        /\ consumers'[calls'[k].alert.consumer] = calls'[m].alert.watches
                        /\ calls'[k].alert.consumer \in DOMAIN consumers'
    BY DEF ConsumerInv, Put
  <2>1. \A j \in DOMAIN calls' : calls'[j].put >= 2 => j \in DOMAIN calls
    BY <1>5, <1>6, <1>7
  <2>2. k \in DOMAIN calls
    BY <2>1
  <2>3. PICK m \in DOMAIN calls :
          /\ Put(m, 2) /\ calls[m].alert.consumer = calls[k].alert.consumer
          /\ \A j \in DOMAIN calls :
               Put(j, 2) /\ calls[j].alert.consumer = calls[k].alert.consumer => j <= m
          /\ consumers[calls[k].alert.consumer] = calls[m].alert.watches
          /\ calls[k].alert.consumer \in DOMAIN consumers
    BY <1>5, <2>2 DEF ConsumerInv, Put
  <2>4. QED
    BY <1>2, <1>5, <2>1, <2>2, <2>3 DEF Put
<1>12. BindingInv'
  BY <1>2, <1>5, <1>6, <1>7 DEF BindingInv
<1>13. FilterOwned'
  <2> SUFFICES ASSUME NEW f \in DOMAIN filters'
               PROVE  \/ \E b \in bindings' : b[1] = f
                      \/ \E k \in DOMAIN calls' : calls'[k].outcome = "stopped" /\ calls'[k].alert.filter = f
                      \/ step' # "idle" /\ Alert'.filter = f
    BY DEF FilterOwned
  <2>1. CASE ok /\ f = alert.filter
    BY <1>1, <1>5, <1>6, <2>1 DEF Alert
  <2>2. CASE ~ (ok /\ f = alert.filter)
    <3>1. f \in DOMAIN filters
      BY <1>8, <2>2 DEF Set
    <3>2. QED
      BY <1>2, <1>5, <3>1 DEF FilterOwned
  <2>3. QED
    BY <2>1, <2>2
<1>14. ConsumerOwned'
  BY <1>2, <1>5 DEF ConsumerOwned
<1>15. QED
  BY <1>9, <1>10, <1>11, <1>12, <1>13, <1>14

-----------------------------------------------------------------------------
(* A call that goes on changes nothing but how far the last one is.        *)
LEMMA WentOnly ==
  ASSUME AlertTypeOK, Len(calls) > 0,
         NEW p \in 0 .. 3, NEW o \in {"running", "stopped", "returned"}, Went(p, o)
  PROVE  /\ calls' \in Seq(Made)
         /\ Len(calls) \in DOMAIN calls
         /\ DOMAIN calls' = DOMAIN calls /\ Len(calls') = Len(calls)
         /\ \A k \in DOMAIN calls : calls'[k].alert = calls[k].alert
         /\ \A k \in DOMAIN calls : k # Len(calls) => calls'[k] = calls[k]
         /\ calls'[Len(calls)].put = p /\ calls'[Len(calls)].outcome = o
<1> DEFINE n    == Len(calls)
           last == [calls[n] EXCEPT !.put = p, !.outcome = o]
<1>1. calls \in Seq(Made) /\ n \in DOMAIN calls /\ DOMAIN calls = 1 .. n /\ n \in Nat
  BY DEF AlertTypeOK
<1>2. calls[n] \in Made
  BY <1>1
<1>3. last \in Made /\ last.alert = calls[n].alert /\ last.put = p /\ last.outcome = o
  BY <1>2 DEF Made
<1>4. calls' = [calls EXCEPT ![n] = last]
  BY <1>1, <1>2 DEF Went, Made
<1> HIDE DEF last
<1>5. /\ DOMAIN calls' = DOMAIN calls /\ calls'[n] = last
      /\ \A k \in DOMAIN calls : k # n => calls'[k] = calls[k]
      /\ calls' \in Seq(Made) /\ Len(calls') = n
  BY <1>1, <1>3, <1>4
<1>6. QED
  BY <1>1, <1>3, <1>5

(* Where no call passes the first (second) instance the filters           *)
(* (consumers) stay named as they are.                                     *)
LEMMA FiltersStay ==
  ASSUME FilterInv, filters' = filters, DOMAIN calls' = DOMAIN calls,
         \A k \in DOMAIN calls : calls'[k].alert = calls[k].alert,
         \A k \in DOMAIN calls : Put(k, 1)' <=> Put(k, 1)
  PROVE  FilterInv'
<1> SUFFICES ASSUME NEW k \in DOMAIN calls, Put(k, 1)'
             PROVE  \E m \in DOMAIN calls :
                      /\ Put(m, 1)' /\ calls'[m].alert.filter = calls'[k].alert.filter
                      /\ \A j \in DOMAIN calls :
                           Put(j, 1)' /\ calls'[j].alert.filter = calls'[k].alert.filter => j <= m
                      /\ filters[calls'[k].alert.filter] = calls'[m].alert.watches
                      /\ calls'[k].alert.filter \in DOMAIN filters
  BY DEF FilterInv
<1>1. PICK m \in DOMAIN calls :
        /\ Put(m, 1) /\ calls[m].alert.filter = calls[k].alert.filter
        /\ \A j \in DOMAIN calls :
             Put(j, 1) /\ calls[j].alert.filter = calls[k].alert.filter => j <= m
        /\ filters[calls[k].alert.filter] = calls[m].alert.watches
        /\ calls[k].alert.filter \in DOMAIN filters
  BY DEF FilterInv
<1>2. QED
  BY <1>1

LEMMA ConsumersStay ==
  ASSUME ConsumerInv, consumers' = consumers, DOMAIN calls' = DOMAIN calls,
         \A k \in DOMAIN calls : calls'[k].alert = calls[k].alert,
         \A k \in DOMAIN calls : Put(k, 2)' <=> Put(k, 2)
  PROVE  ConsumerInv'
<1> SUFFICES ASSUME NEW k \in DOMAIN calls, Put(k, 2)'
             PROVE  \E m \in DOMAIN calls :
                      /\ Put(m, 2)' /\ calls'[m].alert.consumer = calls'[k].alert.consumer
                      /\ \A j \in DOMAIN calls :
                           Put(j, 2)' /\ calls'[j].alert.consumer = calls'[k].alert.consumer => j <= m
                      /\ consumers[calls'[k].alert.consumer] = calls'[m].alert.watches
                      /\ calls'[k].alert.consumer \in DOMAIN consumers
  BY DEF ConsumerInv
<1>1. PICK m \in DOMAIN calls :
        /\ Put(m, 2) /\ calls[m].alert.consumer = calls[k].alert.consumer
        /\ \A j \in DOMAIN calls :
             Put(j, 2) /\ calls[j].alert.consumer = calls[k].alert.consumer => j <= m
        /\ consumers[calls[k].alert.consumer] = calls[m].alert.watches
        /\ calls[k].alert.consumer \in DOMAIN consumers
  BY DEF ConsumerInv
<1>2. QED
  BY <1>1

-----------------------------------------------------------------------------
LEMMA SetConsumerKeeps == AlertInv /\ SetConsumer => AlertInv'
<1> SUFFICES ASSUME AlertInv, SetConsumer PROVE AlertInv'
  OBVIOUS
<1> DEFINE n == Len(calls)
<1>1. /\ step = "consumer" /\ filters' = filters /\ bindings' = bindings
      /\ n > 0 /\ calls[n].put = 1 /\ calls[n].outcome = "running"
  BY DEF SetConsumer, AlertInv, StepInv
<1>2. CASE consumers' = Set(consumers, Alert.consumer, Alert.watches)
             /\ step' = "binding" /\ Went(2, "running")
  <2>1. /\ calls' \in Seq(Made) /\ n \in DOMAIN calls /\ DOMAIN calls' = DOMAIN calls /\ Len(calls') = n
        /\ \A k \in DOMAIN calls : calls'[k].alert = calls[k].alert
        /\ \A k \in DOMAIN calls : k # n => calls'[k] = calls[k]
        /\ calls'[n].put = 2 /\ calls'[n].outcome = "running"
    BY <1>1, <1>2, WentOnly DEF AlertInv
  <2>2. DOMAIN calls = 1 .. n /\ n \in Nat
    BY DEF AlertInv, AlertTypeOK
  <2> HIDE DEF n
  <2>3. AlertTypeOK' /\ StepInv'
    BY <1>1, <1>2, <2>1 DEF AlertInv, AlertTypeOK, StepInv
  <2>4. FilterInv'
    <3>1. \A k \in DOMAIN calls : Put(k, 1)' <=> Put(k, 1)
      BY <1>1, <2>1 DEF Put
    <3>2. QED
      BY <1>1, <2>1, <3>1, FiltersStay DEF AlertInv
  <2>5. ConsumerInv'
    <3> SUFFICES ASSUME NEW k \in DOMAIN calls, calls'[k].put >= 2
                 PROVE  \E m \in DOMAIN calls :
                          /\ calls'[m].put >= 2 /\ calls'[m].alert.consumer = calls'[k].alert.consumer
                          /\ \A j \in DOMAIN calls :
                               calls'[j].put >= 2 /\ calls'[j].alert.consumer = calls'[k].alert.consumer => j <= m
                          /\ consumers'[calls'[k].alert.consumer] = calls'[m].alert.watches
                          /\ calls'[k].alert.consumer \in DOMAIN consumers'
      BY <2>1 DEF ConsumerInv, Put
    <3>1. Alert = calls[n].alert
      BY DEF Alert, n
    <3>2. CASE calls[k].alert.consumer = Alert.consumer
      <4>1. /\ consumers'[Alert.consumer] = Alert.watches
            /\ Alert.consumer \in DOMAIN consumers'
        BY <1>2 DEF Set
      <4>2. \A j \in DOMAIN calls : j <= n
        BY <2>2
      <4>3. /\ n \in DOMAIN calls /\ calls'[n].alert = Alert /\ calls'[n].put >= 2
            /\ calls'[k].alert.consumer = Alert.consumer
        BY <2>1, <3>1, <3>2
      <4>4. QED
        BY <4>1, <4>2, <4>3
    <3>3. CASE calls[k].alert.consumer # Alert.consumer
      <4>1. k # n /\ Put(k, 2)
        BY <2>1, <3>1, <3>3 DEF Put
      <4>2. PICK m \in DOMAIN calls :
              /\ Put(m, 2) /\ calls[m].alert.consumer = calls[k].alert.consumer
              /\ \A j \in DOMAIN calls :
                   Put(j, 2) /\ calls[j].alert.consumer = calls[k].alert.consumer => j <= m
              /\ consumers[calls[k].alert.consumer] = calls[m].alert.watches
              /\ calls[k].alert.consumer \in DOMAIN consumers
        BY <4>1 DEF AlertInv, ConsumerInv
      <4>3. m # n /\ calls'[m].put >= 2
        BY <2>1, <3>1, <3>3, <4>2 DEF Put
      <4>4. /\ consumers'[calls[k].alert.consumer] = consumers[calls[k].alert.consumer]
            /\ calls[k].alert.consumer \in DOMAIN consumers'
        BY <1>2, <3>3, <4>2 DEF Set
      <4>5. ASSUME NEW j \in DOMAIN calls, calls'[j].put >= 2, calls[j].alert.consumer = calls[k].alert.consumer
            PROVE  j <= m
        <5>1. j # n
          BY <3>1, <3>3, <4>5
        <5>2. Put(j, 2)
          BY <2>1, <4>5, <5>1 DEF Put
        <5>3. QED
          BY <4>2, <4>5, <5>2
      <4>6. QED
        BY <2>1, <4>2, <4>3, <4>4, <4>5
    <3>4. QED
      BY <3>2, <3>3
  <2>6. BindingInv'
    BY <1>1, <2>1 DEF AlertInv, BindingInv
  <2>7. Alert' = Alert
    BY <2>1 DEF Alert, n
  <2>8. FilterOwned'
    BY <1>1, <1>2, <2>1, <2>7 DEF AlertInv, FilterOwned
  <2>9. ConsumerOwned'
    <3>1. \A c \in DOMAIN consumers' : c \in DOMAIN consumers \/ c = Alert.consumer
      BY <1>2 DEF Set
    <3>2. QED
      BY <1>1, <1>2, <2>1, <2>7, <3>1 DEF AlertInv, ConsumerOwned
  <2>10. QED
    BY <2>3, <2>4, <2>5, <2>6, <2>8, <2>9 DEF AlertInv
<1>3. CASE UNCHANGED consumers /\ step' = "idle" /\ Went(1, "stopped")
  <2>1. /\ calls' \in Seq(Made) /\ n \in DOMAIN calls /\ DOMAIN calls' = DOMAIN calls /\ Len(calls') = n
        /\ \A k \in DOMAIN calls : calls'[k].alert = calls[k].alert
        /\ \A k \in DOMAIN calls : k # n => calls'[k] = calls[k]
        /\ calls'[n].put = 1 /\ calls'[n].outcome = "stopped"
    BY <1>1, <1>3, WentOnly DEF AlertInv
  <2>2. Alert = calls[n].alert
    BY DEF Alert
  <2> HIDE DEF n
  <2>3. AlertTypeOK' /\ StepInv'
    BY <1>1, <1>3, <2>1 DEF AlertInv, AlertTypeOK, StepInv
  <2>4. \A k \in DOMAIN calls : (Put(k, 1)' <=> Put(k, 1)) /\ (Put(k, 2)' <=> Put(k, 2))
    BY <1>1, <2>1 DEF Put
  <2>5. FilterInv' /\ ConsumerInv'
    BY <1>1, <1>3, <2>1, <2>4, FiltersStay, ConsumersStay DEF AlertInv
  <2>6. BindingInv'
    BY <1>1, <2>1 DEF AlertInv, BindingInv
  <2>7. FilterOwned' /\ ConsumerOwned'
    BY <1>1, <1>3, <2>1, <2>2 DEF AlertInv, FilterOwned, ConsumerOwned
  <2>8. QED
    BY <2>3, <2>5, <2>6, <2>7 DEF AlertInv
<1>4. QED
  BY <1>2, <1>3 DEF SetConsumer

LEMMA SetBindingKeeps == AlertInv /\ SetBinding => AlertInv'
<1> SUFFICES ASSUME AlertInv, SetBinding PROVE AlertInv'
  OBVIOUS
<1> DEFINE n   == Len(calls)
           new == <<Alert.filter, Alert.consumer>>
<1>1. /\ step = "binding" /\ step' = "idle" /\ filters' = filters /\ consumers' = consumers
      /\ n > 0 /\ calls[n].put = 2 /\ calls[n].outcome = "running"
  BY DEF SetBinding, AlertInv, StepInv
<1>2. PICK p \in {2, 3}, o \in {"returned", "stopped"} :
        /\ Went(p, o)
        /\ \/ o = "returned" /\ p = 3 /\ bindings' = bindings \union {new}
           \/ o = "stopped" /\ p = 2 /\ bindings' = bindings
  BY DEF SetBinding
<1>3. /\ calls' \in Seq(Made) /\ n \in DOMAIN calls /\ DOMAIN calls' = DOMAIN calls /\ Len(calls') = n
      /\ \A k \in DOMAIN calls : calls'[k].alert = calls[k].alert
      /\ \A k \in DOMAIN calls : k # n => calls'[k] = calls[k]
      /\ calls'[n].put = p /\ calls'[n].outcome = o
  BY <1>1, <1>2, WentOnly DEF AlertInv
<1>4. Alert = calls[n].alert
  BY DEF Alert
<1> HIDE DEF n
<1>5. AlertTypeOK' /\ StepInv'
  BY <1>1, <1>2, <1>3 DEF AlertInv, AlertTypeOK, StepInv
<1>6. \A k \in DOMAIN calls : (Put(k, 1)' <=> Put(k, 1)) /\ (Put(k, 2)' <=> Put(k, 2))
  BY <1>1, <1>2, <1>3 DEF Put
<1>7. FilterInv' /\ ConsumerInv'
  BY <1>1, <1>3, <1>6, FiltersStay, ConsumersStay DEF AlertInv
<1>8. BindingInv'
  BY <1>2, <1>3, <1>4 DEF AlertInv, BindingInv
<1>9. bindings \subseteq bindings'
  BY <1>2
<1>10. new[1] = Alert.filter /\ new[2] = Alert.consumer
  OBVIOUS
<1>11. (o = "returned" /\ new \in bindings') \/ (o = "stopped")
  BY <1>2
<1> HIDE DEF new
<1>12. FilterOwned'
  BY <1>1, <1>3, <1>4, <1>9, <1>10, <1>11 DEF AlertInv, FilterOwned
<1>13. ConsumerOwned'
  BY <1>1, <1>3, <1>4, <1>9, <1>10, <1>11 DEF AlertInv, ConsumerOwned
<1>14. QED
  BY <1>5, <1>7, <1>8, <1>12, <1>13 DEF AlertInv

-----------------------------------------------------------------------------
LEMMA AlertInvariance == AlertSpec => []AlertInv
<1>1. AlertInv /\ UNCHANGED alertVars => AlertInv'
  BY DEF AlertInv, alertVars, AlertTypeOK, StepInv, FilterInv, ConsumerInv, BindingInv,
         FilterOwned, ConsumerOwned, Put, Alert
<1>2. AlertInv /\ [AlertNext]_alertVars => AlertInv'
  BY <1>1, SetFilterKeeps, SetConsumerKeeps, SetBindingKeeps DEF AlertNext
<1>3. QED
  BY <1>2, AlertInitial, PTL DEF AlertSpec

(* A filter or a consumer that nothing is bound to was left by a call of   *)
(* Register-Alert that was stopped.                                        *)
THEOREM OrphansExplained == AlertSpec => []OrphansOnlyOfStopped
<1>1. AlertInv => OrphansOnlyOfStopped
  BY DEF AlertInv, OrphansOnlyOfStopped, FilterOwned, ConsumerOwned
<1>2. QED
  BY <1>1, AlertInvariance, PTL

(* An alert that was returned is bound, and its filter and its consumer    *)
(* are those of the last call that put one of their names.                 *)
THEOREM AlertsLast == AlertSpec => []AlertsUntilNameReused
<1>1. ASSUME AlertInv PROVE AlertsUntilNameReused
  <2> SUFFICES ASSUME NEW k \in DOMAIN calls, calls[k].outcome = "returned"
               PROVE  LET alert == calls[k].alert
                          filter(j)   == calls[j].put >= 1 /\ calls[j].alert.filter = alert.filter
                          consumer(j) == calls[j].put >= 2 /\ calls[j].alert.consumer = alert.consumer
                      IN  /\ <<alert.filter, alert.consumer>> \in bindings
                          /\ filters[alert.filter] = calls[LastPut(filter)].alert.watches
                          /\ consumers[alert.consumer] = calls[LastPut(consumer)].alert.watches
    BY DEF AlertsUntilNameReused
  <2> DEFINE filter(j)   == calls[j].put >= 1 /\ calls[j].alert.filter = calls[k].alert.filter
             consumer(j) == calls[j].put >= 2 /\ calls[j].alert.consumer = calls[k].alert.consumer
  <2>1. calls[k].put = 3 /\ DOMAIN calls \subseteq Nat
    BY <1>1 DEF AlertInv, StepInv, AlertTypeOK
  <2>2. <<calls[k].alert.filter, calls[k].alert.consumer>> \in bindings
    BY <1>1 DEF AlertInv, BindingInv
  <2>3. filters[calls[k].alert.filter] = calls[LastPut(filter)].alert.watches
    <3>1. PICK m \in DOMAIN calls :
            /\ filter(m) /\ \A j \in DOMAIN calls : filter(j) => j <= m
            /\ filters[calls[k].alert.filter] = calls[m].alert.watches
      BY <1>1, <2>1 DEF AlertInv, FilterInv, Put
    <3>2. LastPut(filter) = m
      BY <2>1, <3>1 DEF LastPut
    <3>3. QED
      BY <3>1, <3>2
  <2>4. consumers[calls[k].alert.consumer] = calls[LastPut(consumer)].alert.watches
    <3>1. PICK m \in DOMAIN calls :
            /\ consumer(m) /\ \A j \in DOMAIN calls : consumer(j) => j <= m
            /\ consumers[calls[k].alert.consumer] = calls[m].alert.watches
      BY <1>1, <2>1 DEF AlertInv, ConsumerInv, Put
    <3>2. LastPut(consumer) = m
      BY <2>1, <3>1 DEF LastPut
    <3>3. QED
      BY <3>1, <3>2
  <2>5. QED
    BY <2>2, <2>3, <2>4
<1>2. QED
  BY <1>1, AlertInvariance, PTL
=============================================================================
