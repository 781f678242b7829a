---------------------------- MODULE ConsumerTable ----------------------------
(***************************************************************************)
(* WMIParser: the commands that show consumers, filters and bindings.      *)
(*   --consumerinstance ns             the consumers of every class        *)
(*   --consumerinstance ns type        those of one class                  *)
(*   --consumerinstance ns type name   one of them, with its bindings      *)
(*   --filterinstance ns [name], --bindinginstance ns                      *)
(* A command searches the index, puts what it finds in its table           *)
(* (SortedTable), and prints the table, creating an object from the record *)
(* of each entry (RecordLayout).  Searches and reads of records are taken  *)
(* by their outcome, which PrefixSearch and RecordRead are about.          *)
(***************************************************************************)
EXTENDS SortedTable, RecordWriter

ConsumerClasses == {"CommandLine", "ActiveScript", "LogFile", "NTEventLog", "SMTP"}

VARIABLES
  index,       \* what the index and the records hold, see below
  request,     \* the command: what, type and id of the name
  pc,
  unsearched,  \* the consumer classes that are still to be searched
  left,        \* records of the last search, not yet looked at
  printed,     \* how many entries of the table were printed
  refs, paths, \* references of the consumer printed; paths read from them
  shown        \* what was printed: entries, their objects, their bindings

(* index.classes    the classes derived from __EventConsumer, as found     *)
(* index.instances  for a class, its instances, as found                   *)
(* index.written    the record of an entry, by its name                    *)
(* index.refs       the references to a consumer, by its record            *)
(* index.hits       for a path, what a search for it finds                 *)
(* index.fails      the searches that return false                         *)
(* An entry is [InstanceID, Type, state, record]; its key may have no      *)
(* location ("nokey"), its record may be out of reach ("unread").  A       *)
(* reference is [state, lengths, size, path]: the lengths of its strings,  *)
(* its bytes, and what its last string says ("" if it says nothing).       *)
progress == <<unsearched, left, printed, refs, paths, shown>>
vars     == <<tableVars, index, request, pc, progress>>

Searched(what) == what \notin index.fails
HasKey(c)      == c.state # "nokey"
Rec(c)         == Written(index.written[c.record])

InitFor(ix, rq) ==
  /\ TableInit
  /\ index = ix /\ request = rq
  /\ unsearched = <<>> /\ left = <<>>
  /\ printed = 0
  /\ refs = <<>> /\ paths = <<>>
  /\ shown = <<>>

Input == UNCHANGED <<index, request>>

-----------------------------------------------------------------------------
(* ParseAllConsumers: the classes, then the instances of each.  A class    *)
(* whose search fails is passed over.                                      *)
SearchClasses ==
  /\ pc = "search" /\ request.what = "all"
  /\ IF Searched("classes") THEN pc' = "class" /\ unsearched' = index.classes
                            ELSE pc' = "failed" /\ UNCHANGED unsearched
  /\ Input /\ UNCHANGED <<tableVars, left, printed, refs, paths, shown>>

(* Mutant: the loop over the classes ends where one cannot be searched.    *)
SearchClassOrEnd ==
  /\ pc = "class" /\ unsearched # <<>>
  /\ IF Searched(Head(unsearched))
       THEN pc' = "take" /\ left' = index.instances[Head(unsearched)] /\ unsearched' = Tail(unsearched)
       ELSE unsearched' = <<>> /\ UNCHANGED <<pc, left>>
  /\ Input /\ UNCHANGED <<tableVars, printed, refs, paths, shown>>

SearchClass ==
  /\ pc = "class" /\ unsearched # <<>>
  /\ unsearched' = Tail(unsearched)
  /\ IF Searched(Head(unsearched))
       THEN pc' = "take" /\ left' = index.instances[Head(unsearched)]
       ELSE UNCHANGED <<pc, left>>
  /\ Input /\ UNCHANGED <<tableVars, printed, refs, paths, shown>>

ClassesEnd ==
  /\ pc = "class" /\ unsearched = <<>>
  /\ pc' = "print"
  /\ Input /\ UNCHANGED <<tableVars, progress>>

(* ParseAllConsumersByType, ParseAllFilterInstances, ParseAllBindings.     *)
SearchInstances ==
  /\ pc = "search" /\ request.what = "type"
  /\ IF Searched(request.type)
       THEN pc' = "take" /\ left' = index.instances[request.type]
       ELSE pc' = "failed" /\ UNCHANGED left
  /\ Input /\ UNCHANGED <<tableVars, unsearched, printed, refs, paths, shown>>

(* ParseConsumerInstance takes the first of what the name finds,           *)
(* ParseFilterInstance only what is found alone; a record whose key has    *)
(* no location fails either.                                               *)
Named == SelectSeq(index.instances[request.type], LAMBDA c : c.InstanceID = request.id)

SearchInstance ==
  /\ pc = "search" /\ request.what = "instance"
  /\ IF /\ Searched(request.type) /\ Named # <<>>
        /\ request.type = "Filter" => Len(Named) = 1
        /\ HasKey(Named[1])
       THEN pc' = "take" /\ left' = <<Named[1]>>
       ELSE pc' = "failed" /\ UNCHANGED left
  /\ Input /\ UNCHANGED <<tableVars, unsearched, printed, refs, paths, shown>>

-----------------------------------------------------------------------------
(* The loop over the records: ConstructInstanceRecord,                     *)
(* ConstructConsumerRecord or ConstructBindingRecord, and the table.       *)
Take ==
  /\ pc = "take" /\ ~ adding /\ left # <<>>
  /\ IF HasKey(Head(left)) THEN AddInstance(Head(left)) ELSE UNCHANGED tableVars
  /\ left' = Tail(left)
  /\ Input /\ UNCHANGED <<pc, unsearched, printed, refs, paths, shown>>

Add ==
  /\ Search
  /\ Input /\ UNCHANGED <<pc, progress>>

TakeEnd ==
  /\ pc = "take" /\ ~ adding /\ left = <<>>
  /\ pc' = IF request.what = "all" THEN "class" ELSE "print"
  /\ Input /\ UNCHANGED <<tableVars, progress>>

-----------------------------------------------------------------------------
(* EventConsumer::Create, by the name of the type or by the hash in the    *)
(* record; a class that is neither has no object.  EventFilterClass and    *)
(* FilterToConsumerBindingClass have a Create of their own.                *)
ByType(type, rec) ==
  IF type \in DOMAIN Layout THEN Create(type, rec) ELSE NoObject
ByHash(rec) ==
  IF rec.class \in ConsumerClasses THEN Create(rec.class, rec) ELSE NoObject

Object(c) ==
  IF c.state = "unread" THEN NoObject
  ELSE IF request.what = "all" THEN ByHash(Rec(c)) ELSE ByType(request.type, Rec(c))

(* Mutant: the command for all asks for bindings.                          *)
BoundOfAll(c) == request.what = "all" /\ Object(c) # NoObject

(* Only the command with a name asks for bindings, and only those of a     *)
(* consumer that has an object.                                            *)
Bound(c) == request.what = "instance" /\ request.type # "Filter" /\ Object(c) # NoObject

PrintEntry ==
  /\ pc = "print" /\ printed < Len(table)
  /\ LET c == table[printed + 1]
     IN  /\ shown' = Append(shown, [entry |-> c, object |-> Object(c), bindings |-> <<>>])
         /\ IF Bound(c) /\ Searched("refs") THEN pc' = "refs" /\ refs' = index.refs[c.record]
                                            ELSE UNCHANGED <<pc, refs>>
  /\ printed' = printed + 1
  /\ Input /\ UNCHANGED <<tableVars, unsearched, left, paths>>

PrintEnd ==
  /\ pc = "print" /\ printed = Len(table)
  /\ pc' = "done"
  /\ Input /\ UNCHANGED <<tableVars, progress>>

-----------------------------------------------------------------------------
(* ObjectReferenceClass::Create: four strings of 16-bit characters, each   *)
(* after its length, which is doubled in 32 bits.  Only the last may end   *)
(* with the record.                                                        *)
FieldAt(ref, j) ==
  FoldLeft(LAMBDA at, n : at + 4 + ((2 * n) % Word), 0, SubSeq(ref.lengths, 1, j - 1))

Reference(ref) ==
  \A j \in 1 .. 4 :
    LET at == FieldAt(ref, j) + 4
        to == at + ((2 * ref.lengths[j]) % Word)
    IN  at < ref.size /\ (IF j < 4 THEN to < ref.size ELSE to <= ref.size)

Usable(ref) == ref.state = "ok" /\ Reference(ref)
WithPath(ref) == IF ref.path = "" THEN paths ELSE Append(paths, ref.path)

(* Mutant: a reference that cannot be read is passed over.                 *)
ReadRefOrSkip ==
  /\ pc = "refs" /\ refs # <<>>
  /\ paths' = IF Usable(Head(refs)) THEN WithPath(Head(refs)) ELSE paths
  /\ refs' = Tail(refs)
  /\ Input /\ UNCHANGED <<tableVars, pc, unsearched, left, printed, shown>>

(* GetConsumerBinding: a reference is parsed, read and created, and its    *)
(* path kept; the first that cannot be ends the loop.                      *)
ReadRef ==
  /\ pc = "refs" /\ refs # <<>>
  /\ IF Usable(Head(refs))
       THEN paths' = WithPath(Head(refs)) /\ refs' = Tail(refs)
       ELSE refs' = <<>> /\ UNCHANGED paths
  /\ Input /\ UNCHANGED <<tableVars, pc, unsearched, left, printed, shown>>

BindingShown(c) ==
  [entry |-> c, object |-> IF c.state = "unread" THEN NoObject ELSE Create("Binding", Rec(c))]

(* A path is the beginning of a key: the binding is what it finds alone.   *)
SearchPath ==
  /\ pc = "refs" /\ refs = <<>> /\ paths # <<>>
  /\ LET hits == index.hits[Head(paths)]
     IN  shown' = IF Searched(Head(paths)) /\ Len(hits) = 1 /\ HasKey(hits[1])
                    THEN [shown EXCEPT ![printed].bindings = Append(@, BindingShown(hits[1]))] ELSE shown
  /\ paths' = Tail(paths)
  /\ Input /\ UNCHANGED <<tableVars, pc, unsearched, left, printed, refs>>

RefsEnd ==
  /\ pc = "refs" /\ refs = <<>> /\ paths = <<>>
  /\ pc' = "print"
  /\ Input /\ UNCHANGED <<tableVars, progress>>

Collect == SearchClasses \/ SearchClass \/ ClassesEnd \/ SearchInstances \/ SearchInstance
             \/ Take \/ Add \/ TakeEnd
Show    == PrintEntry \/ PrintEnd \/ ReadRef \/ SearchPath \/ RefsEnd
Next    == Collect \/ Show
-----------------------------------------------------------------------------
(* The entries a command is given, in the order it is given them.          *)
Given ==
  LET Keyed(s) == SelectSeq(s, HasKey)
      found    == SelectSeq(index.classes, LAMBDA class : Searched(class))
  IN  CASE request.what = "all"  -> FlattenSeq([k \in DOMAIN found |-> Keyed(index.instances[found[k]])])
        [] request.what = "type" -> Keyed(index.instances[request.type])
        [] request.what = "instance" -> <<Named[1]>>

(* What is shown is one entry for each id that was found: the first given, *)
(* whatever its class, in the order of the ids.  A search that fails for a *)
(* class loses the entries of that class and no other (ParseAllConsumers,  *)
(* AddConsumer, Print).                                                    *)
ShownAreFirst ==
  pc = "done" =>
    /\ {shown[k].entry : k \in DOMAIN shown} =
         {Given[k] : k \in {k \in DOMAIN Given :
                              \A j \in 1 .. k - 1 : Given[j].InstanceID # Given[k].InstanceID}}
    /\ \A j, k \in DOMAIN shown : j < k => shown[j].entry.InstanceID < shown[k].entry.InstanceID

(* An object has the values that were written, or there is none, and what  *)
(* is lost with damage is what AsWritten says and nothing else (the Create *)
(* functions).                                                             *)
ParsedAsWritten ==
  LET Right(s) == s.object = IF s.entry.state = "unread" THEN NoObject
                             ELSE AsWritten(index.written[s.entry.record])
  IN  \A k \in DOMAIN shown :
        Right(shown[k]) /\ \A j \in DOMAIN shown[k].bindings : Right(shown[k].bindings[j])

(* The bindings shown with a consumer are those of the references before   *)
(* the first that cannot be read, in their order, without those whose path *)
(* is empty or finds none or several; the bindings after it are lost       *)
(* without a word (GetConsumerBinding).                                    *)
BindingsUntilBroken ==
  pc = "done" =>
    \A k \in DOMAIN shown :
      LET c       == shown[k].entry
          all     == index.refs[c.record]
          broken  == SelectInSeq(all, LAMBDA r : ~ Usable(r))
          before  == IF broken = 0 THEN all ELSE SubSeq(all, 1, broken - 1)
          single  == SelectSeq(before, LAMBDA r : /\ r.path # "" /\ Searched(r.path)
                                                  /\ Len(index.hits[r.path]) = 1
                                                  /\ HasKey(index.hits[r.path][1]))
      IN  [j \in DOMAIN shown[k].bindings |-> shown[k].bindings[j].entry] =
            IF Bound(c) /\ Searched("refs")
              THEN [j \in DOMAIN single |-> index.hits[single[j].path][1]] ELSE <<>>
=============================================================================
