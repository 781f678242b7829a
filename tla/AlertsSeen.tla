----------------------------- MODULE AlertsSeen -----------------------------
(***************************************************************************)
(* The two programs: WMI-IDS registers alerts in a live repository, and    *)
(* WMIParser is run over a copy of its files.  WmiAlerts leads to the      *)
(* repository; WMI's index of it (external) is what ConsumerTable searches. *)
(***************************************************************************)
EXTENDS ConsumerTable, WmiAlerts

CONSTANTS
  Hash,          \* the order of names in the index: that of their hashes
  RecordOf(_, _) \* the record WMI writes for a class and a content

seenVars == <<vars, alertVars>>

(* An instance in the repository is named by its record, the class and the *)
(* key; a binding's key is that of its filter and its consumer.            *)
Name(b) == b[1] \o b[2][1] \o b[2][2]

Stored ==
  {[class |-> "Filter", key |-> f, content |-> filters[f]] : f \in DOMAIN filters}
    \union {[class |-> c[1], key |-> c[2], content |-> consumers[c]] : c \in DOMAIN consumers}
    \union {[class |-> "Binding", key |-> Name(b), content |-> "none"] : b \in bindings}

RecordName(s) == s.class \o s.key
EntryOf(s) ==
  [InstanceID |-> Hash[s.key], Type |-> s.class, state |-> "ok", record |-> RecordName(s)]

(* A consumer has a reference from each binding; its path is the binding's.*)
RefFrom(b) == [state |-> "ok", lengths |-> <<1, 1, 1, 1>>, size |-> 24, path |-> Name(b)]

RepositoryIndex ==
  LET Sort(es) == SetToSortSeq(es, LAMBDA a, b : a.InstanceID < b.InstanceID)
      Of(class) == {s \in Stored : s.class = class}
      stored(r) == CHOOSE s \in Stored : RecordName(s) = r
  IN  [classes   |-> SetToSeq({c[1] : c \in DOMAIN consumers}),
       instances |-> [class \in DOMAIN Layout |-> Sort({EntryOf(s) : s \in Of(class)})],
       written   |-> [r \in {RecordName(s) : s \in Stored} |->
                        RecordOf(stored(r).class, stored(r).content)],
       refs      |-> [r \in {c[1] \o c[2] : c \in DOMAIN consumers} |->
                        SetToSeq({RefFrom(b) : b \in {b \in bindings : b[2][1] \o b[2][2] = r}})],
       hits      |-> [p \in {Name(b) : b \in bindings} |->
                        <<EntryOf([class |-> "Binding", key |-> p])>>],
       fails     |-> {}]

(* The service is stopped between two calls, or after the last.            *)
CopyRepository ==
  /\ pc = "alerts" /\ step = "idle"
  /\ index' = RepositoryIndex
  /\ pc' = "search"
  /\ UNCHANGED <<tableVars, request, progress, alertVars>>

SeenNext ==
  \/ pc = "alerts" /\ AlertNext /\ UNCHANGED vars
  \/ CopyRepository
  \/ Next /\ UNCHANGED alertVars
-----------------------------------------------------------------------------
(* Of an alert that was returned, the consumer is found by its name, with  *)
(* what it reports and a binding to it; and a command for all consumers    *)
(* shows it, unless a consumer of another class has its name, when one of  *)
(* the two is left out (Register-Alert, AddConsumer, GetConsumerBinding).  *)
AlertsShown ==
  pc = "done" =>
    \A k \in {k \in DOMAIN calls : calls[k].outcome = "returned"} :
      LET alert == calls[k].alert
          class == alert.consumer[1]
          id    == Hash[alert.consumer[2]]
          same  == {n \in DOMAIN shown : shown[n].entry.InstanceID = id}
          Right(s) == s.object = AsWritten(RecordOf(class, consumers[alert.consumer]))
          HasIt(s) == \E n \in DOMAIN s.bindings :
                        s.bindings[n].entry.InstanceID = Hash[Name(<<alert.filter, alert.consumer>>)]
      IN  /\ request = [what |-> "instance", type |-> class, id |-> id] =>
               Len(shown) = 1 /\ Right(shown[1]) /\ HasIt(shown[1])
          /\ request.what = "all" =>
               \/ \E n \in same : Right(shown[n])
               \/ \E c \in DOMAIN consumers : c[1] # class /\ c[2] = alert.consumer[2]
=============================================================================
