\* Alerts, consumers, filters and bindings: see MCConsumers.tla.
CONSTANTS
  GuidSize = 64
  Unset = Unset
  Refused = Refused
  Word = 65536
  Garbled = Garbled
  NoInstance = NoInstance
  Instances <- MCInstances
  Triggers <- MCTriggers
  Actions <- MCActions
  MaxCalls = 2
  Hash <- MCHash
  RecordOf <- MCRecordOf
SPECIFICATION Spec
INVARIANTS
  Sorted
  ShownAreFirst
  ParsedAsWritten
  BindingsUntilBroken
  OrphansOnlyOfStopped
  AlertsUntilNameReused
  AlertsShown
PROPERTIES
  KeepsFirst
\* A command comes to its end, or fails.
CHECK_DEADLOCK FALSE
