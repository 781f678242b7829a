\* Does the prefix search find every key?  The bounds of MCPrefixSearch.tla.
CONSTANTS
  NoPage <- LeafPointer
  AdminPage <- MCAdmin
  Trees <- MCTrees
  Queries <- MCQueries
  Faults <- MCFaults
SPECIFICATION Spec
INVARIANTS
  FindsAll
CHECK_DEADLOCK FALSE
