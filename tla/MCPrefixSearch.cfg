\* The prefix search of WMIParser: see MCPrefixSearch.tla for the bounds.
CONSTANTS
  NoPage <- LeafPointer
  AdminPage <- MCAdmin
  Trees <- MCTrees
  Queries <- MCQueries
  Faults <- MCFaults
SPECIFICATION FairSpec
INVARIANTS
  ResultsOnce
  TrueMeansSearched
PROPERTIES
  Terminates
\* The search ends.
CHECK_DEADLOCK FALSE
