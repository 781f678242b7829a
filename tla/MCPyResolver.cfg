\* python-cim, from an index key to an object: see MCPyResolver.tla for the bounds.
CONSTANTS
  NoPage <- LeafPointer
  Trees <- MCAllTrees
  Queries <- MCPyQueries
  Faults <- MCFaults
  System = "s"
  MaxCalls = 2
  Calls <- MCCalls
  Objects <- MCObjects
  CD <- MCCD
  CI <- MCCI
  IL <- MCIL
SPECIFICATION ResolverSpec
INVARIANTS
  LookupRight
  DefinitionsRight
  InstanceFoundUnlessForeign
  InstancesListed
\* The last call ends.
CHECK_DEADLOCK FALSE
