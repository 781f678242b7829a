\* The walking commands of WMIParser: see MCRepositoryWalk.tla for the bounds.
CONSTANTS
  root = root
  a = a
  b = b
  c = c
  X = X
  Y = Y
  Z = Z
  Root = root
  System = System
  NoClass = NoClass
  ClassNames = {X, Y, Z}
  Repositories <- MCRepositories
  CmdSize = 4
SPECIFICATION FairSpec
INVARIANTS
  NamespacesFound
  ClassesUntilRefused
  BasesAreAncestors
  SeenUntilHalt
PROPERTIES
  QuitsOrHangs
\* The program quits, hangs in the loop that reads a line, or is ended by an exception.
CHECK_DEADLOCK FALSE
