SPECIFICATION Spec
CONSTANTS
  c1 = c1
  c2 = c2
  Containers = {c1, c2}
  Servers = {c1}
  Releases = {3, 7, 14}
  MaxRetries = 2
  MaxFaults = 1
INVARIANTS
  TypeOK
  WholeRevisions
  ServedComplete
  NothingElseBlocks
PROPERTY ServesAgain
