SPECIFICATION FairSpec
CONSTANTS
  Runners = {r1, r2, r3}
  Pool = 4
  PropertyLists <- MCPropertyLists
  IndexLists <- MCIndexLists
  MaxFaults = 1
INVARIANTS
  MigrationTypeOK
  SchemaWhole
  TablesTakeRows
PROPERTIES
  IndexesComplete
  DownUndoesUp
  MigrationEnds
CHECK_DEADLOCK FALSE
