SPECIFICATION Spec
CONSTANTS
  NoMessage = NoMessage
  NoOneof = NoOneof
  NoField = NoField
  EmptyCell = EmptyCell
  NoRules = NoRules
  NoIdentifier = NoIdentifier
  NoAuth = NoAuth
  NoClaim = NoClaim
  NullRow = NullRow
  AuthColumn = "foo_id"
  Callers = {c1, c2}
  FieldsOf <- MCFieldsOf
  Nesting <- MCNesting
  Messages <- MCMessages
  Wrappers = {"Shape"}
  OneofRules <- MCOneofRules
  Parses <- MCParses
  EnumName <- MCEnumName
  Fold <- MCFold
  Snake <- MCSnake
  Rank <- MCRank
  FilterTrees <- MCFilterTrees
  FilterDepth <- MCFilterDepth
  Plans <- MCPlans
INVARIANTS
  QueryTypeOK
  KeptPathsTrue
  WalkFindsAll
  SearchesUnambiguous
  SortsEndInTieBreaker
  RowsMeant
  ValidIsBuilt
  GetShowsEntity
SYMMETRY Interchangeable
CHECK_DEADLOCK FALSE
