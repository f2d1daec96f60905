SPECIFICATION Spec
CONSTANTS
  NoMessage = NoMessage
  NoOneof = NoOneof
  NoField = NoField
  EmptyCell = EmptyCell
  NoRules = NoRules
  NoIdentifier = NoIdentifier
  NoAuth = NoAuth
  NoClaim = NoClaim
  NullRow = NullRow
  AuthColumn = "foo_id"
  Callers = {c1}
  FieldsOf <- MCFieldsOf
  Nesting <- MCNesting
  Messages <- MCMessages
  Wrappers = {"Shape"}
  OneofRules <- MCOneofRules
  Parses <- MCParses
  EnumName <- MCEnumName
  Fold <- MCFold
  Snake <- MCSnake
  Rank <- MCRank
  FilterTrees <- MCFilterTrees
  FilterDepth <- MCFilterDepth
  Plans <- DeepPlans
CHECK_DEADLOCK FALSE
INVARIANT IDPathsUnique
