SPECIFICATION FairSpec
CONSTANTS
  Ids = {1, 2, 3}
  Fields <- MCFields
  Kind <- MCKind
  Values = {0, 1, 2, 3, 4, 5}
  TextOf <- TextByValue
  Unset = Unset
  Null = Null
  Absent = Absent
  NoToken = NoToken
  DefaultSort <- ByAt
  TieBreaker <- ById
  Sortable = {"weight"}
  MaxPageSize = 3
  Requests <- AllRequests
  Writes <- Distinct
  MaxWrites = 1
  MaxFaults = 1
INVARIANTS
  ListerTypeOK
  SettledListedOnce
  ListedByValue
PROPERTIES
  ListingEnds
