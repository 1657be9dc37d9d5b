SPECIFICATION Spec
CONSTANTS
  Absent = Absent
  Top = 4
  MaxTable = 7
  MaxSpent = 3
  MaxKeystones = 2
  NameLength = 2
  Crowd = 3
  FuncomIds <- MCFuncomIds
  Limit = 2
  Items <- MCItems
  Patchings <- MCPatchings
  Settings <- MCSettings
INVARIANTS
  GrantsAddUp
  ExactNameIsNeverAnother
  EditsSettle
  CategoriesKeptApart
  PricesFollowDemand
CHECK_DEADLOCK FALSE
