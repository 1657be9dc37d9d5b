SPECIFICATION Spec
CONSTANTS
  Keys = {k1}
  Players = {p1}
  Prices = {1, 2}
  BasePrice = 1
  Quotas = {1, 2}
  StackMax = 2
  Durations <- MCDurations
  TTL = 1
  Sentinel = 99
  MaxBuys = 1
  Bot = Bot
  None = None
  Ids = {1, 2, 3, 4, 5}
  MaxTime = 2
  MaxEvents = 3
INVARIANTS
  TypeOK
  NeverOverQuota
  QuotaMet
PROPERTIES
  SellersWhole
CHECK_DEADLOCK FALSE
