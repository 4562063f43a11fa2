CONSTANTS
  t1 = t1
  t2 = t2
  t3 = t3
  Tiers <- MCTiers
  Amounts <- MCAmounts
  Stocks <- MCStocks
  Modes <- MCModes
  EditableFields = {"required", "active", "mode", "stock"}
  MaxIds = 4
SPECIFICATION LadderSpec
INVARIANTS
  LadderTypeOK
  LiveAmountsDistinct
  SortOrdersDistinct
CHECK_DEADLOCK FALSE
