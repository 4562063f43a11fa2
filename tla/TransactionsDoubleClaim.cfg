CONSTANTS
  t1 = t1
  u1 = u1
  u2 = u2
  k1 = k1
  k2 = k2
  k3 = k3
  s1 = s1
  s2 = s2
  NoSession = NoSession
  Tiers <- OneTier
  Customers <- TwoCustomers
  Amounts = {1}
  Totals = {1}
  Sessions <- TwoSessions
  Claims <- SecondTry
  CustomerOf <- CustomersOfRetry
  TierOf <- TiersOfRetry
  Stocks = {1}
  Modes = {"strict"}
  EditableFields = {}
SPECIFICATION TSpec
INVARIANTS
  OneActiveClaim
CHECK_DEADLOCK FALSE
