CONSTANTS
  t1 = t1
  t2 = t2
  u1 = u1
  u2 = u2
  k1 = k1
  k2 = k2
  k3 = k3
  Tiers <- OneTier
  Customers <- MCCustomers
  Claims <- MCClaims
  CustomerOf <- MCCustomerOf
  TierOf <- TierOfOne
  Amounts = {1}
  Totals = {1}
  Stocks <- UpToTwo
  Modes = {"none", "soft", "strict"}
  EditableFields = {"active", "stock"}
SPECIFICATION Spec
INVARIANTS
  TypeOK
  OneActiveClaim
  BooksBalance
PROPERTIES
  ApprovalsFitStock
  WithdrawnTierFreezesClaims
