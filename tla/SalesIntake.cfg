CONSTANTS
  u1 = u1
  u2 = u2
  k1 = k1
  k2 = k2
  k4 = k4
  k5 = k5
  b1 = b1
  b2 = b2
  b3 = b3
  e1 = e1
  s1 = s1
  s2 = s2
  Nothing = Nothing
  NoSession = NoSession
  Customers <- MCCustomers
  Keys <- MCKeys
  Feeds <- MCFeeds
  SourceOf <- MCSourceOf
  FileOf <- MCFileOf
  FetchOf <- MCFetchOf
  Samples <- MCSamples
  today = today
  Blank = Blank
  Opening <- MCOpening
  HandKeys <- ByHand
  Amounts = {1}
  TierAmounts = {2}
  Handled <- MCHandled
  Sessions <- MCSessions
SPECIFICATION Spec
INVARIANTS
  IntakeTypeOK
  ImportedTotalsRight
  CommittedFeedIsIn
  HashTellsContent
  AmountsReadBack
SYMMETRY Symmetry
CHECK_DEADLOCK FALSE
