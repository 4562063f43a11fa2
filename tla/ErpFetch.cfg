CONSTANTS
  d1 = d1
  d2 = d2
  c1 = c1
  c2 = c2
  Docs <- MCDocs
  Clients <- MCClients
  Rank <- MCRank
  Contents <- MCContents
  NoClient = NoClient
  Providers = {"moysklad", "one_c"}
  PageLimit = 1
  MaxRetries = 1
  Workers = {w1, w2}
  Opening <- MCOpening
  OpeningClients = {c1}
  Leavers = {c1}
  MaxEdits = 2
SPECIFICATION FairSpec
INVARIANTS
  FetchTypeOK
PROPERTIES
  CompletePass
  MirrorSpec
  WithdrawnStaysCounted
  OnlyThisSpoilsProgress
  EndsUpCopied
