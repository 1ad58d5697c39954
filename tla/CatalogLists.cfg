SPECIFICATION FairSpec
CONSTANTS
  a = a  b = b  k1 = k1  k2 = k2
  c1 = c1  c2 = c2  m1 = m1
  None = None
  Accounts = {a, b}
  Keys = {k1, k2}
  KeyOf <- TwoKeys
  Coordinates = {c1, c2}
  Manifests = {m1}
  RelayLists <- OneOrBoth
  MaxTime = 2
  MaxJobs = 1
  MaxRequests = 0
  MaxLaunches = 0
INVARIANTS
  CardsAreServed
PROPERTIES
  TruthRetained
  PendingResolves
