SPECIFICATION Spec
CONSTANTS
  a = a  b = b  k1 = k1  k2 = k2
  c1 = c1  c2 = c2  m1 = m1
  None = None
  Accounts = {a}
  Keys = {k1}
  KeyOf <- OneKey
  Coordinates = {c1, c2}
  Manifests = {m1}
  RelayLists <- JustOne
  MaxTime = 2
  MaxJobs = 1
  MaxRequests = 2
  MaxLaunches = 1
INVARIANTS
  TypeOK
  ReleasedIsAccepted
PROPERTIES
  NoLostUpdate
  ApprovedAsReviewed
