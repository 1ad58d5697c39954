SPECIFICATION Spec
CONSTANTS
  a = a  b = b  k1 = k1  k2 = k2
  c1 = c1  c2 = c2  m1 = m1
  None = None
  Accounts = {a}
  Keys = {k1}
  KeyOf <- OneKey
  Coordinates = {c1}
  Manifests = {m1}
  RelayLists <- JustOne
  MaxTime = 1
  MaxJobs = 1
  MaxRequests = 0
  MaxLaunches = 0
PROPERTIES
  ReadsChangeNothing
