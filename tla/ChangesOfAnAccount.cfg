SPECIFICATION Spec
CONSTANTS
  a = a  b = b  k1 = k1  k2 = k2
  c1 = c1  c2 = c2  m1 = m1
  None = None
  Accounts = {a, b}
  Keys = {k1, k2}
  KeyOf <- TwoKeys
  Coordinates = {c1}
  Manifests = {m1}
  RelayLists <- JustNone
  MaxTime = 1
  MaxJobs = 1
  MaxRequests = 2
  MaxLaunches = 0
PROPERTIES
  ChangesStayWithTheirAccount
