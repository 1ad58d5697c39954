SPECIFICATION InstanceSpec
CONSTANTS
  Accounts = {p, q}
  FirstTab = t1
  FirstInvocation = i1
  SecondAccount = q
  Tabs = {t1, t2}
  Invocations = {i1, i2}
  Reservations = {r}
  MaxPending = 1
  MaxGeneration = 2
  NoAccount = NoAccount
INVARIANTS
  TypeOK
  CallsAreWaiting
PROPERTIES
  OpenedIsAuthorized
  KeepsContract
CHECK_DEADLOCK FALSE
