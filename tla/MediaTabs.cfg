SPECIFICATION Spec
CONSTANTS
  Accounts = {p}
  Actors = {a, b, c}
  SessionIds = {s, t}
  RequestIds = {r1, r2, r3}
  MaxRequests = 2
  MaxGeneration = 4
  MayRefuse = FALSE
  NoActor = NoActor
  NoSession = NoSession
  NoAccount = NoAccount
SYMMETRY Symmetry
INVARIANTS
  TypeOK
  OneLiveSession
  TabsFollow
  SessionsAreHeld
CHECK_DEADLOCK FALSE
