SPECIFICATION Spec
CONSTANTS
  Accounts = {p, q}
  Actors = {a, b}
  SessionIds = {s}
  RequestIds = {r1, r2, r3}
  MaxRequests = 2
  MaxGeneration = 3
  MayRefuse = TRUE
  NoActor = NoActor
  NoSession = NoSession
  NoAccount = NoAccount
INVARIANTS
  OnlySignedInPlays
PROPERTIES
  GenerationFence
  OwnershipIsTaken
  DispatchEnds
CHECK_DEADLOCK FALSE
