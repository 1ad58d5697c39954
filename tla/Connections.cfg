SPECIFICATION Spec
CONSTANTS
  Connections = {c, d}
  Windows = {w, x}
  Sockets = {s1, s2, s3}
  SubIds = {i}
  Handles = {h1, h2}
  LaunchKinds = {"start"}
  NoConnection = NoConnection
SYMMETRY Symmetry
INVARIANTS
  TypeOK
  NewestIsServed
  RecordsAgree
  SubscriptionsAreOwned
  AuthorityHasWindow
CHECK_DEADLOCK FALSE
