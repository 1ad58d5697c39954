SPECIFICATION Spec
CONSTANTS
  Connections = {c, d}
  Windows = {w}
  Sockets = {s1, s2}
  SubIds = {i}
  Handles = {h}
  LaunchKinds = {"start", "catalog"}
  NoConnection = NoConnection
INVARIANT
  AuthorityHasWindow
CHECK_DEADLOCK FALSE
