SPECIFICATION PartsSpec
CONSTANTS
  Parts = {"controller", "registry", "storage", "settings", "signer", "dispatcher",
           "transfers", "reads", "common", "relays"}
  Connections = {c, d}
  Windows = {w}
  Sockets = {s1, s2, s3}
  SubIds = {}
  Handles = {h}
  LaunchKinds = {"catalog"}
  NoConnection = NoConnection
  WebSockets = {s1, s2, s3}
  ManualRetryFailures = 3
  NoSocket = NoSocket
  Namespaces = {m, n}
  EntryKeys = {k}
  Sizes = {1}
  KeysPerNamespace = 2
  AggregateSize = 2
  MaxMutations = 2
  MaxFiles = 2
  RelayUrls = {v}
  BlockedUrls = {v}
  Forms = {f, g}
  AccountIds = {a}
  KeyAccounts = {}
  SignIns = {i, j}
  NobodySignedIn = NobodySignedIn
  NoSignIn = NoSignIn
  MaxSnapshots = 1
  NapWindows = {w}
  Releases = {m}
  NapAccounts = {p, q}
  Requests = {r1, r2}
  MaxTransfers = 1
  MaxActive = 2
  MaxLaunches = 2
  Nothing = Nothing
  Uploads = {up}
  Owners = {o}
  RequiredServers = 3
  Concurrency = 2
  MaxStatuses = 1
  NoOwner = NoOwner
  Items = {i}
  Upstreams = 2
  MaxRedirects = 1
  Users = {p}
  People = {x}
  CommonWindows = {w}
  Ops = {o1, o2}
  NobodyActive = NobodyActive
  MaxSwitches = 1
  MaxSeconds = 2
  RelayKeys = {rk}
  OutboxKeys = {ok}
  Streams = {t1, t2}
  RelayEvents = {e, f}
  MaxCacheWrites = 2
  NoStream = NoStream
INVARIANTS
  SignedOutHoldsNothing
PROPERTIES
  ConnectionsRecover
  StoresAnswer
  RequestsEnd
CHECK_DEADLOCK FALSE
