SPECIFICATION PartsSpec
CONSTANTS
  Parts = {"controller", "storage", "settings", "signer", "dispatcher",
           "transfers", "reads", "common", "relays"}
  Connections = {c}
  Windows = {w}
  Sockets = {s1}
  SubIds = {}
  Handles = {}
  LaunchKinds = {}
  NoConnection = NoConnection
  WebSockets = {s1, s2, s3}
  ManualRetryFailures = 3
  NoSocket = NoSocket
  Namespaces = {m, n}
  EntryKeys = {k, l}
  Sizes = {1, 2}
  KeysPerNamespace = 1
  AggregateSize = 2
  MaxMutations = 2
  MaxFiles = 3
  RelayUrls = {u, v}
  BlockedUrls = {v}
  Forms = {f, g}
  AccountIds = {a, b}
  KeyAccounts = {b}
  SignIns = {i, j}
  NobodySignedIn = NobodySignedIn
  NoSignIn = NoSignIn
  MaxSnapshots = 2
  NapWindows = {w}
  Releases = {m}
  NapAccounts = {p, q}
  Requests = {r1, r2, r3}
  MaxTransfers = 1
  MaxActive = 2
  MaxLaunches = 2
  Nothing = Nothing
  Uploads = {up}
  Owners = {o}
  RequiredServers = 3
  Concurrency = 2
  MaxStatuses = 2
  NoOwner = NoOwner
  Items = {i, j}
  Upstreams = 2
  MaxRedirects = 1
  Users = {p}
  People = {x, y}
  CommonWindows = {w}
  Ops = {o1, o2}
  NobodyActive = NobodyActive
  MaxSwitches = 2
  MaxSeconds = 2
  RelayKeys = {rk}
  OutboxKeys = {ok}
  Streams = {t1, t2}
  RelayEvents = {e, f}
  MaxCacheWrites = 2
  NoStream = NoStream
INVARIANTS
  PartsTypeOK
  ConnectionIsKept
  OneAttemptRuns
  FileIsNewest
  AnswersAreDue
  UploadsAreTrue
  BlobsAreServed
PROPERTIES
  KeepsTable
  CrashIsSurvived
  SettingsAreKept
  ChangesAreTheAskers
  StreamsAreLive
CHECK_DEADLOCK FALSE
