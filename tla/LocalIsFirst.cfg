SPECIFICATION ReadsSpec
CONSTANTS
  Items = {i}
  Upstreams = 2
  MaxRedirects = 1
INVARIANTS
  LocalIsFirst
CHECK_DEADLOCK FALSE
